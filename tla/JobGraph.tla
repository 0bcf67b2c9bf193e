------------------------------- MODULE JobGraph -------------------------------
(***************************************************************************)
(* The job graph of one project: authoring (create, edit, draft, finalize, *)
(* release, revoke), batches and their members, the dependency fan-out,    *)
(* the ready queue, and the rebuild of all of it after a restart.          *)
(*                                                                         *)
(* The dispatcher is one actor.  The first write of a handler is one step; *)
(* what it does after that is in `todo', a list of chores each for a set   *)
(* of jobs, and every job of a chore is a step: that is where a write can  *)
(* fail and end the handler, or the process can die.  A handler that is    *)
(* over, or has failed, is followed by the drain of the ready queue.       *)
(*                                                                         *)
(*   absorb   take the jobs into the batch      revoke   revoke the jobs   *)
(*   unbatch  give the jobs back               finish   complete members   *)
(*   unblock  re-examine the jobs, whose dependencies may all be done      *)
(*                                                                         *)
(* Sources: dispatcher/src/core.rs (authoring, revoke, boot), ready.rs,    *)
(* reconcile.rs; domain/src/graph.rs, queue.rs, state.rs, release.rs,      *)
(* decide/ready.rs, authoring.rs and wrapup.rs.                            *)
(*                                                                         *)
(* Abstracted: `Work' stands for Work, Evaluation, WrapUp and Escalated    *)
(* (module MergeGate has the inside of it).  The type, the inputs and the  *)
(* text of a job only decide whether a validation passes, which is a       *)
(* choice.  The order in which a chore takes its jobs is left open.        *)
(***************************************************************************)
EXTENDS Integers, FiniteSets, SequencesExt, Queues

CONSTANTS
    Jobs,       \* sequence numbers the projects may come to use
    None,       \* no batch
    Batches,    \* those of them that are batches
    Plans       \* what the authors of the project may do

(***************************************************************************)
(* A plan says which jobs may come into being, the sets of dependencies an *)
(* author may give each, the sets of members of each batch, the faults and *)
(* the bounds: on edits, reopenings and refused releases, and on restarts. *)
(***************************************************************************)
(***************************************************************************)
(* Faults:                                                                 *)
(*   write         a write, or a read of the repository, fails mid-handler *)
(*   start         a queued job cannot be started (git, or its branch)     *)
(*   stall         a job fails the check made when it is unblocked         *)
(*   revokeMember  an operator revokes a job that is absorbed in a batch   *)
(*   cascadeBatch  a revoke cascades onto a batch                          *)
(*   overlap       a Draft batch lists a job that another batch lists      *)
(***************************************************************************)
ASSUME NoneAssumption == None \notin Jobs
ASSUME JobsAssumption == IsFiniteSet(Jobs) /\ Batches \subseteq Jobs
FaultKinds == {"write", "start", "stall", "revokeMember", "cascadeBatch", "overlap"}

ASSUME PlansAssumption ==
    \A p \in Plans :
      /\ p.jobs \subseteq Jobs
      /\ p.deps \in [p.jobs -> SUBSET SUBSET Jobs]
      /\ p.members \in [p.jobs \cap Batches -> SUBSET SUBSET (Jobs \ Batches)]
      /\ p.faults \subseteq FaultKinds
      /\ p.edits \in Nat /\ p.crashes \in Nat

JobStates == {"Draft", "Frozen", "Batched", "Blocked", "Ready", "Work", "Stalled",
              "Done", "Revoked"}
Terminal == {"Done", "Revoked"}
Absent == "Absent"
Chores == [op : {"absorb", "unbatch", "revoke", "finish", "unblock"},
           jobs : SUBSET Jobs, batch : Jobs \cup {None}]

VARIABLES
    plan,     \* the plan of the project: it does not change
    state,    \* state of each job, Absent when there is no such job
    deps,     \* dependencies in the stored record
    graph,    \* dependencies in the in-memory graph
    members,  \* members of a batch
    batchId,  \* the batch a job was absorbed into
    queue,    \* the ready queue
    todo,     \* what the running handler has yet to do
    pc,       \* "idle", "handler" or "drain"
    edits, crashes

record == <<state, deps, graph, members, batchId>>
vars == <<plan, record, queue, todo, pc, edits, crashes>>

Exists(j) == state[j] # Absent
Planned(j) == j \in plan.jobs /\ ~Exists(j)
Faults == plan.faults

-----------------------------------------------------------------------------
(* The graph. *)

\* Every job a job of `seeds' waits for, directly or not.
Upstream(edges, seeds) ==
    LET reach[n \in 0..Cardinality(Jobs)] ==
          IF n = 0 THEN seeds ELSE reach[n - 1] \cup UNION {edges[x] : x \in reach[n - 1]}
    IN  reach[Cardinality(Jobs)]

\* Mutant of CreatesCycle: only the direct dependencies are looked at.
CycleOfOne(j, ds) == j \in ds

CreatesCycle(j, ds) == j \in Upstream(graph, ds)

Dependents(j) == {d \in Jobs : Exists(d) /\ j \in graph[d]}

\* Mutant of DepsDone: a revoked dependency is no longer waited for.
DepsOver(j, ds) == \A d \in ds : state[d] \in Terminal

DepsDone(j, ds) == \A d \in ds : state[d] = "Done"

\* What a revoke of j takes with it: the walk stops at a job in any other state.
CascadeTargets(j) ==
    LET open == {d \in Jobs : state[d] \in {"Frozen", "Blocked", "Ready"}}
        reach[n \in 0..Cardinality(Jobs)] ==
          IF n = 0 THEN {j}
          ELSE reach[n - 1] \cup {d \in open : graph[d] \cap reach[n - 1] # {}}
    IN  {d \in open \ {j} : d \in reach[Cardinality(Jobs)]}

WiringOk(j, ds) ==
    /\ \A d \in ds : d # j /\ state[d] \notin {Absent, "Revoked"}
    /\ ~CreatesCycle(j, ds)

\* A job that may be absorbed: still Frozen, in no batch, and no batch itself.
ValidMember(m) == state[m] = "Frozen" /\ batchId[m] = None /\ members[m] = {}

PlanOk(ms, least) == Cardinality(ms) >= least /\ \A m \in ms : ValidMember(m)

\* Mutant of UnionDeps: the batch takes the dependencies its members share.
SharedDeps(ms) == {d \in Jobs \ ms : \A m \in ms : d \in graph[m]}

\* Nobody else lists a job of ms, but for batches that are committed when b is.
Apart(b, ms, draft) ==
    \A c \in Batches \ {b} :
        members[c] \cap ms # {} /\ state[c] \notin Terminal => ~draft /\ state[c] # "Draft"

\* The dependencies of a batch: those of its members that are not members too.
UnionDeps(ms) == (UNION {graph[m] : m \in ms}) \ ms

-----------------------------------------------------------------------------
(* The actor. *)

Enqueue(q, j) == IF Contains(q, j) THEN q ELSE Append(q, j)
Without(q, j) == Retain(q, Jobs \ {j})

\* The chores at the head of a list that have no jobs (left).
Spent(chores) == Cardinality({i \in 1..Len(chores) : \A k \in 1..i : chores[k].jobs = {}})

\* The handler goes on with `chores', and the drain follows it.
Continue(chores) ==
    /\ todo' = SubSeq(chores, Spent(chores) + 1, Len(chores))
    /\ pc' = IF todo' # <<>> THEN "handler" ELSE IF queue' # <<>> THEN "drain" ELSE "idle"

Chore(op, js, b) == [op |-> op, jobs |-> js, batch |-> b]

\* The chore at the head of the list, and j taken off it.
Doing(op, j) == todo # <<>> /\ Head(todo).op = op /\ j \in Head(todo).jobs
Taken(j) == Continue([todo EXCEPT ![1].jobs = @ \ {j}])

Idle == pc = "idle"
Edit == edits < plan.edits /\ edits' = edits + 1

-----------------------------------------------------------------------------
(* Authoring. *)

CreateJob(j) ==
    /\ Idle /\ Planned(j) /\ j \notin Batches
    /\ \E ds \in plan.deps[j], to \in {"Draft", "Frozen"} :
         /\ state' = [state EXCEPT ![j] = to]
         /\ deps' = [deps EXCEPT ![j] = ds]
         /\ graph' = [graph EXCEPT ![j] = ds]
    /\ UNCHANGED <<members, batchId, queue, todo, pc, edits, crashes, plan>>

\* A Draft batch only lists its members; any other absorbs them at once.
CreateBatch(b) ==
    /\ Idle /\ Planned(b)
    /\ \E ms \in plan.members[b], draft \in BOOLEAN :
         LET ds == IF draft THEN {} ELSE UnionDeps(ms) IN
         /\ PlanOk(ms, IF draft THEN 1 ELSE 2)
         /\ "overlap" \in Faults \/ Apart(b, ms, draft)
         /\ state' = [state EXCEPT ![b] = IF draft THEN "Draft" ELSE "Frozen"]
         /\ deps' = [deps EXCEPT ![b] = ds]
         /\ graph' = [graph EXCEPT ![b] = ds]
         /\ members' = [members EXCEPT ![b] = ms]
         /\ UNCHANGED <<batchId, queue, edits, crashes, plan>>
         /\ Continue(<<Chore("absorb", IF draft THEN {} ELSE ms, b)>>)

\* Dependencies of a Draft are replaced as a whole.
UpdateJob(j) ==
    /\ Idle /\ state[j] = "Draft" /\ Edit
    /\ \E ds \in plan.deps[j] :
         deps' = [deps EXCEPT ![j] = ds] /\ graph' = [graph EXCEPT ![j] = ds]
    /\ UNCHANGED <<state, members, batchId, queue, todo, pc, crashes, plan>>

\* The members of a Draft batch; the rest of the record is the graph's copy.
EditMembers(b) ==
    /\ Idle /\ state[b] = "Draft" /\ members[b] # {} /\ Edit
    /\ \E ms \in plan.members[b] :
         /\ ms # {} /\ \A m \in ms \ members[b] : ValidMember(m)
         /\ "overlap" \in Faults \/ Apart(b, ms, TRUE)
         /\ members' = [members EXCEPT ![b] = ms]
    /\ deps' = [deps EXCEPT ![b] = graph[b]]
    /\ UNCHANGED <<state, graph, batchId, queue, todo, pc, crashes, plan>>

\* An edit of the groups or of the approval flag stores the graph's copy.
EditLabels(j) ==
    /\ Idle /\ Exists(j) /\ deps[j] # graph[j] /\ Edit
    /\ deps' = [deps EXCEPT ![j] = graph[j]]
    /\ UNCHANGED <<state, graph, members, batchId, queue, todo, pc, crashes, plan>>

\* Mutant of DraftJob: a batch that is reopened keeps its members.
DraftKeepsMembers(j) ==
    /\ Idle /\ state[j] = "Frozen" /\ Edit
    /\ state' = [state EXCEPT ![j] = "Draft"]
    /\ UNCHANGED <<deps, graph, members, batchId, queue, todo, pc, crashes, plan>>

DraftJob(j) ==
    /\ Idle /\ state[j] = "Frozen" /\ Edit
    /\ state' = [state EXCEPT ![j] = "Draft"]
    /\ UNCHANGED <<deps, graph, members, batchId, queue, crashes, plan>>
    /\ Continue(<<Chore("unbatch", members[j], j)>>)

FinalizeJob(j) ==
    /\ Idle /\ state[j] = "Draft"
    /\ members[j] # {} => PlanOk(members[j], 2)
    /\ LET ds == IF members[j] = {} THEN graph[j] ELSE UnionDeps(members[j]) IN
         deps' = [deps EXCEPT ![j] = ds] /\ graph' = [graph EXCEPT ![j] = ds]
    /\ state' = [state EXCEPT ![j] = "Frozen"]
    /\ UNCHANGED <<members, batchId, queue, edits, crashes, plan>>
    /\ Continue(<<Chore("absorb", members[j], j)>>)

\* Dependencies a release sets: a Draft batch takes those of its members.
ReleaseDeps(j) ==
    IF state[j] = "Draft" /\ members[j] # {} THEN UnionDeps(members[j]) ELSE graph[j]

ReleaseOpen(j) ==
    /\ Idle /\ state[j] \in {"Draft", "Frozen"}
    /\ state[j] = "Draft" /\ members[j] # {} => PlanOk(members[j], 2)

ReleaseJob(j) ==
    LET ds == ReleaseDeps(j)
        to == IF DepsDone(j, ds) THEN "Ready" ELSE "Blocked"
    IN  /\ ReleaseOpen(j) /\ WiringOk(j, ds)
        /\ state' = [state EXCEPT ![j] = to]
        /\ deps' = [deps EXCEPT ![j] = ds]
        /\ graph' = [graph EXCEPT ![j] = ds]
        /\ queue' = IF to = "Ready" THEN Enqueue(queue, j) ELSE queue
        /\ UNCHANGED <<members, batchId, edits, crashes, plan>>
        /\ Continue(<<Chore("absorb", IF state[j] = "Draft" THEN members[j] ELSE {}, j)>>)

\* A refused release leaves the new dependencies of a Draft batch in the graph.
RefuseRelease(j) ==
    /\ ReleaseOpen(j) /\ ReleaseDeps(j) # graph[j] /\ Edit
    /\ graph' = [graph EXCEPT ![j] = ReleaseDeps(j)]
    /\ UNCHANGED <<state, deps, members, batchId, queue, todo, pc, crashes, plan>>

\* Mutant of Revoke: the job revoked stays in the ready queue.
RevokeLeavesQueue(j) ==
    /\ Idle /\ Exists(j) /\ state[j] \notin Terminal \cup {"Batched"}
    /\ state' = [state EXCEPT ![j] = "Revoked"]
    /\ UNCHANGED <<deps, graph, members, batchId, queue, edits, crashes, plan>>
    /\ Continue(<<Chore("revoke", CascadeTargets(j), None), Chore("unbatch", members[j], j)>>)

Revoke(j) ==
    LET cascade == CascadeTargets(j) IN
    /\ Idle /\ Exists(j) /\ state[j] \notin Terminal
    /\ state[j] = "Batched" => "revokeMember" \in Faults
    /\ cascade \cap Batches # {} => "cascadeBatch" \in Faults
    /\ state' = [state EXCEPT ![j] = "Revoked"]
    /\ deps' = [deps EXCEPT ![j] = graph[j]]
    /\ queue' = Without(queue, j)
    /\ UNCHANGED <<graph, members, batchId, edits, crashes, plan>>
    /\ Continue(<<Chore("revoke", cascade, None), Chore("unbatch", members[j], j)>>)

-----------------------------------------------------------------------------
(* The chores of a handler. *)

Absorb(m) ==
    /\ Doing("absorb", m)
    /\ state' = [state EXCEPT ![m] = "Batched"]
    /\ batchId' = [batchId EXCEPT ![m] = Head(todo).batch]
    /\ UNCHANGED <<deps, graph, members, queue, edits, crashes, plan>>
    /\ Taken(m)

\* Any Batched job of the list is given back, whichever batch holds it.
Unbatch(m) ==
    /\ Doing("unbatch", m)
    /\ IF state[m] = "Batched"
         THEN /\ state' = [state EXCEPT ![m] = "Frozen"]
              /\ batchId' = [batchId EXCEPT ![m] = None]
         ELSE UNCHANGED <<state, batchId>>
    /\ UNCHANGED <<deps, graph, members, queue, edits, crashes, plan>>
    /\ Taken(m)

RevokeTarget(j) ==
    /\ Doing("revoke", j)
    /\ state' = [state EXCEPT ![j] = "Revoked"]
    /\ queue' = Without(queue, j)
    /\ UNCHANGED <<deps, graph, members, batchId, edits, crashes, plan>>
    /\ Taken(j)

\* A member follows its batch to Done.  Refused when the member is in no state
\* that may: the rest of the handler is then skipped.
FinishMember(m) ==
    /\ Doing("finish", m)
    /\ state[m] \in {"Batched", "Work"}
    /\ state' = [state EXCEPT ![m] = "Done"]
    /\ UNCHANGED <<deps, graph, members, batchId, queue, edits, crashes, plan>>
    /\ Taken(m)

FinishRefused(m) ==
    /\ Doing("finish", m)
    /\ state[m] # "Batched"
    /\ UNCHANGED <<record, queue, edits, crashes, plan>>
    /\ Continue(<<>>)

\* try_unblock: a Blocked job with its dependencies done is checked again, and
\* is admitted, or stalls when the check finds errors.
TryUnblock(j) ==
    /\ Doing("unblock", j)
    /\ IF state[j] = "Blocked" /\ DepsDone(j, graph[j])
         THEN \/ /\ state' = [state EXCEPT ![j] = "Ready"]
                 /\ queue' = Enqueue(queue, j)
              \/ /\ "stall" \in Faults
                 /\ state' = [state EXCEPT ![j] = "Stalled"]
                 /\ UNCHANGED queue
         ELSE UNCHANGED <<state, queue>>
    /\ UNCHANGED <<deps, graph, members, batchId, edits, crashes, plan>>
    /\ Taken(j)

\* A write or a read fails: the error ends the handler where it stands.
HandlerFails ==
    /\ "write" \in Faults /\ todo # <<>> /\ Edit
    /\ UNCHANGED <<record, queue, crashes, plan>>
    /\ Continue(<<>>)

ChoreStep ==
    \E j \in Jobs : Absorb(j) \/ Unbatch(j) \/ RevokeTarget(j) \/ FinishMember(j)
                    \/ FinishRefused(j) \/ TryUnblock(j)

-----------------------------------------------------------------------------
(* Scheduling. *)

\* The drain takes the head of the queue and starts it if it is still Ready.
StartJob ==
    /\ pc = "drain" /\ queue # <<>>
    /\ state' = IF state[Head(queue)] = "Ready"
                  THEN [state EXCEPT ![Head(queue)] = "Work"] ELSE state
    /\ queue' = Tail(queue)
    /\ UNCHANGED <<deps, graph, members, batchId, edits, crashes, plan>>
    /\ Continue(<<>>)

\* The start fails: the entry is gone, and the drain stops there.
StartFails ==
    /\ "start" \in Faults /\ pc = "drain" /\ queue # <<>> /\ Edit
    /\ state[Head(queue)] = "Ready"
    /\ queue' = Tail(queue)
    /\ pc' = "idle"
    /\ UNCHANGED <<record, todo, crashes, plan>>

\* Any later message, a scan tick at the latest, drains what was left.
DrainAgain ==
    /\ Idle /\ queue # <<>>
    /\ pc' = "drain"
    /\ UNCHANGED <<record, queue, todo, edits, crashes, plan>>

\* Mutant of CompleteJob: the members are left as they are.
CompleteForgetsMembers(j) ==
    /\ Idle /\ state[j] = "Work"
    /\ state' = [state EXCEPT ![j] = "Done"]
    /\ UNCHANGED <<deps, graph, members, batchId, queue, edits, crashes, plan>>
    /\ Continue(<<Chore("unblock", Dependents(j), None)>>)

\* The work of j is on the trunk: j is Done, and for a batch every member.
CompleteJob(j) ==
    /\ Idle /\ state[j] = "Work"
    /\ state' = [state EXCEPT ![j] = "Done"]
    /\ UNCHANGED <<deps, graph, members, batchId, queue, edits, crashes, plan>>
    /\ Continue(<<Chore("finish", members[j], j),
                  Chore("unblock", UNION {Dependents(d) : d \in members[j] \cup {j}}, None)>>)

\* job_deadline: a job still Ready past it is taken off the queue and stalls.
DeadlineScan(j) ==
    /\ Idle /\ state[j] = "Ready" /\ Edit
    /\ state' = [state EXCEPT ![j] = "Stalled"]
    /\ queue' = Without(queue, j)
    /\ UNCHANGED <<deps, graph, members, batchId, crashes, plan>>
    /\ Continue(<<>>)

\* An operator retries a stalled job: only its configuration is checked again.
PreworkRetry(j) ==
    /\ Idle /\ state[j] = "Stalled" /\ Edit
    /\ state' = [state EXCEPT ![j] = "Ready"]
    /\ queue' = Enqueue(queue, j)
    /\ UNCHANGED <<deps, graph, members, batchId, crashes, plan>>
    /\ Continue(<<>>)

\* Mutant of Crash: the restart does not look at the Blocked jobs again.
CrashNoRescan ==
    /\ crashes < plan.crashes
    /\ crashes' = crashes + 1
    /\ graph' = deps
    /\ queue' = SetToSeq({j \in Jobs : state[j] = "Ready"})
    /\ UNCHANGED <<state, deps, members, batchId, edits, plan>>
    /\ Continue(<<>>)

\* The process dies.  A new one rebuilds the graph and the queue from the
\* records, and looks again at every Blocked job.
Crash ==
    /\ crashes < plan.crashes
    /\ crashes' = crashes + 1
    /\ graph' = deps
    /\ queue' = SetToSeq({j \in Jobs : state[j] = "Ready"})
    /\ UNCHANGED <<state, deps, members, batchId, edits, plan>>
    /\ Continue(<<Chore("unblock", {j \in Jobs : state[j] = "Blocked"}, None)>>)

-----------------------------------------------------------------------------
Init ==
    /\ plan \in Plans
    /\ state = [j \in Jobs |-> Absent]
    /\ deps = [j \in Jobs |-> {}]
    /\ graph = deps
    /\ members = deps
    /\ batchId = [j \in Jobs |-> None]
    /\ queue = <<>> /\ todo = <<>> /\ pc = "idle"
    /\ edits = 0 /\ crashes = 0

Authoring(j) ==
    \/ CreateJob(j) \/ UpdateJob(j) \/ EditLabels(j) \/ DraftJob(j) \/ FinalizeJob(j)
    \/ ReleaseJob(j) \/ RefuseRelease(j) \/ Revoke(j)

BatchAuthoring(b) == CreateBatch(b) \/ EditMembers(b)

Scheduling == StartJob \/ StartFails \/ DrainAgain

Next ==
    \/ \E j \in Jobs : Authoring(j) \/ CompleteJob(j) \/ DeadlineScan(j) \/ PreworkRetry(j)
    \/ \E b \in Batches : BatchAuthoring(b)
    \/ ChoreStep \/ HandlerFails \/ Scheduling \/ Crash

Spec == Init /\ [][Next]_vars

\* The actor runs what it was given, and a job that was started ends.
Fairness ==
    /\ WF_vars(ChoreStep) /\ WF_vars(StartJob) /\ WF_vars(DrainAgain)
    /\ \A j \in Jobs : WF_vars(CompleteJob(j))

FairSpec == Spec /\ Fairness

-----------------------------------------------------------------------------
(* Properties. *)

\* Every variable but the queue holds a value the code can store there; a job
\* exists only if it was planned, and chores are left only while a handler runs.
RecordsTyped ==
    /\ state \in [Jobs -> JobStates \cup {Absent}]
    /\ deps \in [Jobs -> SUBSET Jobs] /\ graph \in [Jobs -> SUBSET Jobs]
    /\ members \in [Jobs -> SUBSET Jobs]
    /\ batchId \in [Jobs -> Jobs \cup {None}]
    /\ \A j \in Jobs : Exists(j) => j \in plan.jobs
ActorTyped ==
    /\ todo \in Seq(Chores)
    /\ pc \in {"idle", "handler", "drain"}
    /\ pc # "handler" => todo = <<>>
BoundsTyped == plan \in Plans /\ edits \in 0..plan.edits /\ crashes \in 0..plan.crashes
TypeOK == RecordsTyped /\ ActorTyped /\ BoundsTyped

\* A batch that is committed and not over.
Committed(b) ==
    members[b] # {} /\ state[b] \in {"Frozen", "Blocked", "Ready", "Work", "Stalled"}

\* A job admitted to work has every dependency Done, and so has a job that
\* stalled on the way in: no edit, cascade, retry or restart gets round the
\* gate of release_job and try_unblock.
AdmittedOnDoneDeps ==
    \A j \in Jobs : state[j] \in {"Ready", "Work", "Stalled"} => \A d \in deps[j] : state[d] = "Done"

\* The in-memory graph says what the records say of every job whose dependencies
\* are settled.  Only a Draft batch whose release was refused differs.
GraphIsRecord == \A j \in Jobs : deps[j] # graph[j] => state[j] = "Draft"

\* Between two messages the ready queue holds Ready jobs only (the runtime check
\* ready_queue_only_ready), each once.
QueueIsReady ==
    pc # "handler" => /\ \A i \in DOMAIN queue : state[queue[i]] = "Ready"
                      /\ \A i, k \in DOMAIN queue : queue[i] = queue[k] => i = k

\* When a drain has ended, every job still Ready is in the queue, waiting for
\* the next drain: none is Ready and forgotten, but for one whose start failed.
ReadyIsQueued ==
    pc = "idle" /\ Faults \cap {"start", "write"} = {} =>
        \A j \in Jobs : state[j] = "Ready" => Contains(queue, j)

\* The queue holds the Ready jobs, all of them and nothing else.
QueueIsTrue == QueueIsReady /\ ReadyIsQueued

\* A committed batch holds its members, all of them, and nobody else does; and a
\* job that is Batched belongs to a batch that is committed and lists it, unless
\* a member is revoked by itself, or a restart cuts a handler short.
MembersAreHeld ==
    pc = "idle" /\ "revokeMember" \notin Faults /\ crashes = 0 =>
        /\ \A b \in Jobs : Committed(b) =>
              \A m \in members[b] : state[m] = "Batched" /\ batchId[m] = b
        /\ \A m \in Jobs : state[m] = "Batched" =>
              batchId[m] # None /\ Committed(batchId[m]) /\ m \in members[batchId[m]]

\* No job waits for one that was revoked: the cascade of revoke_job reached it,
\* or its release was refused.  A cascade that is cut short is not taken up again.
NoWaitOnRevoked ==
    pc = "idle" /\ "write" \notin Faults /\ crashes = 0 =>
        \A j \in Jobs : state[j] = "Blocked" => \A d \in deps[j] : state[d] # "Revoked"

\* What a job waits for: its dependencies, or the batch that absorbed it.
WaitsFor ==
    [j \in Jobs |-> IF state[j] = "Batched" THEN {batchId[j]} \ {None}
                    ELSE IF state[j] = "Blocked" THEN {d \in graph[j] : state[d] # "Done"}
                    ELSE {}]

\* Jobs never wait for each other in a circle, as long as none of them is a batch:
\* every edit is checked again by the release.
NoCircularWait ==
    (\A b \in Jobs : members[b] = {}) => \A j \in Jobs : j \notin Upstream(WaitsFor, WaitsFor[j])

\* The graph is the one of the records, without circles, and nothing in it waits
\* for what will never come.
GraphIsTrue == GraphIsRecord /\ NoWaitOnRevoked /\ NoCircularWait

\* A Blocked job whose last dependency is done is admitted, or stalls where an
\* operator is told: the fan-out of on_job_done, or the rescan after a restart,
\* reaches it, unless a failing write ends the fan-out.
BlockedMovesOn ==
    \A j \in Jobs : "write" \notin Faults /\ state[j] = "Blocked" /\ DepsDone(j, deps[j]) ~> state[j] # "Blocked"

\* The completion of a batch completes each member it had absorbed: none is left
\* Batched under a batch that is Done, if the handler comes to its end and no
\* member was revoked.
MembersFollowBatch ==
    \A m \in Jobs, b \in Batches :
        Faults = {} /\ plan.crashes = 0 /\ state[m] = "Batched" /\ batchId[m] = b /\ state[b] = "Done" ~> state[m] # "Batched"

\* Members of a batch that is Done and whose own records are yet to be written.
Carried == {m \in Jobs : \E b \in Batches :
               state[b] = "Done" /\ state[m] = "Batched" /\ batchId[m] = b}

P == INSTANCE Precedence WITH
        needs <- [j \in Jobs |-> IF Exists(j) THEN deps[j] ELSE {}],
        started <- {j \in Jobs : state[j] = "Work"},
        finished <- {j \in Jobs : state[j] = "Done"} \cup Carried

\* The whole implements Precedence: work starts on finished dependencies, settled
\* by then, and a batch finishes its members with all they need.
ImplementsPrecedence == P!Spec
================================================================================
