---------------------------- MODULE JobGraph_proofs ----------------------------
(***************************************************************************)
(* Theorems about JobGraph, for every set of jobs, every plan of what the  *)
(* authors do, every fault and every number of edits and restarts.         *)
(***************************************************************************)
EXTENDS JobGraph, Queues_proofs, SequenceTheorems

-----------------------------------------------------------------------------
(* The chores.                                                              *)

\* What a list of chores may hold when the jobs are in the states `st': a job to
\* be absorbed is still Frozen and one the cascade takes is still open, and these
\* two kinds of chore only ever come first.
Fits(chores, st) ==
    \A i \in 1..Len(chores) :
      /\ chores[i].op \in {"absorb", "revoke"} => i = 1
      /\ chores[i].op = "absorb" => \A j \in chores[i].jobs : st[j] = "Frozen"
      /\ chores[i].op = "revoke" =>
           \A j \in chores[i].jobs : st[j] \in {"Frozen", "Blocked", "Ready"}

\* A handler that goes on does so with an end of its list.
LEMMA ContinueIsSuffix ==
    ASSUME NEW chores \in Seq(Chores), Continue(chores)
    PROVE  \E n \in Nat : /\ Len(todo') = IF n < Len(chores) THEN Len(chores) - n ELSE 0
                          /\ \A i \in 1..Len(todo') : todo'[i] = chores[n + i]
                          /\ todo' \in Seq(Chores)
<1>1. Spent(chores) \in Nat
  <2>1. IsFiniteSet(1..Len(chores))
    BY FS_Interval
  <2>2. IsFiniteSet({i \in 1..Len(chores) : \A k \in 1..i : chores[k].jobs = {}})
    BY <2>1, FS_Subset
  <2> QED
    BY <2>2, FS_CardinalityType DEF Spent
<1>2. PICK n \in Nat : n = Spent(chores)
  BY <1>1
<1>3. todo' = SubSeq(chores, n + 1, Len(chores))
  BY <1>2 DEF Continue
<1>4. Len(chores) \in Nat /\ \A i \in 1..Len(chores) : chores[i] \in Chores
  OBVIOUS
<1>5. \A i \in n + 1..Len(chores) : chores[i] \in Chores
  BY <1>4
<1>6. /\ todo' \in Seq(Chores)
      /\ Len(todo') = IF n < Len(chores) THEN Len(chores) - n ELSE 0
      /\ \A i \in 1..Len(todo') : todo'[i] = chores[n + i]
  BY <1>3, <1>4, <1>5, SubSeqProperties
<1> QED
  BY <1>6

\* So what fits the states still fits.
LEMMA ContinueFits ==
    ASSUME NEW chores \in Seq(Chores), Continue(chores), Fits(chores, state')
    PROVE  Fits(todo', state') /\ ActorTyped'
<1>1. PICK n \in Nat : /\ Len(todo') = IF n < Len(chores) THEN Len(chores) - n ELSE 0
                       /\ \A i \in 1..Len(todo') : todo'[i] = chores[n + i]
                       /\ todo' \in Seq(Chores)
  BY ContinueIsSuffix
<1>2. ASSUME NEW i \in 1..Len(todo')
      PROVE  n + i \in 1..Len(chores) /\ (n + i = 1 => i = 1)
  BY <1>1
<1>3. Fits(todo', state')
  BY <1>1, <1>2 DEF Fits
<1>4. ActorTyped'
  BY <1>1 DEF Continue, ActorTyped
<1> QED
  BY <1>3, <1>4

\* The lists handlers begin with.
LEMMA OneChore ==
    ASSUME NEW op \in {"absorb", "unbatch", "unblock"}, NEW js \in SUBSET Jobs,
           NEW b \in Jobs \cup {None},
           op = "absorb" => \A j \in js : state'[j] = "Frozen"
    PROVE  /\ <<Chore(op, js, b)>> \in Seq(Chores)
           /\ Fits(<<Chore(op, js, b)>>, state')
BY DEF Chore, Chores, Fits

LEMMA TwoChores ==
    ASSUME NEW op1 \in {"revoke", "finish"}, NEW op2 \in {"unbatch", "unblock"},
           NEW js1 \in SUBSET Jobs, NEW js2 \in SUBSET Jobs,
           NEW b1 \in Jobs \cup {None}, NEW b2 \in Jobs \cup {None},
           op1 = "revoke" => \A j \in js1 : state'[j] \in {"Frozen", "Blocked", "Ready"}
    PROVE  /\ <<Chore(op1, js1, b1), Chore(op2, js2, b2)>> \in Seq(Chores)
           /\ Fits(<<Chore(op1, js1, b1), Chore(op2, js2, b2)>>, state')
BY DEF Chore, Chores, Fits

LEMMA NoChores == <<>> \in Seq(Chores) /\ Fits(<<>>, state')
BY DEF Fits

-----------------------------------------------------------------------------
(* The invariant.                                                           *)

IInv == TypeOK /\ GraphIsRecord /\ AdmittedOnDoneDeps /\ Fits(todo, state)

\* A step that changes one job keeps the relations between records, if it leaves
\* a Done job alone and admits the job on dependencies that are Done.
LEMMA OneJob ==
    ASSUME RecordsTyped, GraphIsRecord, AdmittedOnDoneDeps, NEW j \in Jobs,
           \A k \in Jobs \ {j} : /\ state'[k] = state[k]
                                 /\ deps'[k] = deps[k] /\ graph'[k] = graph[k],
           deps'[j] \subseteq Jobs,
           state[j] # "Done",
           deps'[j] # graph'[j] => state'[j] = "Draft",
           state'[j] \in {"Ready", "Work", "Stalled"} => \A d \in deps'[j] : state[d] = "Done"
    PROVE  GraphIsRecord' /\ AdmittedOnDoneDeps'
<1>1. GraphIsRecord'
  BY DEF GraphIsRecord
<1>2. \A d \in Jobs : state[d] = "Done" => state'[d] = "Done"
  OBVIOUS
<1>3. ASSUME NEW k \in Jobs, state'[k] \in {"Ready", "Work", "Stalled"}
      PROVE  \A d \in deps'[k] : state'[d] = "Done"
  <2>1. CASE k = j
    BY <1>2, <1>3, <2>1
  <2>2. CASE k # j
    BY <1>2, <1>3, <2>2 DEF AdmittedOnDoneDeps, RecordsTyped
  <2> QED
    BY <2>1, <2>2
<1> QED
  BY <1>1, <1>3 DEF AdmittedOnDoneDeps

\* Between messages nothing is left to do, so nothing is asked of it.
LEMMA IdleFits ==
    ASSUME ActorTyped, pc # "handler"
    PROVE  todo = <<>> /\ Fits(todo, state') /\ Fits(todo, state)
BY DEF ActorTyped, Fits

\* The dependencies and members the plan offers.
LEMMA PlanTyped ==
    ASSUME plan \in Plans
    PROVE  /\ plan.jobs \subseteq Jobs
           /\ \A j \in plan.jobs : plan.deps[j] \subseteq SUBSET Jobs
           /\ \A b \in plan.jobs \cap Batches : plan.members[b] \subseteq SUBSET Jobs
           /\ plan.edits \in Nat /\ plan.crashes \in Nat
<1>1. /\ plan.jobs \subseteq Jobs
      /\ plan.deps \in [plan.jobs -> SUBSET SUBSET Jobs]
      /\ plan.members \in [plan.jobs \cap Batches -> SUBSET SUBSET (Jobs \ Batches)]
      /\ plan.edits \in Nat /\ plan.crashes \in Nat
  BY PlansAssumption, Zenon
<1>2. \A j \in plan.jobs : plan.deps[j] \subseteq SUBSET Jobs
  BY <1>1
<1>3. \A b \in plan.jobs \cap Batches : plan.members[b] \in SUBSET SUBSET (Jobs \ Batches)
  BY <1>1, Zenon
<1>4. \A b \in plan.jobs \cap Batches : plan.members[b] \subseteq SUBSET Jobs
  BY <1>3
<1> QED
  BY <1>1, <1>2, <1>4

LEMMA UnionTyped ==
    ASSUME RecordsTyped, NEW ms \in SUBSET Jobs
    PROVE  UnionDeps(ms) \in SUBSET Jobs
BY DEF UnionDeps, RecordsTyped

LEMMA BoundsKept ==
    ASSUME BoundsTyped, UNCHANGED plan, UNCHANGED crashes, UNCHANGED edits \/ Edit
    PROVE  BoundsTyped'
BY PlanTyped DEF BoundsTyped, Edit

-----------------------------------------------------------------------------
(* Authoring.                                                               *)

LEMMA CreateJobKeeps ==
    ASSUME IInv, NEW j \in Jobs, CreateJob(j)
    PROVE  IInv'
<1>1. BoundsTyped'
  BY BoundsKept DEF IInv, TypeOK, CreateJob
<1>2. PICK ds \in plan.deps[j], to \in {"Draft", "Frozen"} :
        /\ state' = [state EXCEPT ![j] = to]
        /\ deps' = [deps EXCEPT ![j] = ds] /\ graph' = [graph EXCEPT ![j] = ds]
  BY DEF CreateJob
<1>3. j \in plan.jobs /\ ds \subseteq Jobs /\ state[j] = Absent
  BY PlanTyped DEF IInv, TypeOK, BoundsTyped, CreateJob, Planned, Exists
<1>4. RecordsTyped'
  BY <1>2, <1>3 DEF IInv, TypeOK, CreateJob, RecordsTyped, JobStates, Exists
<1>5. GraphIsRecord' /\ AdmittedOnDoneDeps'
  BY <1>2, <1>3, OneJob DEF IInv, TypeOK, RecordsTyped, Absent
<1>6. ActorTyped' /\ Fits(todo', state')
  BY IdleFits DEF IInv, TypeOK, CreateJob, Idle, ActorTyped
<1> QED
  BY <1>1, <1>4, <1>5, <1>6 DEF IInv, TypeOK

LEMMA CreateBatchKeeps ==
    ASSUME IInv, NEW b \in Batches, CreateBatch(b)
    PROVE  IInv'
<1>1. BoundsTyped'
  BY BoundsKept DEF IInv, TypeOK, CreateBatch
<1>2. PICK ms \in plan.members[b], draft \in BOOLEAN :
        LET ds == IF draft THEN {} ELSE UnionDeps(ms) IN
          /\ PlanOk(ms, IF draft THEN 1 ELSE 2)
          /\ state' = [state EXCEPT ![b] = IF draft THEN "Draft" ELSE "Frozen"]
          /\ deps' = [deps EXCEPT ![b] = ds]
          /\ graph' = [graph EXCEPT ![b] = ds]
          /\ members' = [members EXCEPT ![b] = ms]
          /\ Continue(<<Chore("absorb", IF draft THEN {} ELSE ms, b)>>)
  BY DEF CreateBatch
<1>3. b \in Jobs /\ b \in plan.jobs /\ ms \subseteq Jobs /\ state[b] = Absent
  BY PlanTyped, JobsAssumption DEF IInv, TypeOK, BoundsTyped, CreateBatch, Planned, Exists
<1>4. PICK ds \in SUBSET Jobs : deps' = [deps EXCEPT ![b] = ds] /\ graph' = [graph EXCEPT ![b] = ds]
  BY <1>2, <1>3, UnionTyped DEF IInv, TypeOK
<1>5. RecordsTyped'
  BY <1>2, <1>3, <1>4 DEF IInv, TypeOK, CreateBatch, RecordsTyped, JobStates, Exists
<1>6. GraphIsRecord' /\ AdmittedOnDoneDeps'
  BY <1>2, <1>3, <1>4, OneJob DEF IInv, TypeOK, RecordsTyped, Absent
<1>7. \A m \in ms : state'[m] = "Frozen"
  BY <1>2, <1>3 DEF PlanOk, ValidMember, Absent, IInv, TypeOK, RecordsTyped
<1>8. ActorTyped' /\ Fits(todo', state')
  <2> DEFINE js == IF draft THEN {} ELSE ms
  <2>1. <<Chore("absorb", js, b)>> \in Seq(Chores) /\ Fits(<<Chore("absorb", js, b)>>, state')
    BY <1>3, <1>7, OneChore
  <2> QED
    BY <1>2, <2>1, ContinueFits
<1> QED
  BY <1>1, <1>5, <1>6, <1>8 DEF IInv, TypeOK

LEMMA UpdateJobKeeps ==
    ASSUME IInv, NEW j \in Jobs, UpdateJob(j)
    PROVE  IInv'
<1>1. BoundsTyped'
  BY BoundsKept DEF IInv, TypeOK, UpdateJob
<1>2. PICK ds \in plan.deps[j] :
        deps' = [deps EXCEPT ![j] = ds] /\ graph' = [graph EXCEPT ![j] = ds]
  BY DEF UpdateJob
<1>3. ds \subseteq Jobs /\ state[j] = "Draft"
  BY PlanTyped DEF IInv, TypeOK, BoundsTyped, RecordsTyped, UpdateJob, Exists, Absent
<1>4. RecordsTyped'
  BY <1>2, <1>3 DEF IInv, TypeOK, UpdateJob, RecordsTyped, Exists
<1>5. GraphIsRecord' /\ AdmittedOnDoneDeps'
  BY <1>2, <1>3, OneJob DEF IInv, TypeOK, RecordsTyped, UpdateJob
<1>6. ActorTyped' /\ Fits(todo', state')
  BY IdleFits DEF IInv, TypeOK, UpdateJob, Idle, ActorTyped
<1> QED
  BY <1>1, <1>4, <1>5, <1>6 DEF IInv, TypeOK

LEMMA EditMembersKeeps ==
    ASSUME IInv, NEW b \in Batches, EditMembers(b)
    PROVE  IInv'
<1>1. BoundsTyped'
  BY BoundsKept DEF IInv, TypeOK, EditMembers
<1>2. PICK ms \in plan.members[b] : members' = [members EXCEPT ![b] = ms]
  BY DEF EditMembers
<1>3. b \in Jobs /\ state[b] = "Draft" /\ ms \subseteq Jobs
  BY PlanTyped, JobsAssumption
  DEF IInv, TypeOK, BoundsTyped, RecordsTyped, EditMembers, Exists, Absent
<1>4. RecordsTyped'
  BY <1>2, <1>3 DEF IInv, TypeOK, EditMembers, RecordsTyped, Exists
<1>5. GraphIsRecord' /\ AdmittedOnDoneDeps'
  BY <1>3, OneJob DEF IInv, TypeOK, RecordsTyped, EditMembers
<1>6. ActorTyped' /\ Fits(todo', state')
  BY IdleFits DEF IInv, TypeOK, EditMembers, Idle, ActorTyped
<1> QED
  BY <1>1, <1>4, <1>5, <1>6 DEF IInv, TypeOK

\* Only of a Draft the records and the graph differ.
LEMMA EditLabelsKeeps ==
    ASSUME IInv, NEW j \in Jobs, EditLabels(j)
    PROVE  IInv'
<1>1. BoundsTyped'
  BY BoundsKept DEF IInv, TypeOK, EditLabels
<1>2. state[j] = "Draft"
  BY DEF IInv, GraphIsRecord, EditLabels
<1>3. RecordsTyped'
  BY DEF IInv, TypeOK, EditLabels, RecordsTyped, Exists
<1>4. GraphIsRecord' /\ AdmittedOnDoneDeps'
  BY <1>2, OneJob DEF IInv, TypeOK, RecordsTyped, EditLabels
<1>5. ActorTyped' /\ Fits(todo', state')
  BY IdleFits DEF IInv, TypeOK, EditLabels, Idle, ActorTyped
<1> QED
  BY <1>1, <1>3, <1>4, <1>5 DEF IInv, TypeOK

LEMMA DraftJobKeeps ==
    ASSUME IInv, NEW j \in Jobs, DraftJob(j)
    PROVE  IInv'
<1>1. BoundsTyped'
  BY BoundsKept DEF IInv, TypeOK, DraftJob
<1>2. RecordsTyped'
  BY DEF IInv, TypeOK, DraftJob, RecordsTyped, JobStates, Exists, Absent
<1>3. GraphIsRecord' /\ AdmittedOnDoneDeps'
  BY OneJob DEF IInv, TypeOK, RecordsTyped, DraftJob
<1>4. ActorTyped' /\ Fits(todo', state')
  BY OneChore, ContinueFits DEF IInv, TypeOK, DraftJob, RecordsTyped
<1> QED
  BY <1>1, <1>2, <1>3, <1>4 DEF IInv, TypeOK

\* A batch is never its own member, so its members stay as they were found.
LEMMA FinalizeJobKeeps ==
    ASSUME IInv, NEW j \in Jobs, FinalizeJob(j)
    PROVE  IInv'
<1>1. BoundsTyped'
  BY BoundsKept DEF IInv, TypeOK, FinalizeJob
<1>2. PICK ds \in SUBSET Jobs : deps' = [deps EXCEPT ![j] = ds] /\ graph' = [graph EXCEPT ![j] = ds]
  BY UnionTyped DEF IInv, TypeOK, RecordsTyped, FinalizeJob
<1>3. RecordsTyped'
  BY <1>2 DEF IInv, TypeOK, FinalizeJob, RecordsTyped, JobStates, Exists, Absent
<1>4. GraphIsRecord' /\ AdmittedOnDoneDeps'
  BY <1>2, OneJob DEF IInv, TypeOK, RecordsTyped, FinalizeJob
<1>5. \A m \in members[j] : state'[m] = "Frozen"
  BY DEF IInv, TypeOK, RecordsTyped, FinalizeJob, PlanOk, ValidMember
<1>6. ActorTyped' /\ Fits(todo', state')
  BY <1>5, OneChore, ContinueFits DEF IInv, TypeOK, FinalizeJob, RecordsTyped
<1> QED
  BY <1>1, <1>3, <1>4, <1>6 DEF IInv, TypeOK

\* A release admits only when what it writes is Done, and what is Done is not
\* the job itself.
LEMMA ReleaseJobKeeps ==
    ASSUME IInv, NEW j \in Jobs, ReleaseJob(j)
    PROVE  IInv'
<1>1. BoundsTyped'
  BY BoundsKept DEF IInv, TypeOK, ReleaseJob
<1>2. PICK ds \in SUBSET Jobs : ds = ReleaseDeps(j)
  BY UnionTyped DEF IInv, TypeOK, RecordsTyped, ReleaseDeps
<1>3. PICK to \in {"Ready", "Blocked"} : to = IF DepsDone(j, ds) THEN "Ready" ELSE "Blocked"
  OBVIOUS
<1>4. /\ state' = [state EXCEPT ![j] = to]
      /\ deps' = [deps EXCEPT ![j] = ds] /\ graph' = [graph EXCEPT ![j] = ds]
  BY <1>2, <1>3 DEF ReleaseJob
<1>5. state[j] \in {"Draft", "Frozen"} /\ UNCHANGED <<members, batchId, plan>>
  BY DEF ReleaseJob, ReleaseOpen
<1>6. RecordsTyped'
  BY <1>2, <1>4, <1>5 DEF IInv, TypeOK, RecordsTyped, JobStates, Exists, Absent
<1>7. GraphIsRecord' /\ AdmittedOnDoneDeps'
  BY <1>2, <1>3, <1>4, <1>5, OneJob DEF IInv, TypeOK, RecordsTyped, DepsDone
<1>8. \A m \in members[j] : state[j] = "Draft" => state'[m] = "Frozen"
  BY <1>4 DEF IInv, TypeOK, RecordsTyped, ReleaseJob, ReleaseOpen, PlanOk, ValidMember
<1>9. ActorTyped' /\ Fits(todo', state')
  <2> DEFINE js == IF state[j] = "Draft" THEN members[j] ELSE {}
  <2>1. js \in SUBSET Jobs /\ \A m \in js : state'[m] = "Frozen"
    BY <1>8 DEF IInv, TypeOK, RecordsTyped
  <2>2. Continue(<<Chore("absorb", js, j)>>)
    BY DEF ReleaseJob
  <2> HIDE DEF js
  <2> QED
    BY <2>1, <2>2, OneChore, ContinueFits
<1> QED
  BY <1>1, <1>6, <1>7, <1>9 DEF IInv, TypeOK

LEMMA RefuseReleaseKeeps ==
    ASSUME IInv, NEW j \in Jobs, RefuseRelease(j)
    PROVE  IInv'
<1>1. BoundsTyped'
  BY BoundsKept DEF IInv, TypeOK, RefuseRelease
<1>2. PICK ds \in SUBSET Jobs : graph' = [graph EXCEPT ![j] = ds]
  BY UnionTyped DEF IInv, TypeOK, RecordsTyped, ReleaseDeps, RefuseRelease
<1>3. state[j] = "Draft"
  BY DEF RefuseRelease, ReleaseDeps
<1>4. RecordsTyped'
  BY <1>2 DEF IInv, TypeOK, RefuseRelease, RecordsTyped, Exists
<1>5. GraphIsRecord' /\ AdmittedOnDoneDeps'
  BY <1>2, <1>3, OneJob DEF IInv, TypeOK, RecordsTyped, RefuseRelease
<1>6. ActorTyped' /\ Fits(todo', state')
  BY IdleFits DEF IInv, TypeOK, RefuseRelease, ReleaseOpen, Idle, ActorTyped
<1> QED
  BY <1>1, <1>4, <1>5, <1>6 DEF IInv, TypeOK

\* The cascade takes open jobs only, and not the job that is revoked.
LEMMA RevokeKeeps ==
    ASSUME IInv, NEW j \in Jobs, Revoke(j)
    PROVE  IInv'
<1>1. BoundsTyped'
  BY BoundsKept DEF IInv, TypeOK, Revoke
<1>2. /\ state' = [state EXCEPT ![j] = "Revoked"] /\ deps' = [deps EXCEPT ![j] = graph[j]]
      /\ UNCHANGED <<graph, members, batchId, plan>>
      /\ state[j] \notin Terminal /\ Exists(j)
  BY DEF Revoke
<1>3. RecordsTyped'
  BY <1>2 DEF IInv, TypeOK, RecordsTyped, JobStates, Exists, Absent
<1>4. GraphIsRecord' /\ AdmittedOnDoneDeps'
  BY <1>2, OneJob DEF IInv, TypeOK, RecordsTyped, Terminal
<1>5. PICK js \in SUBSET Jobs : /\ js = CascadeTargets(j)
                                /\ \A d \in js : d # j /\ state[d] \in {"Frozen", "Blocked", "Ready"}
  <2>1. CascadeTargets(j) \subseteq {d \in Jobs : state[d] \in {"Frozen", "Blocked", "Ready"}} \ {j}
    BY Zenon DEF CascadeTargets
  <2> QED
    BY <2>1
<1>6. \A d \in js : state'[d] \in {"Frozen", "Blocked", "Ready"}
  BY <1>2, <1>5 DEF IInv, TypeOK, RecordsTyped
<1>7. Continue(<<Chore("revoke", js, None), Chore("unbatch", members[j], j)>>)
  BY <1>5 DEF Revoke
<1>8. ActorTyped' /\ Fits(todo', state')
  BY <1>6, <1>7, TwoChores, ContinueFits DEF IInv, TypeOK, RecordsTyped
<1> QED
  BY <1>1, <1>3, <1>4, <1>8 DEF IInv, TypeOK

-----------------------------------------------------------------------------
(* Chores.                                                                  *)

\* The list a chore goes on with, once it is done with a job.
Rest(j) == [todo EXCEPT ![1].jobs = @ \ {j}]

\* A sequence with another head.
LEMMA OtherHead ==
    ASSUME NEW S, NEW seq \in Seq(S), NEW e \in S, 1 \in 1..Len(seq)
    PROVE  /\ [seq EXCEPT ![1] = e] \in Seq(S)
           /\ Len([seq EXCEPT ![1] = e]) = Len(seq)
           /\ \A i \in 1..Len(seq) : [seq EXCEPT ![1] = e][i] = IF i = 1 THEN e ELSE seq[i]
BY ExceptSeq

\* What fits the states without the job fits after a change of that job alone.  If
\* the chore is another one, no list of jobs to absorb or to revoke is left.
LEMMA RestFits ==
    ASSUME ActorTyped, Fits(todo, state), NEW j \in Jobs, todo # <<>>,
           \A k \in Jobs \ {j} : state'[k] = state[k]
    PROVE  Rest(j) \in Seq(Chores) /\ Fits(Rest(j), state')
<1>1. todo \in Seq(Chores) /\ Len(todo) >= 1 /\ \A i \in 1..Len(todo) : todo[i] \in Chores
  BY DEF ActorTyped
<1>2. PICK c : /\ c = [todo[1] EXCEPT !.jobs = @ \ {j}]
               /\ Rest(j) = [todo EXCEPT ![1] = c]
  BY Zenon DEF Rest
<1>3. c \in Chores /\ c.op = todo[1].op /\ c.jobs = todo[1].jobs \ {j}
  BY <1>1, <1>2 DEF Chores
<1>4. /\ Rest(j) \in Seq(Chores) /\ Len(Rest(j)) = Len(todo)
      /\ \A i \in 1..Len(todo) : Rest(j)[i] = IF i = 1 THEN c ELSE todo[i]
  <2>1. 1 \in 1..Len(todo) /\ todo \in Seq(Chores) /\ c \in Chores
    BY <1>1, <1>3
  <2>2. /\ [todo EXCEPT ![1] = c] \in Seq(Chores)
        /\ Len([todo EXCEPT ![1] = c]) = Len(todo)
        /\ \A i \in 1..Len(todo) : [todo EXCEPT ![1] = c][i] = IF i = 1 THEN c ELSE todo[i]
    BY <2>1, OtherHead, SMTT(30)
  <2> QED
    BY <1>2, <2>2, Zenon
<1>5. /\ Rest(j)[1] = c
      /\ \A i \in 1..Len(todo) : i # 1 => Rest(j)[i] = todo[i]
  BY <1>1, <1>4
<1>6. Fits(Rest(j), state')
  <2> SUFFICES ASSUME NEW i \in 1..Len(todo), Rest(j)[i].op \in {"absorb", "revoke"}
               PROVE  /\ i = 1
                      /\ Rest(j)[i].op = "absorb" =>
                           \A k \in Rest(j)[i].jobs : state'[k] = "Frozen"
                      /\ Rest(j)[i].op = "revoke" =>
                           \A k \in Rest(j)[i].jobs : state'[k] \in {"Frozen", "Blocked", "Ready"}
    BY <1>4 DEF Fits
  <2>1. i = 1
    BY <1>5 DEF Fits
  <2>2. c.jobs \subseteq Jobs \ {j}
    BY <1>1, <1>3 DEF Chores
  <2> QED
    BY <1>1, <1>3, <1>5, <2>1, <2>2 DEF Fits
<1> QED
  BY <1>4, <1>6

\* So a step of a chore has only to show what it does to its job.
LEMMA ChoreKeeps ==
    ASSUME IInv, NEW j \in Jobs, todo # <<>>, Taken(j), UNCHANGED <<plan, edits, crashes>>,
           RecordsTyped', GraphIsRecord', AdmittedOnDoneDeps',
           \A k \in Jobs \ {j} : state'[k] = state[k]
    PROVE  IInv'
<1>1. BoundsTyped'
  BY BoundsKept DEF IInv, TypeOK
<1>2. Rest(j) \in Seq(Chores) /\ Fits(Rest(j), state')
  BY RestFits DEF IInv, TypeOK
<1>3. Continue(Rest(j))
  BY DEF Taken, Rest
<1>4. ActorTyped' /\ Fits(todo', state')
  BY <1>2, <1>3, ContinueFits
<1> QED
  BY <1>1, <1>4 DEF IInv, TypeOK

LEMMA DoingIs ==
    ASSUME IInv, NEW op, NEW j \in Jobs, Doing(op, j)
    PROVE  /\ todo # <<>> /\ todo[1] \in Chores /\ todo[1] = Head(todo) /\ todo[1].op = op
           /\ op = "absorb" => state[j] = "Frozen"
           /\ op = "revoke" => state[j] \in {"Frozen", "Blocked", "Ready"}
<1>1. todo # <<>> /\ todo \in Seq(Chores) /\ Head(todo).op = op /\ j \in Head(todo).jobs
  BY DEF IInv, TypeOK, ActorTyped, Doing
<1>2. Head(todo) = todo[1] /\ Len(todo) >= 1
  BY <1>1
<1> QED
  BY <1>1, <1>2 DEF IInv, Fits

LEMMA AbsorbKeeps ==
    ASSUME IInv, NEW m \in Jobs, Absorb(m)
    PROVE  IInv'
<1>1. todo # <<>> /\ todo[1] \in Chores /\ todo[1] = Head(todo) /\ state[m] = "Frozen"
  BY DoingIs DEF Absorb
<1>2. RecordsTyped'
  BY <1>1 DEF IInv, TypeOK, RecordsTyped, Absorb, JobStates, Exists, Absent, Chores
<1>3. GraphIsRecord' /\ AdmittedOnDoneDeps'
  BY <1>1, OneJob DEF IInv, TypeOK, RecordsTyped, GraphIsRecord, Absorb
<1> QED
  BY <1>1, <1>2, <1>3, ChoreKeeps DEF Absorb, IInv, TypeOK, RecordsTyped

LEMMA UnbatchKeeps ==
    ASSUME IInv, NEW m \in Jobs, Unbatch(m)
    PROVE  IInv'
<1>1. todo # <<>>
  BY DoingIs DEF Unbatch
<1>2. RecordsTyped'
  BY DEF IInv, TypeOK, RecordsTyped, Unbatch, JobStates, Exists, Absent
<1>3. GraphIsRecord' /\ AdmittedOnDoneDeps'
  <2>1. CASE state[m] = "Batched"
    BY <2>1, OneJob DEF IInv, TypeOK, RecordsTyped, GraphIsRecord, Unbatch
  <2>2. CASE state[m] # "Batched"
    BY <2>2 DEF IInv, GraphIsRecord, AdmittedOnDoneDeps, Unbatch
  <2> QED
    BY <2>1, <2>2
<1> QED
  BY <1>1, <1>2, <1>3, ChoreKeeps DEF Unbatch, IInv, TypeOK, RecordsTyped

LEMMA RevokeTargetKeeps ==
    ASSUME IInv, NEW j \in Jobs, RevokeTarget(j)
    PROVE  IInv'
<1>1. todo # <<>> /\ state[j] \in {"Frozen", "Blocked", "Ready"}
  BY DoingIs DEF RevokeTarget
<1>2. RecordsTyped'
  BY <1>1 DEF IInv, TypeOK, RecordsTyped, RevokeTarget, JobStates, Exists, Absent
<1>3. GraphIsRecord' /\ AdmittedOnDoneDeps'
  BY <1>1, OneJob DEF IInv, TypeOK, RecordsTyped, GraphIsRecord, RevokeTarget
<1> QED
  BY <1>1, <1>2, <1>3, ChoreKeeps DEF RevokeTarget, IInv, TypeOK, RecordsTyped

LEMMA FinishMemberKeeps ==
    ASSUME IInv, NEW m \in Jobs, FinishMember(m)
    PROVE  IInv'
<1>1. todo # <<>>
  BY DoingIs DEF FinishMember
<1>2. RecordsTyped'
  BY DEF IInv, TypeOK, RecordsTyped, FinishMember, JobStates, Exists, Absent
<1>3. GraphIsRecord' /\ AdmittedOnDoneDeps'
  BY OneJob DEF IInv, TypeOK, RecordsTyped, GraphIsRecord, FinishMember
<1> QED
  BY <1>1, <1>2, <1>3, ChoreKeeps DEF FinishMember, IInv, TypeOK, RecordsTyped

\* A Blocked job is no Draft, so the graph the check reads is its record.
LEMMA TryUnblockKeeps ==
    ASSUME IInv, NEW j \in Jobs, TryUnblock(j)
    PROVE  IInv'
<1>1. todo # <<>>
  BY DoingIs DEF TryUnblock
<1>2. RecordsTyped'
  BY DEF IInv, TypeOK, RecordsTyped, TryUnblock, JobStates, Exists, Absent
<1>3. GraphIsRecord' /\ AdmittedOnDoneDeps'
  <2>1. CASE state[j] = "Blocked" /\ DepsDone(j, graph[j])
    <3>1. deps[j] = graph[j] /\ \A d \in deps[j] : state[d] = "Done"
      BY <2>1 DEF IInv, GraphIsRecord, DepsDone
    <3> QED
      BY <2>1, <3>1, OneJob DEF IInv, TypeOK, RecordsTyped, TryUnblock
  <2>2. CASE ~(state[j] = "Blocked" /\ DepsDone(j, graph[j]))
    BY <2>2 DEF IInv, GraphIsRecord, AdmittedOnDoneDeps, TryUnblock
  <2> QED
    BY <2>1, <2>2
<1> QED
  BY <1>1, <1>2, <1>3, ChoreKeeps DEF TryUnblock, IInv, TypeOK, RecordsTyped

LEMMA FinishRefusedKeeps ==
    ASSUME IInv, NEW m \in Jobs, FinishRefused(m)
    PROVE  IInv'
<1>1. UNCHANGED <<record, plan, edits, crashes>> /\ Continue(<<>>)
  BY DEF FinishRefused
<1>2. ActorTyped' /\ Fits(todo', state')
  BY <1>1, NoChores, ContinueFits
<1>3. BoundsTyped'
  BY <1>1, BoundsKept DEF IInv, TypeOK
<1> QED
  BY <1>1, <1>2, <1>3 DEF IInv, TypeOK, RecordsTyped, Exists, GraphIsRecord,
       AdmittedOnDoneDeps, record

LEMMA HandlerFailsKeeps ==
    ASSUME IInv, HandlerFails
    PROVE  IInv'
<1>1. UNCHANGED <<record, plan, crashes>> /\ Edit /\ Continue(<<>>)
  BY DEF HandlerFails
<1>2. ActorTyped' /\ Fits(todo', state')
  BY <1>1, NoChores, ContinueFits
<1>3. BoundsTyped'
  BY <1>1, BoundsKept DEF IInv, TypeOK
<1> QED
  BY <1>1, <1>2, <1>3 DEF IInv, TypeOK, RecordsTyped, Exists, GraphIsRecord,
       AdmittedOnDoneDeps, record

-----------------------------------------------------------------------------
(* Scheduling.                                                              *)

\* What a step that changes one state and gives the actor a fitting list keeps.
LEMMA StateKeeps ==
    ASSUME IInv, NEW j \in Jobs, NEW s \in JobStates, state' = [state EXCEPT ![j] = s],
           UNCHANGED <<deps, graph, members, batchId, plan, crashes>>,
           UNCHANGED edits \/ Edit,
           state[j] \in JobStates \ {"Done", "Draft"},
           s \in {"Ready", "Work", "Stalled"} => state[j] \in {"Ready", "Work", "Stalled"},
           NEW chores \in Seq(Chores), Continue(chores), Fits(chores, state')
    PROVE  IInv'
<1>1. BoundsTyped'
  BY BoundsKept DEF IInv, TypeOK
<1>2. RecordsTyped'
  BY DEF IInv, TypeOK, RecordsTyped, JobStates, Exists, Absent
<1>3. deps[j] = graph[j] /\ deps[j] \subseteq Jobs
  BY DEF IInv, TypeOK, RecordsTyped, GraphIsRecord, JobStates
<1>4. state'[j] \in {"Ready", "Work", "Stalled"} => \A d \in deps[j] : state[d] = "Done"
  BY DEF IInv, TypeOK, RecordsTyped, AdmittedOnDoneDeps
<1>5. GraphIsRecord' /\ AdmittedOnDoneDeps'
  BY <1>3, <1>4, OneJob DEF IInv, TypeOK, RecordsTyped
<1>6. ActorTyped' /\ Fits(todo', state')
  BY ContinueFits
<1> QED
  BY <1>1, <1>2, <1>5, <1>6 DEF IInv, TypeOK

LEMMA StartJobKeeps ==
    ASSUME IInv, StartJob
    PROVE  IInv'
<1>1. PICK j : j = Head(queue)
  OBVIOUS
<1>2. CASE j \in Jobs /\ state[j] = "Ready"
  BY <1>1, <1>2, NoChores, StateKeeps DEF StartJob, JobStates
<1>3. CASE ~(j \in Jobs /\ state[j] = "Ready")
  <2>1. state' = state
    BY <1>1, <1>3 DEF StartJob, IInv, TypeOK, RecordsTyped
  <2>2. ActorTyped' /\ Fits(todo', state')
    BY NoChores, ContinueFits DEF StartJob
  <2>3. BoundsTyped'
    BY BoundsKept DEF IInv, TypeOK, StartJob
  <2> QED
    BY <2>1, <2>2, <2>3 DEF StartJob, IInv, TypeOK, RecordsTyped, Exists, GraphIsRecord,
       AdmittedOnDoneDeps
<1> QED
  BY <1>2, <1>3

LEMMA StartFailsKeeps ==
    ASSUME IInv, StartFails
    PROVE  IInv'
<1>1. UNCHANGED <<record, plan, crashes, todo>> /\ Edit /\ pc = "drain" /\ pc' = "idle"
  BY DEF StartFails
<1>2. BoundsTyped'
  BY <1>1, BoundsKept DEF IInv, TypeOK
<1>3. ActorTyped' /\ Fits(todo', state')
  BY <1>1 DEF IInv, TypeOK, ActorTyped, Fits
<1> QED
  BY <1>1, <1>2, <1>3 DEF IInv, TypeOK, RecordsTyped, Exists, GraphIsRecord,
       AdmittedOnDoneDeps, record

LEMMA DrainAgainKeeps ==
    ASSUME IInv, DrainAgain
    PROVE  IInv'
<1>1. UNCHANGED <<record, plan, edits, crashes, todo>> /\ pc = "idle" /\ pc' = "drain"
  BY DEF DrainAgain, Idle
<1>2. BoundsTyped'
  BY <1>1, BoundsKept DEF IInv, TypeOK
<1>3. ActorTyped' /\ Fits(todo', state')
  BY <1>1 DEF IInv, TypeOK, ActorTyped, Fits
<1> QED
  BY <1>1, <1>2, <1>3 DEF IInv, TypeOK, RecordsTyped, Exists, GraphIsRecord,
       AdmittedOnDoneDeps, record

LEMMA CompleteJobKeeps ==
    ASSUME IInv, NEW j \in Jobs, CompleteJob(j)
    PROVE  IInv'
<1>1. PICK js \in SUBSET Jobs : js = UNION {Dependents(d) : d \in members[j] \cup {j}}
  BY DEF Dependents
<1>2. members[j] \in SUBSET Jobs
  BY DEF IInv, TypeOK, RecordsTyped
<1> DEFINE chores == <<Chore("finish", members[j], j), Chore("unblock", js, None)>>
<1>3. chores \in Seq(Chores) /\ Fits(chores, state')
  BY <1>2, TwoChores
<1>4. Continue(chores)
  BY <1>1 DEF CompleteJob
<1> HIDE DEF chores
<1> QED
  BY <1>3, <1>4, StateKeeps DEF CompleteJob, JobStates

LEMMA DeadlineScanKeeps ==
    ASSUME IInv, NEW j \in Jobs, DeadlineScan(j)
    PROVE  IInv'
BY NoChores, StateKeeps DEF DeadlineScan, JobStates

\* The job had passed the check of its dependencies before it stalled.
LEMMA PreworkRetryKeeps ==
    ASSUME IInv, NEW j \in Jobs, PreworkRetry(j)
    PROVE  IInv'
BY NoChores, StateKeeps DEF PreworkRetry, JobStates

LEMMA CrashKeeps ==
    ASSUME IInv, Crash
    PROVE  IInv'
<1>1. BoundsTyped'
  BY PlanTyped DEF IInv, TypeOK, BoundsTyped, Crash
<1>2. RecordsTyped' /\ GraphIsRecord' /\ AdmittedOnDoneDeps'
  BY DEF IInv, TypeOK, RecordsTyped, Exists, GraphIsRecord, AdmittedOnDoneDeps, Crash
<1>3. ActorTyped' /\ Fits(todo', state')
  <2> DEFINE js == {j \in Jobs : state[j] = "Blocked"}
  <2>1. <<Chore("unblock", js, None)>> \in Seq(Chores)
        /\ Fits(<<Chore("unblock", js, None)>>, state')
    BY OneChore
  <2>2. Continue(<<Chore("unblock", js, None)>>)
    BY DEF Crash
  <2> HIDE DEF js
  <2> QED
    BY <2>1, <2>2, ContinueFits
<1> QED
  BY <1>1, <1>2, <1>3 DEF IInv, TypeOK

-----------------------------------------------------------------------------
(* The theorems.                                                            *)

LEMMA InitHolds == Init => IInv
<1> SUFFICES ASSUME Init PROVE IInv
  OBVIOUS
<1>1. RecordsTyped
  BY DEF Init, RecordsTyped, Exists, Absent
<1>2. ActorTyped /\ Fits(todo, state)
  BY DEF Init, ActorTyped, Fits
<1>3. BoundsTyped
  BY PlanTyped DEF Init, BoundsTyped
<1>4. GraphIsRecord /\ AdmittedOnDoneDeps
  BY DEF Init, GraphIsRecord, AdmittedOnDoneDeps, Absent
<1> QED
  BY <1>1, <1>2, <1>3, <1>4 DEF IInv, TypeOK

LEMMA AuthoringHolds == ASSUME IInv, NEW j \in Jobs, Authoring(j) PROVE IInv'
BY CreateJobKeeps, UpdateJobKeeps, EditLabelsKeeps, DraftJobKeeps, FinalizeJobKeeps,
   ReleaseJobKeeps, RefuseReleaseKeeps, RevokeKeeps DEF Authoring

LEMMA ChoreHolds == ASSUME IInv, ChoreStep PROVE IInv'
BY AbsorbKeeps, UnbatchKeeps, RevokeTargetKeeps, FinishMemberKeeps, FinishRefusedKeeps,
   TryUnblockKeeps DEF ChoreStep

LEMMA NextHolds == IInv /\ [Next]_vars => IInv'
<1> SUFFICES ASSUME IInv, [Next]_vars PROVE IInv'
  OBVIOUS
<1>1. ASSUME NEW j \in Jobs, Authoring(j) PROVE IInv'
  BY <1>1, AuthoringHolds
<1>2. ASSUME NEW j \in Jobs, CompleteJob(j) \/ DeadlineScan(j) \/ PreworkRetry(j) PROVE IInv'
  BY <1>2, CompleteJobKeeps, DeadlineScanKeeps, PreworkRetryKeeps
<1>3. ASSUME NEW b \in Batches, BatchAuthoring(b) PROVE IInv'
  BY <1>3, CreateBatchKeeps, EditMembersKeeps DEF BatchAuthoring
<1>4. CASE ChoreStep \/ HandlerFails
  BY <1>4, ChoreHolds, HandlerFailsKeeps
<1>5. CASE Scheduling
  BY <1>5, StartJobKeeps, StartFailsKeeps, DrainAgainKeeps DEF Scheduling
<1>6. CASE Crash
  BY <1>6, CrashKeeps
<1>7. CASE UNCHANGED vars
  BY <1>7 DEF vars, record, IInv, TypeOK, RecordsTyped, ActorTyped, BoundsTyped, Exists,
     GraphIsRecord, AdmittedOnDoneDeps, Fits
<1> QED
  BY <1>1, <1>2, <1>3, <1>4, <1>5, <1>6, <1>7 DEF Next

\* Every variable but the queue keeps its type, whatever the authors do and
\* whenever a handler fails or the process dies.
THEOREM TypeCorrect == Spec => []TypeOK
<1>1. IInv => TypeOK
  BY DEF IInv
<1> QED
  BY InitHolds, NextHolds, <1>1, PTL DEF Spec

\* A job that is admitted to work, or stalled on the way in, has every dependency
\* of its record Done: for every graph, batch, edit, fault and restart.
THEOREM AdmitsOnDone == Spec => []AdmittedOnDoneDeps
<1>1. IInv => AdmittedOnDoneDeps
  BY DEF IInv
<1> QED
  BY InitHolds, NextHolds, <1>1, PTL DEF Spec

\* The in-memory graph and the records agree on every job but a Draft.
THEOREM GraphAgrees == Spec => []GraphIsRecord
<1>1. IInv => GraphIsRecord
  BY DEF IInv
<1> QED
  BY InitHolds, NextHolds, <1>1, PTL DEF Spec-----------------------------------------------------------------------------
(* The ready queue.                                                         *)

Distinct(q) == \A i, k \in DOMAIN q : q[i] = q[k] => i = k

\* The entries of the queue are Ready, each once, and at every step, not only when
\* a drain has ended, no Ready job is missing, unless a start or a write may fail.
QueueInv ==
  /\ queue \in Seq(Jobs) /\ Distinct(queue)
  /\ \A i \in 1..Len(queue) : state[queue[i]] = "Ready"
  /\ Faults \cap {"start", "write"} = {} =>
       \A j \in Jobs : state[j] = "Ready" => Contains(queue, j)

LEMMA RetainIs ==
  ASSUME NEW q \in Seq(Jobs), Distinct(q), NEW S
  PROVE  /\ Retain(q, S) \in Seq(Jobs) /\ Distinct(Retain(q, S))
         /\ \A k \in Jobs : Contains(Retain(q, S), k) <=> Contains(q, k) /\ k \in S
<1> DEFINE r == Retain(q, S)
           nth(k) == Nth(Where(q, S), k)
<1>1. /\ r \in Seq(Jobs) /\ Len(r) <= Len(q)
      /\ \A k \in 1..Len(r) : nth(k) \in 1..Len(q) /\ r[k] = q[nth(k)] /\ r[k] \in S
      /\ \A k, l \in 1..Len(r) : k < l => nth(k) < nth(l)
      /\ \A i \in 1..Len(q) : q[i] \in S => \E k \in 1..Len(r) : nth(k) = i
  BY RetainProperties
<1> HIDE DEF r, nth
<1>2. Len(r) \in Nat /\ Len(q) \in Nat
  BY <1>1
<1>3. \A k, l \in 1..Len(r) : r[k] = r[l] => k = l
  <2> SUFFICES ASSUME NEW k \in 1..Len(r), NEW l \in 1..Len(r), r[k] = r[l]
               PROVE  k = l
    OBVIOUS
  <2>1. nth(k) = nth(l)
    BY <1>1 DEF Distinct
  <2>2. nth(k) \in Int /\ nth(l) \in Int
    BY <1>1
  <2> QED
    BY <1>1, <1>2, <2>1, <2>2
<1>4. \A k \in Jobs : Contains(r, k) <=> Contains(q, k) /\ k \in S
  BY <1>1, <1>2 DEF Contains
<1> QED
  BY <1>1, <1>3, <1>4 DEF Distinct, r

LEMMA WithoutIs ==
  ASSUME NEW q \in Seq(Jobs), Distinct(q), NEW j \in Jobs
  PROVE  /\ Without(q, j) \in Seq(Jobs) /\ Distinct(Without(q, j))
         /\ \A k \in Jobs : Contains(Without(q, j), k) <=> Contains(q, k) /\ k # j
  BY RetainIs DEF Without

LEMMA AppendIs ==
  ASSUME NEW q \in Seq(Jobs), Distinct(q), NEW j \in Jobs, ~Contains(q, j)
  PROVE  /\ Enqueue(q, j) \in Seq(Jobs) /\ Distinct(Enqueue(q, j))
         /\ \A k \in Jobs : Contains(Enqueue(q, j), k) <=> Contains(q, k) \/ k = j
<1>1. /\ Enqueue(q, j) = Append(q, j) /\ Len(q) \in Nat
      /\ Len(Append(q, j)) = Len(q) + 1 /\ Append(q, j) \in Seq(Jobs)
      /\ \A i \in 1..Len(q) : Append(q, j)[i] = q[i]
      /\ Append(q, j)[Len(q) + 1] = j
  BY DEF Enqueue
<1> QED
  BY <1>1 DEF Contains, Distinct

LEMMA TailIs ==
  ASSUME NEW q \in Seq(Jobs), Distinct(q), q # <<>>
  PROVE  /\ Head(q) \in Jobs /\ Tail(q) \in Seq(Jobs) /\ Distinct(Tail(q))
         /\ \A k \in Jobs : Contains(Tail(q), k) <=> Contains(q, k) /\ k # Head(q)
<1>1. /\ Len(q) \in Nat \ {0} /\ Head(q) = q[1] /\ Tail(q) \in Seq(Jobs)
      /\ Len(Tail(q)) = Len(q) - 1
      /\ \A i \in 1..Len(q) - 1 : Tail(q)[i] = q[i + 1]
      /\ \A i \in 1..Len(q) : q[i] \in Jobs
  OBVIOUS
<1>2. Distinct(Tail(q))
  BY <1>1 DEF Distinct
<1>3. ASSUME NEW i \in 1..Len(q), q[i] # Head(q)
      PROVE  i - 1 \in 1..Len(Tail(q)) /\ Tail(q)[i - 1] = q[i]
  <2>1. i # 1 /\ i - 1 \in 1..Len(q) - 1 /\ (i - 1) + 1 = i
    BY <1>1, <1>3
  <2> QED
    BY <1>1, <2>1
<1>4. ASSUME NEW i \in 1..Len(Tail(q))
      PROVE  Tail(q)[i] = q[i + 1] /\ i + 1 \in 1..Len(q) /\ Tail(q)[i] # Head(q)
  BY <1>1 DEF Distinct
<1>5. \A k \in Jobs : Contains(Tail(q), k) <=> Contains(q, k) /\ k # Head(q)
  BY <1>3, <1>4 DEF Contains
<1> QED
  BY <1>1, <1>2, <1>5

LEMMA SetToSeqIs ==
  ASSUME NEW S \in SUBSET Jobs
  PROVE  /\ SetToSeq(S) \in Seq(Jobs) /\ Distinct(SetToSeq(S))
         /\ \A k \in Jobs : Contains(SetToSeq(S), k) <=> k \in S
<1> DEFINE n == Cardinality(S)
<1>1. IsFiniteSet(S)
  BY JobsAssumption, FS_Subset
<1>2. n \in Nat /\ ExistsBijection(1..n, S)
  BY <1>1, FS_CardinalityType
<1>3. PICK g : g \in Bijection(1..n, S)
  BY <1>2 DEF ExistsBijection
<1>4. \E f \in [1..n -> S] : IsInjective(f)
  BY <1>3 DEF Bijection, Injection
<1>5. SetToSeq(S) \in [1..n -> S] /\ IsInjective(SetToSeq(S))
  BY <1>4 DEF SetToSeq
<1> DEFINE f == SetToSeq(S)
<1> HIDE DEF n
<1>6. f \in Seq(S) /\ Len(f) = n /\ \A i, k \in 1..n : f[i] = f[k] => i = k
  BY <1>2, <1>5 DEF IsInjective
<1>7. \A s \in S : \E i \in 1..n : f[i] = s
  <2>1. f \in Injection(1..n, S)
    BY <1>5 DEF Injection, IsInjective
  <2>2. IsFiniteSet(1..n) /\ Cardinality(1..n) = n
    BY <1>2, FS_Interval
  <2>3. f \in Surjection(1..n, S)
    BY <1>1, <2>1, <2>2, FS_Injection, FS_Surjection DEF n
  <2> QED
    BY <2>3 DEF Surjection
<1> QED
  BY <1>6, <1>7 DEF Contains, Distinct

\* A step of one job and the queue.
LEMMA QueueSame ==
  ASSUME RecordsTyped, QueueInv, UNCHANGED <<plan, queue>>,
         \A k \in Jobs : state'[k] = state[k] \/ (state[k] # "Ready" /\ state'[k] # "Ready")
  PROVE  QueueInv'
<1>1. \A i \in 1..Len(queue) : queue[i] \in Jobs
  BY DEF QueueInv
<1>2. Faults' = Faults
  BY DEF Faults
<1> QED
  BY <1>1, <1>2 DEF QueueInv

LEMMA QueueJoined ==
  ASSUME RecordsTyped, QueueInv, UNCHANGED plan, NEW j \in Jobs,
         state[j] # "Ready", state'[j] = "Ready", queue' = Enqueue(queue, j),
         \A k \in Jobs \ {j} : state'[k] = state[k]
  PROVE  QueueInv'
<1>1. ~Contains(queue, j)
  BY DEF QueueInv, Contains
<1>2. /\ queue' \in Seq(Jobs) /\ Distinct(queue')
      /\ \A k \in Jobs : Contains(queue', k) <=> Contains(queue, k) \/ k = j
  BY <1>1, AppendIs DEF QueueInv
<1>3. Faults' = Faults
  BY DEF Faults
<1>4. ASSUME NEW i \in 1..Len(queue')
      PROVE  state'[queue'[i]] = "Ready"
  <2>1. queue'[i] \in Jobs /\ Contains(queue', queue'[i])
    BY <1>2 DEF Contains
  <2>2. queue'[i] = j \/ Contains(queue, queue'[i])
    BY <1>2, <2>1
  <2> QED
    BY <2>1, <2>2 DEF QueueInv, Contains
<1>5. ASSUME Faults \cap {"start", "write"} = {}, NEW k \in Jobs, state'[k] = "Ready"
      PROVE  Contains(queue', k)
  BY <1>2, <1>5 DEF QueueInv
<1> QED
  BY <1>2, <1>3, <1>4, <1>5 DEF QueueInv

LEMMA QueueLeft ==
  ASSUME RecordsTyped, QueueInv, UNCHANGED plan, NEW j \in Jobs, state'[j] # "Ready",
         queue' \in Seq(Jobs), Distinct(queue'),
         \A k \in Jobs : Contains(queue', k) <=> Contains(queue, k) /\ k # j,
         \A k \in Jobs \ {j} : state'[k] = state[k]
  PROVE  QueueInv'
<1>1. Faults' = Faults
  BY DEF Faults
<1>2. ASSUME NEW i \in 1..Len(queue')
      PROVE  state'[queue'[i]] = "Ready"
  <2>1. queue'[i] \in Jobs /\ Contains(queue', queue'[i])
    BY DEF Contains
  <2>2. queue'[i] # j /\ Contains(queue, queue'[i])
    BY <2>1
  <2> QED
    BY <2>1, <2>2 DEF QueueInv, Contains
<1>3. ASSUME Faults \cap {"start", "write"} = {}, NEW k \in Jobs, state'[k] = "Ready"
      PROVE  Contains(queue', k)
  BY <1>3 DEF QueueInv
<1> QED
  BY <1>1, <1>2, <1>3 DEF QueueInv

\* Taken out of the queue, wherever it is.
LEMMA QueueWithout ==
  ASSUME RecordsTyped, QueueInv, UNCHANGED plan, NEW j \in Jobs, state'[j] # "Ready",
         queue' = Without(queue, j), \A k \in Jobs \ {j} : state'[k] = state[k]
  PROVE  QueueInv'
BY QueueLeft, WithoutIs DEF QueueInv

LEMMA AuthoringQueue ==
  ASSUME IInv, QueueInv, NEW j \in Jobs, Authoring(j)
  PROVE  QueueInv'
<1>1. CASE CreateJob(j) \/ UpdateJob(j) \/ EditLabels(j) \/ DraftJob(j) \/ RefuseRelease(j)
  BY <1>1, QueueSame DEF IInv, TypeOK, RecordsTyped, CreateJob, UpdateJob, EditLabels,
     DraftJob, RefuseRelease, Planned, Exists, Absent
<1>2. CASE FinalizeJob(j)
  BY <1>2, QueueSame DEF IInv, TypeOK, RecordsTyped, FinalizeJob
<1>3. CASE ReleaseJob(j)
  <2>1. /\ state[j] \in {"Draft", "Frozen"} /\ UNCHANGED plan
        /\ \A k \in Jobs \ {j} : state'[k] = state[k]
    BY <1>3 DEF ReleaseJob, ReleaseOpen, IInv, TypeOK, RecordsTyped
  <2>2. \/ state'[j] = "Ready" /\ queue' = Enqueue(queue, j)
        \/ state'[j] = "Blocked" /\ queue' = queue
    BY <1>3 DEF ReleaseJob, IInv, TypeOK, RecordsTyped
  <2> QED
    BY <2>1, <2>2, QueueSame, QueueJoined DEF IInv, TypeOK
<1>4. CASE Revoke(j)
  BY <1>4, QueueWithout DEF IInv, TypeOK, RecordsTyped, Revoke
<1> QED
  BY <1>1, <1>2, <1>3, <1>4 DEF Authoring

LEMMA BatchQueue ==
  ASSUME IInv, QueueInv, NEW b \in Batches, BatchAuthoring(b)
  PROVE  QueueInv'
<1>1. CASE CreateBatch(b)
  BY <1>1, QueueSame, JobsAssumption
  DEF IInv, TypeOK, RecordsTyped, CreateBatch, Planned, Exists, Absent
<1>2. CASE EditMembers(b)
  BY <1>2, QueueSame DEF IInv, TypeOK, RecordsTyped, EditMembers
<1> QED
  BY <1>1, <1>2 DEF BatchAuthoring

LEMMA ChoreQueue ==
  ASSUME IInv, QueueInv, NEW j \in Jobs,
         Absorb(j) \/ Unbatch(j) \/ RevokeTarget(j) \/ FinishMember(j)
         \/ FinishRefused(j) \/ TryUnblock(j)
  PROVE  QueueInv'
<1>1. CASE Absorb(j)
  BY <1>1, DoingIs, QueueSame DEF IInv, TypeOK, RecordsTyped, Absorb
<1>2. CASE Unbatch(j) \/ FinishMember(j) \/ FinishRefused(j)
  BY <1>2, QueueSame DEF IInv, TypeOK, RecordsTyped, Unbatch, FinishMember, FinishRefused,
     record
<1>3. CASE RevokeTarget(j)
  BY <1>3, QueueWithout DEF IInv, TypeOK, RecordsTyped, RevokeTarget
<1>4. CASE TryUnblock(j)
  <2>1. /\ UNCHANGED plan /\ \A k \in Jobs \ {j} : state'[k] = state[k]
        /\ \/ state[j] = "Blocked" /\ state'[j] = "Ready" /\ queue' = Enqueue(queue, j)
           \/ state[j] = "Blocked" /\ state'[j] = "Stalled" /\ queue' = queue
           \/ state' = state /\ queue' = queue
    BY <1>4 DEF IInv, TypeOK, RecordsTyped, TryUnblock
  <2> QED
    BY <2>1, QueueSame, QueueJoined DEF IInv, TypeOK
<1> QED
  BY <1>1, <1>2, <1>3, <1>4

LEMMA SchedulingQueue ==
  ASSUME IInv, QueueInv,
         \/ Scheduling \/ HandlerFails \/ Crash \/ UNCHANGED vars
         \/ \E j \in Jobs : CompleteJob(j) \/ DeadlineScan(j) \/ PreworkRetry(j)
  PROVE  QueueInv'
<1>1. CASE StartJob
  <2>1. /\ queue \in Seq(Jobs) /\ Distinct(queue) /\ queue # <<>> /\ queue' = Tail(queue)
        /\ UNCHANGED plan
    BY <1>1 DEF QueueInv, StartJob
  <2>2. /\ Head(queue) \in Jobs /\ queue' \in Seq(Jobs) /\ Distinct(queue')
        /\ \A k \in Jobs : Contains(queue', k) <=> Contains(queue, k) /\ k # Head(queue)
    BY <2>1, TailIs
  <2>3. /\ state'[Head(queue)] # "Ready"
        /\ \A k \in Jobs \ {Head(queue)} : state'[k] = state[k]
    BY <1>1, <2>2 DEF IInv, TypeOK, RecordsTyped, StartJob
  <2> QED
    BY <2>1, <2>2, <2>3, QueueLeft DEF IInv, TypeOK
<1>2. CASE StartFails
  <2>1. /\ queue \in Seq(Jobs) /\ Distinct(queue) /\ queue # <<>> /\ queue' = Tail(queue)
        /\ "start" \in Faults /\ UNCHANGED <<plan, state>>
    BY <1>2 DEF QueueInv, StartFails, record
  <2>2. /\ Head(queue) \in Jobs /\ queue' \in Seq(Jobs) /\ Distinct(queue')
        /\ \A k \in Jobs : Contains(queue', k) <=> Contains(queue, k) /\ k # Head(queue)
    BY <2>1, TailIs
  <2>3. ASSUME NEW i \in 1..Len(queue')
        PROVE  state[queue'[i]] = "Ready"
    <3>1. queue'[i] \in Jobs /\ Contains(queue', queue'[i])
      BY <2>2 DEF Contains
    <3>2. Contains(queue, queue'[i])
      BY <2>2, <3>1
    <3> QED
      BY <3>2 DEF QueueInv, Contains
  <2> QED
    BY <2>1, <2>2, <2>3 DEF QueueInv, Faults
<1>3. CASE Crash
  <2>1. /\ queue' = SetToSeq({j \in Jobs : state[j] = "Ready"}) /\ UNCHANGED <<plan, state>>
    BY <1>3 DEF Crash
  <2>2. /\ queue' \in Seq(Jobs) /\ Distinct(queue')
        /\ \A k \in Jobs : Contains(queue', k) <=> state[k] = "Ready"
    BY <2>1, SetToSeqIs
  <2>3. ASSUME NEW i \in 1..Len(queue')
        PROVE  state[queue'[i]] = "Ready"
    BY <2>2 DEF Contains
  <2> QED
    BY <2>1, <2>2, <2>3 DEF QueueInv
<1>4. CASE DrainAgain \/ HandlerFails \/ UNCHANGED vars
  BY <1>4, QueueSame DEF IInv, TypeOK, DrainAgain, HandlerFails, vars, record
<1>5. ASSUME NEW j \in Jobs, CompleteJob(j) \/ DeadlineScan(j) \/ PreworkRetry(j)
      PROVE  QueueInv'
  <2>1. /\ UNCHANGED plan /\ \A k \in Jobs \ {j} : state'[k] = state[k]
        /\ \/ state[j] = "Work" /\ state'[j] = "Done" /\ queue' = queue
           \/ state'[j] = "Stalled" /\ queue' = Without(queue, j)
           \/ state[j] = "Stalled" /\ state'[j] = "Ready" /\ queue' = Enqueue(queue, j)
    BY <1>5 DEF IInv, TypeOK, RecordsTyped, CompleteJob, DeadlineScan, PreworkRetry
  <2> QED
    BY <2>1, QueueSame, QueueWithout, QueueJoined DEF IInv, TypeOK
<1> QED
  BY <1>1, <1>2, <1>3, <1>4, <1>5 DEF Scheduling

LEMMA NextQueues == IInv /\ QueueInv /\ [Next]_vars => QueueInv'
BY AuthoringQueue, BatchQueue, ChoreQueue, SchedulingQueue DEF Next, ChoreStep

LEMMA InitQueues == Init => QueueInv
BY DEF Init, QueueInv, Distinct, Absent

\* The ready queue holds Ready jobs only, each once, and unless a start or a write
\* fails every one of them: no edit, cascade, deadline, retry or restart leaves a
\* Ready job for no drain to find.
THEOREM QueueHoldsReady == Spec => []QueueIsTrue
<1>1. QueueInv => QueueIsTrue
  BY DEF QueueInv, Distinct, QueueIsTrue, QueueIsReady, ReadyIsQueued
<1> QED
  BY <1>1, InitHolds, NextHolds, InitQueues, NextQueues, PTL DEF Spec
-----------------------------------------------------------------------------
(* The members of batches.                                                  *)

\* Plans in which no step of a handler that deals with a batch is cut short, and
\* no operator takes a batch or a member apart by hand.
NoBatches == plan.jobs \cap Batches = {}
Disruptions == {"write", "overlap", "cascadeBatch", "revokeMember"}
Orderly == \A p \in Plans : p.jobs \cap Batches = {} \/ p.faults \cap Disruptions = {}

\* A list of chores has m of batch b in it.
Within(chores, op, b, m) ==
    \E i \in 1..Len(chores) : chores[i].op = op /\ chores[i].batch = b /\ m \in chores[i].jobs
Pending(op, b, m) == Within(todo, op, b, m)

\* A cascade takes no batch along, and a batch completes its members first.
Owned(chores, ms) ==
    \A i \in 1..Len(chores) :
      /\ chores[i].op = "finish" => i = 1
      /\ chores[i].op = "revoke" => \A j \in chores[i].jobs : ms[j] = {}
      /\ chores[i].op \in {"absorb", "unbatch", "finish"} => chores[i].batch \in Jobs

Holds(b, m) == state[m] = "Batched" /\ batchId[m] = b

\* Only batches have members, which are no batches, and two that are not over
\* share none.
MembersApart ==
    /\ \A b \in Jobs : members[b] # {} => b \in Batches /\ Exists(b)
    /\ \A b \in Jobs : members[b] \cap Batches = {}
    /\ \A b, c \in Jobs : b # c /\ state[b] \notin Terminal /\ state[c] \notin Terminal
          => members[b] \cap members[c] = {}

\* What is between a batch and a job at any step.
BatchHolds == \A b, m \in Jobs :
    /\ Committed(b) /\ m \in members[b] => Pending("absorb", b, m) \/ Holds(b, m)
    /\ Holds(b, m) => /\ m \in members[b]
                      /\ Committed(b) \/ Pending("unbatch", b, m) \/ Pending("finish", b, m)
    /\ Pending("absorb", b, m) => Committed(b) /\ m \in members[b]
    /\ Pending("finish", b, m) => state[b] = "Done" /\ Holds(b, m)
    /\ Pending("unbatch", b, m) =>
         /\ m \in members[b] /\ state[b] \in {"Draft", "Revoked"}
         /\ state[m] = "Batched" => batchId[m] = b
         /\ \A c \in Jobs : Committed(c) => m \notin members[c]

BatchedIsHeld == \A m \in Jobs : state[m] = "Batched" => batchId[m] # None

\* A batch has the dependencies its members have outside it.
BatchNeeds == \A b \in Jobs : Committed(b) =>
    \A m \in members[b] : deps[m] \subseteq deps[b] \cup members[b]

HoldInv ==
    Owned(todo, members) /\ MembersApart /\ BatchHolds /\ BatchedIsHeld /\ BatchNeeds
Whole == crashes = 0 \/ NoBatches
LEMMA SpentAreEmpty ==
    ASSUME NEW chores \in Seq(Chores)
    PROVE  Spent(chores) \in Nat /\ \A i \in 1..Len(chores) : i <= Spent(chores) => chores[i].jobs = {}
<1> DEFINE spent == {i \in 1..Len(chores) : \A k \in 1..i : chores[k].jobs = {}}
<1>1. IsFiniteSet(spent) /\ Cardinality(spent) \in Nat
  <2>1. IsFiniteSet(1..Len(chores))
    BY FS_Interval
  <2> QED
    BY <2>1, FS_Subset, FS_CardinalityType
<1>2. ASSUME NEW i \in 1..Len(chores), i \notin spent
      PROVE  Cardinality(spent) < i
  <2>1. spent \subseteq 1..i - 1
    <3> SUFFICES ASSUME NEW k \in spent, ~(k <= i - 1)
                 PROVE  FALSE
      OBVIOUS
    <3>1. k \in Int /\ i \in Int /\ i <= k
      OBVIOUS
    <3>2. \A l \in 1..i : l \in 1..k
      BY <3>1
    <3> QED
      BY <3>2, <1>2
  <2>2. IsFiniteSet(1..i - 1) /\ Cardinality(1..i - 1) = i - 1
    <3>1. 1 \in Int /\ i - 1 \in Int /\ 1 <= i - 1 + 1
      OBVIOUS
    <3>2. Cardinality(1..i - 1) = IF 1 > i - 1 THEN 0 ELSE i - 1 - 1 + 1
      BY <3>1, FS_Interval
    <3> QED
      BY <3>1, <3>2, FS_Interval
  <2>3. Cardinality(spent) <= i - 1
    BY <2>1, <2>2, FS_Subset
  <2> HIDE DEF spent
  <2> QED
    BY <1>1, <2>3
<1>3. Spent(chores) = Cardinality(spent)
  BY DEF Spent
<1>4. \A i \in spent : chores[i].jobs = {}
  OBVIOUS
<1> HIDE DEF spent
<1> QED
  BY <1>1, <1>2, <1>3, <1>4

\* A handler that goes on has the jobs of its list before it, and no others.
LEMMA ContinueHas ==
    ASSUME NEW chores \in Seq(Chores), Continue(chores), NEW op, NEW b, NEW m
    PROVE  Pending(op, b, m)' <=> Within(chores, op, b, m)
<1>1. PICK n \in Nat : n = Spent(chores)
  BY SpentAreEmpty
<1>2. todo' = SubSeq(chores, n + 1, Len(chores))
  BY <1>1 DEF Continue
<1>3. Len(chores) \in Nat /\ \A i \in 1..Len(chores) : chores[i] \in Chores
  OBVIOUS
<1>4. \A i \in n + 1..Len(chores) : chores[i] \in Chores
  BY <1>3
<1>5. /\ Len(todo') = IF n < Len(chores) THEN Len(chores) - n ELSE 0
      /\ \A i \in 1..Len(todo') : todo'[i] = chores[n + i]
  BY <1>2, <1>3, <1>4, SubSeqProperties
<1>6. Within(todo', op, b, m) => Within(chores, op, b, m)
  <2> SUFFICES ASSUME NEW i \in 1..Len(todo'), todo'[i].op = op, todo'[i].batch = b, m \in todo'[i].jobs
               PROVE  Within(chores, op, b, m)
    BY DEF Within
  <2>1. n + i \in 1..Len(chores) /\ todo'[i] = chores[n + i]
    BY <1>5, <1>3
  <2> QED
    BY <2>1 DEF Within
<1>7. Within(chores, op, b, m) => Within(todo', op, b, m)
  <2> SUFFICES ASSUME NEW i \in 1..Len(chores), chores[i].op = op, chores[i].batch = b, m \in chores[i].jobs
               PROVE  Within(todo', op, b, m)
    BY DEF Within
  <2>1. ~(i <= n)
    BY <1>1, SpentAreEmpty
  <2>2. i - n \in 1..Len(todo') /\ n + (i - n) = i
    BY <1>3, <1>5, <2>1
  <2>3. todo'[i - n] = chores[i]
    BY <1>5, <2>2
  <2> QED
    BY <2>2, <2>3 DEF Within
<1> QED
  BY <1>6, <1>7 DEF Pending, Within

LEMMA ContinueOwned ==
    ASSUME NEW chores \in Seq(Chores), Continue(chores), NEW ms, Owned(chores, ms)
    PROVE  Owned(todo', ms)
<1>1. PICK n \in Nat : /\ Len(todo') = IF n < Len(chores) THEN Len(chores) - n ELSE 0
                       /\ \A i \in 1..Len(todo') : todo'[i] = chores[n + i]
  BY ContinueIsSuffix
<1>2. ASSUME NEW i \in 1..Len(todo')
      PROVE  n + i \in 1..Len(chores) /\ (n + i = 1 => i = 1)
  BY <1>1
<1> QED
  BY <1>1, <1>2 DEF Owned

\* The lists handlers begin with.
LEMMA ListOfOne ==
    ASSUME NEW op, NEW js, NEW b, Continue(<<Chore(op, js, b)>>),
           <<Chore(op, js, b)>> \in Seq(Chores), op \notin {"revoke", "finish"}, b \in Jobs \/ op = "unblock", NEW ms
    PROVE  /\ Owned(todo', ms)
           /\ \A o, c, m : Pending(o, c, m)' <=> o = op /\ c = b /\ m \in js
<1> DEFINE list == <<Chore(op, js, b)>>
<1>1. Len(list) = 1 /\ list[1].op = op /\ list[1].batch = b /\ list[1].jobs = js
  BY DEF Chore
<1>2. \A o, c, m : Within(list, o, c, m) <=> o = op /\ c = b /\ m \in js
  BY <1>1 DEF Within
<1>3. Owned(list, ms)
  BY <1>1 DEF Owned
<1> HIDE DEF list
<1>4. list \in Seq(Chores) /\ Continue(list)
  BY DEF list
<1>5. \A o, c, m : Pending(o, c, m)' <=> Within(list, o, c, m)
  BY <1>4, ContinueHas
<1> QED
  BY <1>2, <1>3, <1>4, <1>5, ContinueOwned

LEMMA ListOfTwo ==
    ASSUME NEW op1, NEW js1, NEW b1, NEW op2, NEW js2, NEW b2, NEW ms,
           Continue(<<Chore(op1, js1, b1), Chore(op2, js2, b2)>>),
           <<Chore(op1, js1, b1), Chore(op2, js2, b2)>> \in Seq(Chores),
           (op1 = "revoke" /\ \A j \in js1 : ms[j] = {}) \/ (op1 = "finish" /\ b1 \in Jobs),
           op2 = "unblock" \/ (op2 = "unbatch" /\ b2 \in Jobs)
    PROVE  /\ Owned(todo', ms)
           /\ \A o, c, m : Pending(o, c, m)' <=> \/ o = op1 /\ c = b1 /\ m \in js1
                                                 \/ o = op2 /\ c = b2 /\ m \in js2
<1> DEFINE list == <<Chore(op1, js1, b1), Chore(op2, js2, b2)>>
<1>1. /\ Len(list) = 2
      /\ list[1].op = op1 /\ list[1].batch = b1 /\ list[1].jobs = js1
      /\ list[2].op = op2 /\ list[2].batch = b2 /\ list[2].jobs = js2
  BY DEF Chore
<1>2. \A o, c, m : Within(list, o, c, m) <=> \/ o = op1 /\ c = b1 /\ m \in js1
                                             \/ o = op2 /\ c = b2 /\ m \in js2
  BY <1>1 DEF Within
<1>3. Owned(list, ms)
  BY <1>1 DEF Owned
<1> HIDE DEF list
<1>4. list \in Seq(Chores) /\ Continue(list)
  BY DEF list
<1>5. \A o, c, m : Pending(o, c, m)' <=> Within(list, o, c, m)
  BY <1>4, ContinueHas
<1> QED
  BY <1>2, <1>3, <1>4, <1>5, ContinueOwned

LEMMA NothingLeft ==
    ASSUME todo = <<>>, NEW ms
    PROVE  Owned(todo, ms) /\ \A o, c, m : ~Pending(o, c, m)
BY DEF Owned, Pending, Within

LEMMA NothingToDo ==
    ASSUME Continue(<<>>), NEW ms
    PROVE  Owned(todo', ms) /\ \A o, c, m : ~Pending(o, c, m)'
<1>1. <<>> \in Seq(Chores) /\ Owned(<<>>, ms)
  BY DEF Owned
<1>2. \A o, c, m : ~Within(<<>>, o, c, m)
  BY DEF Within
<1> QED
  BY <1>1, <1>2, ContinueOwned, ContinueHas

\* A job taken off the first chore.
LEMMA TakenHas ==
    ASSUME ActorTyped, NEW j \in Jobs, NEW op, Doing(op, j), Taken(j), NEW ms, Owned(todo, ms)
    PROVE  /\ Owned(todo', ms)
           /\ Pending(op, Head(todo).batch, j)
           /\ \A o, c, m : /\ Pending(o, c, m)' => Pending(o, c, m)
                           /\ Pending(o, c, m) /\ ~(o = op /\ c = Head(todo).batch /\ m = j)
                                 => Pending(o, c, m)'
           /\ op = "finish" => \A c, m : Pending("finish", c, m)' => m # j
<1> DEFINE list == [todo EXCEPT ![1].jobs = @ \ {j}]
<1>1. todo \in Seq(Chores) /\ Len(todo) \in Nat /\ 1 \in 1..Len(todo) /\ Head(todo) = todo[1]
  BY DEF ActorTyped, Doing
<1>2. todo[1] \in Chores /\ todo[1].op = op /\ j \in todo[1].jobs
  BY <1>1 DEF Doing
<1>3. /\ list \in Seq(Chores) /\ Len(list) = Len(todo)
      /\ list[1].op = op /\ list[1].batch = todo[1].batch /\ list[1].jobs = todo[1].jobs \ {j}
      /\ \A i \in 1..Len(todo) : i # 1 => list[i] = todo[i]
  <2>1. [todo[1] EXCEPT !.jobs = @ \ {j}] \in Chores
    BY <1>2 DEF Chores
  <2>2. list = [todo EXCEPT ![1] = [todo[1] EXCEPT !.jobs = @ \ {j}]]
    OBVIOUS
  <2> QED
    BY <1>1, <1>2, <2>1, <2>2 DEF Chores
<1> HIDE DEF list
<1>4. Continue(list)
  BY DEF Taken, list
<1>5. \A o, c, m : Pending(o, c, m)' <=> Within(list, o, c, m)
  BY <1>3, <1>4, ContinueHas
<1>6. Owned(list, ms)
  BY <1>1, <1>2, <1>3 DEF Owned
<1>7. Owned(todo', ms)
  BY <1>3, <1>4, <1>6, ContinueOwned
<1>8. \A o, c, m : Within(list, o, c, m) => Within(todo, o, c, m)
  <2> SUFFICES ASSUME NEW o, NEW c, NEW m, NEW i \in 1..Len(list),
                      list[i].op = o, list[i].batch = c, m \in list[i].jobs
               PROVE  Within(todo, o, c, m)
    BY DEF Within
  <2>1. i \in 1..Len(todo) /\ todo[i].op = o /\ todo[i].batch = c /\ m \in todo[i].jobs
    BY <1>1, <1>2, <1>3
  <2> QED
    BY <2>1 DEF Within
<1>9. \A o, c, m : Within(todo, o, c, m) /\ ~(o = op /\ c = Head(todo).batch /\ m = j)
                     => Within(list, o, c, m)
  <2> SUFFICES ASSUME NEW o, NEW c, NEW m, ~(o = op /\ c = Head(todo).batch /\ m = j),
                      NEW i \in 1..Len(todo), todo[i].op = o, todo[i].batch = c, m \in todo[i].jobs
               PROVE  Within(list, o, c, m)
    BY ZenonT(60) DEF Within
  <2>1. i \in 1..Len(list) /\ list[i].op = o /\ list[i].batch = c /\ m \in list[i].jobs
    BY <1>1, <1>2, <1>3
  <2> QED
    BY <2>1 DEF Within
<1>10. op = "finish" => \A c, m : Within(list, "finish", c, m) => m # j
  <2> SUFFICES ASSUME op = "finish", NEW c, NEW i \in 1..Len(list),
                      list[i].op = "finish", j \in list[i].jobs
               PROVE  FALSE
    BY DEF Within
  <2>1. i = 1
    BY <1>6 DEF Owned
  <2> QED
    BY <1>3, <2>1
<1>11. Within(todo, op, Head(todo).batch, j)
  BY <1>1, <1>2 DEF Within
<1> QED
  BY <1>5, <1>7, <1>8, <1>9, <1>10, <1>11 DEF Pending
-----------------------------------------------------------------------------
(* Steps that leave batches and their members alone.                        *)

OpenStates == {"Frozen", "Blocked", "Ready", "Work", "Stalled"}

\* k goes on, which is nothing to a batch: it stays as committed as it is.
Passes(k) ==
    /\ state[k] # "Batched" /\ state'[k] # "Batched" /\ state'[k] # Absent
    /\ members[k] = {} \/ (state[k] \in OpenStates /\ state'[k] \in OpenStates)

\* The dependencies of batches that are committed and of their members stand.
NeedsKept == \A b \in Jobs : Committed(b) =>
    deps'[b] = deps[b] /\ \A m \in members[b] : deps'[m] = deps[m]

LEMMA QuietHolds ==
    ASSUME IInv, HoldInv, UNCHANGED <<members, batchId>>,
           \A k \in Jobs : state'[k] = state[k] \/ Passes(k),
           NeedsKept, Owned(todo', members),
           \A op \in {"absorb", "unbatch", "finish"}, b, m \in Jobs :
              Pending(op, b, m)' <=> Pending(op, b, m)
    PROVE  HoldInv'
<1>1. \A b \in Jobs : /\ Committed(b)' <=> Committed(b)
                      /\ members[b] # {} => /\ state'[b] \in Terminal <=> state[b] \in Terminal
                                            /\ state[b] \in {"Done", "Draft", "Revoked"}
                                                  => state'[b] = state[b]
                      /\ Exists(b) => Exists(b)'
                      /\ state'[b] = "Batched" <=> state[b] = "Batched"
  BY DEF Passes, OpenStates, Committed, Terminal, Exists, Absent
<1>2. MembersApart'
  BY <1>1 DEF HoldInv, MembersApart, Terminal
<1>3. BatchedIsHeld'
  BY <1>1 DEF HoldInv, BatchedIsHeld
<1>4. BatchNeeds'
  BY <1>1 DEF HoldInv, BatchNeeds, NeedsKept, MembersApart, IInv, TypeOK, RecordsTyped
<1>5. \A b, m \in Jobs : Holds(b, m)' <=> Holds(b, m)
  BY <1>1 DEF Holds
<1>6. BatchHolds'
  BY <1>1, <1>5 DEF HoldInv, BatchHolds
<1>7. Owned(todo, members)'
  OBVIOUS
<1> QED
  BY <1>2, <1>3, <1>4, <1>6, <1>7 DEF HoldInv

\* Between messages a committed batch holds its members, and only such batches
\* hold jobs.
LEMMA IdleHolds ==
    ASSUME IInv, HoldInv, pc # "handler"
    PROVE  /\ todo = <<>> /\ \A o, c, m : ~Pending(o, c, m)
           /\ \A b, m \in Jobs : Committed(b) /\ m \in members[b] => Holds(b, m)
           /\ \A b, m \in Jobs : Holds(b, m) => Committed(b) /\ m \in members[b]
           /\ \A m \in Jobs : state[m] = "Batched" => batchId[m] \in Jobs /\ Holds(batchId[m], m)
<1>1. todo = <<>>
  BY DEF IInv, TypeOK, ActorTyped
<1>2. \A o, c, m : ~Pending(o, c, m)
  BY <1>1, NothingLeft
<1>3. /\ \A b, m \in Jobs : Committed(b) /\ m \in members[b] => Holds(b, m)
      /\ \A b, m \in Jobs : Holds(b, m) => Committed(b) /\ m \in members[b]
  BY <1>2 DEF HoldInv, BatchHolds
<1>4. \A m \in Jobs : state[m] = "Batched" => batchId[m] \in Jobs /\ Holds(batchId[m], m)
  BY DEF HoldInv, BatchedIsHeld, Holds, IInv, TypeOK, RecordsTyped
<1> QED
  BY <1>1, <1>2, <1>3, <1>4

\* An ordinary plan is orderly; a plan with no batches has no members at all.
LEMMA PlanIsOrderly ==
    ASSUME IInv, HoldInv, Orderly
    PROVE  \/ Faults \cap Disruptions = {}
           \/ /\ \A b \in Jobs : members[b] = {}
              /\ \A m \in Jobs : state[m] # "Batched"
<1>1. plan \in Plans
  BY DEF IInv, TypeOK, BoundsTyped
<1>2. CASE plan.faults \cap Disruptions = {}
  BY <1>2 DEF Faults
<1>3. CASE plan.jobs \cap Batches = {}
  <2>1. \A b \in Jobs : members[b] = {}
    BY <1>3 DEF HoldInv, MembersApart, IInv, TypeOK, RecordsTyped
  <2>2. \A m \in Jobs : state[m] = "Batched" => batchId[m] \in Jobs /\ Holds(batchId[m], m)
    BY DEF HoldInv, BatchedIsHeld, Holds, IInv, TypeOK, RecordsTyped
  <2>3. \A m \in Jobs : state[m] # "Batched"
    BY <2>1, <2>2 DEF HoldInv, BatchHolds
  <2> QED
    BY <2>1, <2>3
<1> QED
  BY <1>1, <1>2, <1>3 DEF Orderly

LEMMA NoBatchNoMember ==
    ASSUME IInv, HoldInv, NoBatches
    PROVE  /\ \A b \in Jobs : members[b] = {}
           /\ \A m \in Jobs : state[m] # "Batched"
           /\ \A op \in {"absorb", "unbatch", "finish"}, b, m \in Jobs : ~Pending(op, b, m)
<1>1. \A b \in Jobs : members[b] = {}
  BY DEF HoldInv, MembersApart, IInv, TypeOK, RecordsTyped, NoBatches
<1>2. \A m \in Jobs : state[m] = "Batched" => batchId[m] \in Jobs /\ Holds(batchId[m], m)
  BY DEF HoldInv, BatchedIsHeld, Holds, IInv, TypeOK, RecordsTyped
<1>3. \A m \in Jobs : state[m] # "Batched"
  BY <1>1, <1>2 DEF HoldInv, BatchHolds
<1>4. \A op \in {"absorb", "unbatch", "finish"}, b, m \in Jobs : ~Pending(op, b, m)
  BY <1>1, <1>3 DEF HoldInv, BatchHolds, Holds
<1> QED
  BY <1>1, <1>3, <1>4
LEMMA OrdinaryHolds ==
    ASSUME IInv, HoldInv, NEW j \in Jobs,
           UpdateJob(j) \/ EditLabels(j) \/ RefuseRelease(j) \/ CreateJob(j)
    PROVE  HoldInv'
<1>1. /\ Idle /\ UNCHANGED <<members, batchId, todo>>
      /\ \A k \in Jobs \ {j} : state'[k] = state[k] /\ deps'[k] = deps[k]
  <2>1. CASE CreateJob(j)
    BY <2>1 DEF CreateJob, IInv, TypeOK, RecordsTyped
  <2>2. CASE UpdateJob(j) \/ EditLabels(j)
    BY <2>2 DEF UpdateJob, EditLabels, IInv, TypeOK, RecordsTyped
  <2>3. CASE RefuseRelease(j)
    BY <2>3 DEF RefuseRelease, ReleaseOpen, IInv, TypeOK, RecordsTyped
  <2> QED
    BY <2>1, <2>2, <2>3
<1>2. state'[j] = state[j] \/ Passes(j)
  <2>1. CASE CreateJob(j)
    <3>1. state[j] = Absent /\ state'[j] \in {"Draft", "Frozen"}
      BY <2>1 DEF CreateJob, Planned, Exists, IInv, TypeOK, RecordsTyped
    <3>2. members[j] = {}
      BY <3>1 DEF HoldInv, MembersApart, Exists
    <3> QED
      BY <3>1, <3>2 DEF Passes, Absent
  <2> QED
    BY <2>1 DEF UpdateJob, EditLabels, RefuseRelease
<1>3. deps'[j] = deps[j] \/ state[j] \in {"Draft", Absent}
  BY DEF UpdateJob, EditLabels, RefuseRelease, CreateJob, Planned, Exists, IInv, GraphIsRecord
<1>4. NeedsKept
  <2> SUFFICES ASSUME NEW b \in Jobs, Committed(b)
               PROVE  deps'[b] = deps[b] /\ \A m \in members[b] : deps'[m] = deps[m]
    BY DEF NeedsKept
  <2>1. b # j \/ deps'[j] = deps[j]
    BY <1>3 DEF Committed, Absent
  <2>2. \A m \in members[b] : m \in Jobs /\ (m = j => state[m] = "Batched")
    BY <1>1, IdleHolds DEF Idle, Holds, IInv, TypeOK, RecordsTyped
  <2> QED
    BY <1>1, <1>3, <2>1, <2>2 DEF Absent
<1>5. /\ Owned(todo', members)
      /\ \A op, b, m : Pending(op, b, m)' <=> Pending(op, b, m)
  BY <1>1 DEF HoldInv, Pending
<1> QED
  BY <1>1, <1>2, <1>4, <1>5, QuietHolds

\* Steps that take jobs on and touch no dependencies.
LEMMA PassHolds ==
    ASSUME IInv, HoldInv, UNCHANGED <<members, batchId, deps>>,
           \A k \in Jobs : state'[k] = state[k] \/ Passes(k),
           Owned(todo', members),
           \A op \in {"absorb", "unbatch", "finish"}, b, m \in Jobs :
              Pending(op, b, m)' <=> Pending(op, b, m)
    PROVE  HoldInv'
BY QuietHolds DEF NeedsKept

LEMMA SchedulingHolds ==
    ASSUME IInv, HoldInv, Scheduling \/ \E j \in Jobs : DeadlineScan(j) \/ PreworkRetry(j)
    PROVE  HoldInv'
<1>1. pc # "handler" /\ UNCHANGED <<members, batchId, deps>>
  BY DEF Scheduling, StartJob, StartFails, DrainAgain, DeadlineScan, PreworkRetry, Idle, record
<1>2. todo = <<>> /\ \A o, c, m : ~Pending(o, c, m)
  BY <1>1, IdleHolds
<1>3. /\ Owned(todo', members)
      /\ \A op \in {"absorb", "unbatch", "finish"}, b, m \in Jobs :
           Pending(op, b, m)' <=> Pending(op, b, m)
  <2>1. CASE UNCHANGED todo
    BY <2>1 DEF HoldInv, Pending
  <2>2. CASE Continue(<<>>)
    BY <1>2, <2>2, NothingToDo
  <2> QED
    BY <2>1, <2>2 DEF Scheduling, StartJob, StartFails, DrainAgain, DeadlineScan, PreworkRetry
<1>4. ASSUME NEW k \in Jobs
      PROVE  state'[k] = state[k] \/ Passes(k)
  <2>1. \/ state'[k] = state[k]
        \/ state[k] \in {"Ready", "Stalled"} /\ state'[k] \in {"Ready", "Work", "Stalled"}
    BY DEF Scheduling, StartJob, StartFails, DrainAgain, DeadlineScan, PreworkRetry, record,
       IInv, TypeOK, RecordsTyped
  <2> QED
    BY <2>1 DEF Passes, OpenStates, Absent
<1> QED
  BY <1>1, <1>3, <1>4, PassHolds

\* The chores that are no batch's: a job is unblocked, or revoked in a cascade.
LEMMA TryUnblockHolds ==
    ASSUME IInv, HoldInv, NEW j \in Jobs, TryUnblock(j)
    PROVE  HoldInv'
<1>1. /\ Owned(todo', members)
      /\ \A op \in {"absorb", "unbatch", "finish"}, b, m \in Jobs :
           Pending(op, b, m)' <=> Pending(op, b, m)
  <2>1. ActorTyped /\ Doing("unblock", j) /\ Taken(j) /\ Owned(todo, members)
    BY DEF TryUnblock, IInv, TypeOK, HoldInv
  <2> QED
    BY <2>1, TakenHas
<1>2. ASSUME NEW k \in Jobs
      PROVE  state'[k] = state[k] \/ Passes(k)
  <2>1. \/ state'[k] = state[k]
        \/ state[k] = "Blocked" /\ state'[k] \in {"Ready", "Stalled"}
    BY DEF TryUnblock, IInv, TypeOK, RecordsTyped
  <2> QED
    BY <2>1 DEF Passes, OpenStates, Absent
<1> QED
  BY <1>1, <1>2, PassHolds DEF TryUnblock

LEMMA RevokeTargetHolds ==
    ASSUME IInv, HoldInv, NEW j \in Jobs, RevokeTarget(j)
    PROVE  HoldInv'
<1>0. ActorTyped /\ Doing("revoke", j) /\ Taken(j) /\ Owned(todo, members)
  BY DEF RevokeTarget, IInv, TypeOK, HoldInv
<1>1. /\ Owned(todo', members)
      /\ \A op \in {"absorb", "unbatch", "finish"}, b, m \in Jobs :
           Pending(op, b, m)' <=> Pending(op, b, m)
  BY <1>0, TakenHas
<1>2. state[j] \in {"Frozen", "Blocked", "Ready"} /\ members[j] = {}
  <2>1. 1 \in 1..Len(todo) /\ todo[1].op = "revoke" /\ j \in todo[1].jobs
    BY <1>0 DEF Doing, ActorTyped
  <2> QED
    BY <1>0, <2>1 DEF IInv, Fits, Owned
<1>3. ASSUME NEW k \in Jobs
      PROVE  state'[k] = state[k] \/ Passes(k)
  <2>1. state'[k] = IF k = j THEN "Revoked" ELSE state[k]
    BY DEF RevokeTarget, IInv, TypeOK, RecordsTyped
  <2> QED
    BY <1>2, <2>1 DEF Passes, OpenStates, Absent
<1> QED
  BY <1>1, <1>3, PassHolds DEF RevokeTarget

\* The handler ends before its list does: only of a plan without batches.
LEMMA CutShortHolds ==
    ASSUME IInv, HoldInv, Orderly, HandlerFails \/ (Crash /\ Whole')
    PROVE  HoldInv'
<1>1. UNCHANGED <<state, deps, members, batchId>>
  BY DEF HandlerFails, Crash, record
<1>2. /\ \A b \in Jobs : members[b] = {}
      /\ \A m \in Jobs : state[m] # "Batched"
  <2>1. CASE HandlerFails
    BY <2>1, PlanIsOrderly DEF HandlerFails, Disruptions
  <2>2. CASE Crash /\ Whole'
    <3>1. crashes' # 0 /\ plan' = plan
      BY <2>2 DEF Crash, IInv, TypeOK, BoundsTyped
    <3> QED
      BY <2>2, <3>1, NoBatchNoMember DEF Whole, NoBatches
  <2> QED
    BY <2>1, <2>2
<1>3. /\ Owned(todo', members)
      /\ \A op \in {"absorb", "unbatch", "finish"}, b, m \in Jobs : ~Pending(op, b, m)'
  <2>1. CASE HandlerFails
    BY <2>1, NothingToDo DEF HandlerFails
  <2>2. CASE Crash
    <3>1. PICK js \in SUBSET Jobs : Continue(<<Chore("unblock", js, None)>>)
      BY <2>2 DEF Crash
    <3>2. <<Chore("unblock", js, None)>> \in Seq(Chores)
      BY DEF Chore, Chores
    <3> QED
      BY <3>1, <3>2, ListOfOne
  <2> QED
    BY <2>1, <2>2
<1>4. \A op \in {"absorb", "unbatch", "finish"}, b, m \in Jobs : ~Pending(op, b, m)
  BY <1>2 DEF HoldInv, BatchHolds, Holds
<1> QED
  BY <1>1, <1>3, <1>4, PassHolds
-----------------------------------------------------------------------------
(* Batches are made, committed and taken apart.                             *)

\* A batch is committed: its members, Frozen and in no batch, are to be absorbed.
LEMMA CommitHolds ==
    ASSUME IInv, HoldInv, pc # "handler",
           NEW b \in Batches, NEW ms \in SUBSET (Jobs \ Batches),
           NEW to \in {"Frozen", "Blocked", "Ready"},
           state[b] \in {Absent, "Draft"}, state' = [state EXCEPT ![b] = to],
           members' = [members EXCEPT ![b] = ms], UNCHANGED batchId,
           deps' = [deps EXCEPT ![b] = UnionDeps(ms)],
           \A m \in ms : state[m] = "Frozen",
           \A c \in Jobs \ {b} : members[c] \cap ms # {} /\ state[c] \notin Terminal
              => state[c] # "Draft",
           Continue(<<Chore("absorb", ms, b)>>)
    PROVE  HoldInv'
<1>1. /\ b \in Jobs
      /\ \A k \in Jobs : /\ state'[k] = IF k = b THEN to ELSE state[k]
                         /\ members'[k] = IF k = b THEN ms ELSE members[k]
                         /\ deps'[k] = IF k = b THEN UnionDeps(ms) ELSE deps[k]
  BY JobsAssumption DEF IInv, TypeOK, RecordsTyped
<1>2. /\ Owned(todo', members')
      /\ \A o, c, m : Pending(o, c, m)' <=> o = "absorb" /\ c = b /\ m \in ms
  <2>1. <<Chore("absorb", ms, b)>> \in Seq(Chores)
    BY <1>1 DEF Chore, Chores
  <2> QED
    BY <1>1, <2>1, ListOfOne
<1>3. /\ \A c, m \in Jobs : Committed(c) /\ m \in members[c] => Holds(c, m)
      /\ \A c, m \in Jobs : Holds(c, m) => Committed(c) /\ m \in members[c]
      /\ \A m \in Jobs : state[m] = "Batched" => batchId[m] \in Jobs /\ Holds(batchId[m], m)
  BY IdleHolds
<1>4. ASSUME NEW c \in Jobs \ {b}, members[c] # {}, state[c] \notin Terminal
      PROVE  members[c] \cap ms = {}
  <2>1. c \in Batches /\ state[c] # Absent
    BY <1>4 DEF HoldInv, MembersApart, Exists
  <2>2. state[c] # "Batched"
    <3> SUFFICES ASSUME state[c] = "Batched" PROVE FALSE
      OBVIOUS
    <3>1. batchId[c] \in Jobs /\ c \in members[batchId[c]]
      BY <1>3
    <3> QED
      BY <2>1, <3>1 DEF HoldInv, MembersApart
  <2>3. state[c] = "Draft" \/ Committed(c)
    BY <1>4, <2>1, <2>2 DEF Committed, IInv, TypeOK, RecordsTyped, JobStates, Terminal
  <2>4. Committed(c) => \A m \in members[c] \cap ms : state[m] = "Batched"
    BY <1>3 DEF Holds
  <2>5. members[c] \cap ms # {} => Committed(c)
    BY <1>4, <2>3
  <2> QED
    BY <2>4, <2>5
<1>5. MembersApart'
  <2>1. /\ \A c \in Jobs : members'[c] # {} => c \in Batches /\ Exists(c)'
        /\ \A c \in Jobs : members'[c] \cap Batches = {}
    BY <1>1 DEF HoldInv, MembersApart, Exists, Absent
  <2>2. ASSUME NEW c \in Jobs, NEW d \in Jobs, c # d, state'[c] \notin Terminal,
               state'[d] \notin Terminal
        PROVE  members'[c] \cap members'[d] = {}
    <3>1. CASE c = b
      <4>1. members'[d] = members[d] /\ state'[d] = state[d] /\ members'[c] = ms
        BY <1>1, <2>2, <3>1
      <4>2. members[d] # {} => members[d] \cap ms = {}
        BY <1>4, <2>2, <3>1, <4>1
      <4> QED
        BY <4>1, <4>2
    <3>2. CASE d = b
      <4>1. members'[c] = members[c] /\ state'[c] = state[c] /\ members'[d] = ms
        BY <1>1, <2>2, <3>2
      <4>2. members[c] # {} => members[c] \cap ms = {}
        BY <1>4, <2>2, <3>2, <4>1
      <4> QED
        BY <4>1, <4>2
    <3>3. CASE c # b /\ d # b
      BY <1>1, <2>2, <3>3 DEF HoldInv, MembersApart
    <3> QED
      BY <3>1, <3>2, <3>3
  <2> QED
    BY <2>1, <2>2 DEF MembersApart
<1>6. \A c, m \in Jobs : Holds(c, m)' <=> Holds(c, m)
  BY <1>1 DEF Holds, Absent
<1>7. \A c \in Jobs : /\ c # b => (Committed(c)' <=> Committed(c))
                      /\ ~Committed(b)
  BY <1>1 DEF Committed, Absent
<1>8. ms # {} => Committed(b)'
  BY <1>1 DEF Committed
<1>9. BatchHolds'
  <2> SUFFICES ASSUME NEW c \in Jobs, NEW m \in Jobs
               PROVE  /\ Committed(c)' /\ m \in members'[c] => Pending("absorb", c, m)' \/ Holds(c, m)'
                      /\ Holds(c, m)' => m \in members'[c] /\ Committed(c)'
                      /\ Pending("absorb", c, m)' => Committed(c)' /\ m \in members'[c]
    BY <1>2 DEF BatchHolds
  <2>1. CASE c = b
    BY <1>1, <1>2, <1>3, <1>6, <1>7, <1>8, <2>1
  <2>2. CASE c # b
    BY <1>1, <1>2, <1>3, <1>6, <1>7, <2>2
  <2> QED
    BY <2>1, <2>2
<1>10. BatchedIsHeld'
  BY <1>1 DEF HoldInv, BatchedIsHeld, Absent
<1>11. BatchNeeds'
  <2> SUFFICES ASSUME NEW c \in Jobs, Committed(c)', NEW m \in members'[c]
               PROVE  deps'[m] \subseteq deps'[c] \cup members'[c]
    BY DEF BatchNeeds
  <2>1. m \in Jobs /\ m # b
    BY <1>1, <1>5 DEF IInv, TypeOK, RecordsTyped, MembersApart
  <2>2. CASE c = b
    <3>1. m \in ms /\ state[m] = "Frozen" /\ deps[m] = graph[m]
      BY <1>1, <2>1, <2>2 DEF IInv, GraphIsRecord
    <3>2. graph[m] \subseteq UnionDeps(ms) \cup ms
      <4> SUFFICES ASSUME NEW x \in graph[m], x \notin ms
                   PROVE  x \in UnionDeps(ms)
        OBVIOUS
      <4>1. x \in UNION {graph[k] : k \in ms}
        BY <3>1, Zenon
      <4> QED
        BY <4>1, Zenon DEF UnionDeps
    <3> QED
      BY <1>1, <2>1, <2>2, <3>1, <3>2
  <2>3. CASE c # b
    BY <1>1, <1>7, <2>1, <2>3 DEF HoldInv, BatchNeeds
  <2> QED
    BY <2>2, <2>3
<1> QED
  BY <1>2, <1>5, <1>9, <1>10, <1>11 DEF HoldInv

\* A Draft batch takes what it lists; no batch that counts lists it too.
LEMMA DraftHolds ==
    ASSUME IInv, HoldInv, pc # "handler",
           NEW b \in Batches, NEW ms \in SUBSET (Jobs \ Batches),
           state[b] \in {Absent, "Draft"}, state' = [state EXCEPT ![b] = "Draft"],
           members' = [members EXCEPT ![b] = ms], UNCHANGED batchId,
           \A k \in Jobs \ {b} : deps'[k] = deps[k],
           \A c \in Jobs \ {b} : members[c] \cap ms # {} => state[c] \in Terminal,
           Owned(todo', members'), \A o, c, m : ~Pending(o, c, m)'
    PROVE  HoldInv'
<1>1. /\ b \in Jobs
      /\ \A k \in Jobs : /\ state'[k] = IF k = b THEN "Draft" ELSE state[k]
                         /\ members'[k] = IF k = b THEN ms ELSE members[k]
                         /\ k # b => deps'[k] = deps[k]
  BY JobsAssumption DEF IInv, TypeOK, RecordsTyped
<1>2. /\ \A c, m \in Jobs : Committed(c) /\ m \in members[c] => Holds(c, m)
      /\ \A c, m \in Jobs : Holds(c, m) => Committed(c) /\ m \in members[c]
  BY IdleHolds
<1>3. MembersApart'
  <2>1. /\ \A c \in Jobs : members'[c] # {} => c \in Batches /\ Exists(c)'
        /\ \A c \in Jobs : members'[c] \cap Batches = {}
    BY <1>1 DEF HoldInv, MembersApart, Exists, Absent
  <2>2. ASSUME NEW c \in Jobs, NEW d \in Jobs, c # d, state'[c] \notin Terminal,
               state'[d] \notin Terminal
        PROVE  members'[c] \cap members'[d] = {}
    BY <1>1, <2>2 DEF HoldInv, MembersApart
  <2> QED
    BY <2>1, <2>2 DEF MembersApart
<1>4. \A c, m \in Jobs : Holds(c, m)' <=> Holds(c, m)
  BY <1>1 DEF Holds, Absent
<1>5. \A c \in Jobs : Committed(c)' <=> Committed(c)
  BY <1>1 DEF Committed, Absent
<1>6. \A c \in Jobs : Committed(c) => c # b
  BY DEF Committed, Absent
<1>7. BatchHolds'
  BY <1>1, <1>2, <1>4, <1>5, <1>6 DEF BatchHolds
<1>8. BatchedIsHeld'
  BY <1>1 DEF HoldInv, BatchedIsHeld, Absent
<1>9. BatchNeeds'
  <2> SUFFICES ASSUME NEW c \in Jobs, Committed(c)', NEW m \in members'[c]
               PROVE  deps'[m] \subseteq deps'[c] \cup members'[c]
    BY DEF BatchNeeds
  <2>1. m \in Jobs /\ m # b
    BY <1>1, <1>3 DEF IInv, TypeOK, RecordsTyped, MembersApart
  <2> QED
    BY <1>1, <1>5, <1>6, <2>1 DEF HoldInv, BatchNeeds
<1> QED
  BY <1>3, <1>7, <1>8, <1>9 DEF HoldInv
LEMMA PlanMembers ==
    ASSUME IInv, NEW b \in plan.jobs \cap Batches
    PROVE  b \in Jobs /\ plan.members[b] \subseteq SUBSET (Jobs \ Batches)
<1>1. /\ plan.jobs \subseteq Jobs
      /\ plan.members \in [plan.jobs \cap Batches -> SUBSET SUBSET (Jobs \ Batches)]
  BY PlansAssumption, Zenon DEF IInv, TypeOK, BoundsTyped
<1>2. plan.members[b] \in SUBSET SUBSET (Jobs \ Batches)
  BY <1>1, Zenon
<1> QED
  BY <1>1, <1>2

\* What can be said of the other batches when a plan has no overlaps.
LEMMA ApartIs ==
    ASSUME NEW b \in Batches, NEW ms, NEW draft \in BOOLEAN, Apart(b, ms, draft),
           HoldInv, NEW c \in Jobs \ {b}, members[c] \cap ms # {}, state[c] \notin Terminal
    PROVE  ~draft /\ state[c] # "Draft"
<1>1. c \in Batches
  BY DEF HoldInv, MembersApart
<1> QED
  BY <1>1 DEF Apart

LEMMA CreateBatchHolds ==
    ASSUME IInv, HoldInv, Orderly, NEW b \in Batches, CreateBatch(b)
    PROVE  HoldInv'
<1>1. PICK ms \in plan.members[b], draft \in BOOLEAN :
        LET ds == IF draft THEN {} ELSE UnionDeps(ms) IN
          /\ PlanOk(ms, IF draft THEN 1 ELSE 2)
          /\ "overlap" \in Faults \/ Apart(b, ms, draft)
          /\ state' = [state EXCEPT ![b] = IF draft THEN "Draft" ELSE "Frozen"]
          /\ deps' = [deps EXCEPT ![b] = ds]
          /\ members' = [members EXCEPT ![b] = ms]
          /\ UNCHANGED batchId
          /\ Continue(<<Chore("absorb", IF draft THEN {} ELSE ms, b)>>)
  BY DEF CreateBatch
<1>2. b \in plan.jobs /\ state[b] = Absent /\ pc # "handler"
  BY DEF CreateBatch, Planned, Exists, Idle
<1>3. b \in Jobs /\ ms \in SUBSET (Jobs \ Batches)
  BY <1>1, <1>2, PlanMembers
<1>4. Apart(b, ms, draft)
  BY <1>1, <1>2 DEF Orderly, Disruptions, Faults, IInv, TypeOK, BoundsTyped
<1>5. \A m \in ms : state[m] = "Frozen"
  BY <1>1 DEF PlanOk, ValidMember
<1>6. CASE draft
  <2>1. Continue(<<Chore("absorb", {}, b)>>) /\ <<Chore("absorb", {}, b)>> \in Seq(Chores)
    BY <1>1, <1>3, <1>6 DEF Chore, Chores
  <2>2. Owned(todo', members') /\ \A o, c, m : ~Pending(o, c, m)'
    BY <1>3, <2>1, ListOfOne
  <2>3. \A c \in Jobs \ {b} : members[c] \cap ms # {} => state[c] \in Terminal
    BY <1>4, <1>6, ApartIs
  <2>4. /\ state' = [state EXCEPT ![b] = "Draft"]
        /\ members' = [members EXCEPT ![b] = ms] /\ UNCHANGED batchId
        /\ \A k \in Jobs \ {b} : deps'[k] = deps[k]
    BY <1>1, <1>6 DEF IInv, TypeOK, RecordsTyped
  <2> QED
    BY <1>2, <1>3, <2>2, <2>3, <2>4, DraftHolds
<1>7. CASE ~draft
  <2>1. \A c \in Jobs \ {b} : members[c] \cap ms # {} /\ state[c] \notin Terminal
          => state[c] # "Draft"
    BY <1>4, <1>7, ApartIs
  <2>2. /\ state' = [state EXCEPT ![b] = "Frozen"]
        /\ members' = [members EXCEPT ![b] = ms] /\ UNCHANGED batchId
        /\ deps' = [deps EXCEPT ![b] = UnionDeps(ms)]
        /\ Continue(<<Chore("absorb", ms, b)>>)
    BY <1>1, <1>7
  <2> QED
    BY <1>2, <1>3, <1>5, <2>1, <2>2, CommitHolds
<1> QED
  BY <1>6, <1>7

LEMMA EditMembersHolds ==
    ASSUME IInv, HoldInv, Orderly, NEW b \in Batches, EditMembers(b)
    PROVE  HoldInv'
<1>1. PICK ms \in plan.members[b] :
        /\ "overlap" \in Faults \/ Apart(b, ms, TRUE)
        /\ members' = [members EXCEPT ![b] = ms]
  BY DEF EditMembers
<1>2. /\ b \in Jobs /\ state[b] = "Draft" /\ Idle
      /\ UNCHANGED <<state, batchId, todo>> /\ deps' = [deps EXCEPT ![b] = graph[b]]
  BY JobsAssumption DEF EditMembers
<1>3. b \in plan.jobs
  BY <1>2 DEF IInv, TypeOK, RecordsTyped, Exists, Absent
<1>4. ms \in SUBSET (Jobs \ Batches)
  BY <1>1, <1>3, PlanMembers
<1>5. Apart(b, ms, TRUE)
  BY <1>1, <1>3 DEF Orderly, Disruptions, Faults, IInv, TypeOK, BoundsTyped
<1>6. \A c \in Jobs \ {b} : members[c] \cap ms # {} => state[c] \in Terminal
  BY <1>5, ApartIs
<1>7. Owned(todo', members') /\ \A o, c, m : ~Pending(o, c, m)'
  <2>1. todo = <<>>
    BY <1>2, IdleHolds DEF Idle
  <2> QED
    BY <1>2, <2>1 DEF Owned, Pending, Within
<1>8. state' = [state EXCEPT ![b] = "Draft"]
  BY <1>2 DEF IInv, TypeOK, RecordsTyped
<1>9. members' = [members EXCEPT ![b] = ms] /\ \A k \in Jobs \ {b} : deps'[k] = deps[k]
  BY <1>1, <1>2 DEF IInv, TypeOK, RecordsTyped
<1>10. pc # "handler" /\ state[b] \in {Absent, "Draft"} /\ UNCHANGED batchId
  BY <1>2 DEF Idle
<1> QED
  BY <1>4, <1>6, <1>7, <1>8, <1>9, <1>10, DraftHolds

\* A Draft that is finalized or released: a batch commits, another job passes.
LEMMA CommitsHolds ==
    ASSUME IInv, HoldInv, NEW j \in Jobs, FinalizeJob(j) \/ ReleaseJob(j)
    PROVE  HoldInv'
<1>1. /\ Idle /\ state[j] \in {"Draft", "Frozen"} /\ UNCHANGED <<members, batchId>>
  BY DEF FinalizeJob, ReleaseJob, ReleaseOpen
<1>2. CASE state[j] = "Draft" /\ members[j] # {}
  <2>1. j \in Batches /\ members[j] \in SUBSET (Jobs \ Batches)
    BY <1>2 DEF HoldInv, MembersApart, IInv, TypeOK, RecordsTyped
  <2>2. \A m \in members[j] : state[m] = "Frozen"
    BY <1>2 DEF FinalizeJob, ReleaseJob, ReleaseOpen, PlanOk, ValidMember
  <2>3. \A c \in Jobs \ {j} : members[c] \cap members[j] # {} /\ state[c] \notin Terminal
          => state[c] # "Draft"
    BY <1>2 DEF HoldInv, MembersApart, Terminal
  <2>4. PICK to \in {"Frozen", "Blocked", "Ready"} :
          /\ state' = [state EXCEPT ![j] = to]
          /\ deps' = [deps EXCEPT ![j] = UnionDeps(members[j])]
          /\ Continue(<<Chore("absorb", members[j], j)>>)
    <3>1. CASE FinalizeJob(j)
      BY <1>2, <3>1 DEF FinalizeJob
    <3>2. CASE ReleaseJob(j)
      <4>1. ReleaseDeps(j) = UnionDeps(members[j])
        BY <1>2 DEF ReleaseDeps
      <4> QED
        BY <1>2, <3>2, <4>1 DEF ReleaseJob
    <3> QED
      BY <3>1, <3>2
  <2>5. members' = [members EXCEPT ![j] = members[j]]
    BY <1>1 DEF IInv, TypeOK, RecordsTyped
  <2> QED
    BY <1>1, <1>2, <2>1, <2>2, <2>3, <2>4, <2>5, CommitHolds DEF Idle
<1>3. CASE state[j] = "Frozen" \/ members[j] = {}
  <2>1. /\ \A k \in Jobs : k # j => state'[k] = state[k] /\ deps'[k] = deps[k]
        /\ state'[j] \in {"Frozen", "Blocked", "Ready"} /\ deps'[j] = graph[j]
        /\ Continue(<<Chore("absorb", {}, j)>>)
    <3>1. CASE FinalizeJob(j)
      <4>1. members[j] = {}
        BY <1>3, <3>1 DEF FinalizeJob
      <4> QED
        BY <3>1, <4>1 DEF FinalizeJob, IInv, TypeOK, RecordsTyped
    <3>2. CASE ReleaseJob(j)
      <4>1. ReleaseDeps(j) = graph[j]
        BY <1>3 DEF ReleaseDeps
      <4>2. (IF state[j] = "Draft" THEN members[j] ELSE {}) = {}
        BY <1>3
      <4> QED
        BY <3>2, <4>1, <4>2 DEF ReleaseJob, IInv, TypeOK, RecordsTyped
    <3> QED
      BY <3>1, <3>2
  <2>2. Owned(todo', members) /\ \A o, c, m : ~Pending(o, c, m)'
    <3>1. <<Chore("absorb", {}, j)>> \in Seq(Chores)
      BY DEF Chore, Chores
    <3> QED
      BY <2>1, <3>1, ListOfOne
  <2>3. \A o, c, m : ~Pending(o, c, m)
    BY <1>1, IdleHolds DEF Idle
  <2>4. Passes(j)
    BY <1>1, <1>3, <2>1 DEF Passes, OpenStates, Absent
  <2>5. NeedsKept
    <3> SUFFICES ASSUME NEW b \in Jobs, Committed(b)
                 PROVE  deps'[b] = deps[b] /\ \A m \in members[b] : deps'[m] = deps[m]
      BY DEF NeedsKept
    <3>1. b = j => deps'[j] = deps[j]
      <4>1. b = j => state[j] = "Frozen"
        BY <1>1 DEF Committed
      <4> QED
        BY <2>1, <4>1 DEF IInv, GraphIsRecord
    <3>2. \A m \in members[b] : m \in Jobs /\ m # j
      BY <1>1, IdleHolds DEF Idle, Holds, IInv, TypeOK, RecordsTyped
    <3> QED
      BY <2>1, <3>1, <3>2
  <2>6. \A k \in Jobs : state'[k] = state[k] \/ Passes(k)
    BY <2>1, <2>4
  <2> QED
    BY <1>1, <2>2, <2>3, <2>5, <2>6, QuietHolds
<1> QED
  BY <1>1, <1>2, <1>3
\* A job goes back to Draft or is revoked: what it holds is to be given back.
LEMMA LetGoHolds ==
    ASSUME IInv, HoldInv, pc # "handler", NEW j \in Jobs, NEW to \in {"Draft", "Revoked"},
           state[j] \notin Terminal \cup {"Batched", Absent},
           state' = [state EXCEPT ![j] = to], UNCHANGED <<members, batchId>>,
           \A k \in Jobs \ {j} : deps'[k] = deps[k],
           Owned(todo', members),
           \A o \in {"absorb", "unbatch", "finish"}, c, m \in Jobs :
              Pending(o, c, m)' <=> o = "unbatch" /\ c = j /\ m \in members[j]
    PROVE  HoldInv'
<1>1. \A k \in Jobs : state'[k] = IF k = j THEN to ELSE state[k]
  BY DEF IInv, TypeOK, RecordsTyped
<1>2. /\ \A c, m \in Jobs : Committed(c) /\ m \in members[c] => Holds(c, m)
      /\ \A c, m \in Jobs : Holds(c, m) => Committed(c) /\ m \in members[c]
      /\ \A m \in Jobs : state[m] = "Batched" => batchId[m] \in Jobs /\ Holds(batchId[m], m)
  BY IdleHolds
<1>3. MembersApart'
  BY <1>1 DEF HoldInv, MembersApart, Exists, Absent
<1>4. \A c, m \in Jobs : Holds(c, m)' <=> Holds(c, m)
  BY <1>1 DEF Holds
<1>5. /\ \A c \in Jobs : Committed(c)' => Committed(c) /\ c # j
      /\ \A c \in Jobs : Committed(c) => Committed(c)' \/ c = j
  BY <1>1 DEF Committed
<1>6. ASSUME NEW c \in Jobs, Committed(c), c # j
      PROVE  members[c] \cap members[j] = {}
  BY <1>6 DEF HoldInv, MembersApart, Committed, Terminal
<1>7. BatchHolds'
  <2> SUFFICES ASSUME NEW c \in Jobs, NEW m \in Jobs
               PROVE  /\ Committed(c)' /\ m \in members[c] => Holds(c, m)'
                      /\ Holds(c, m)' => m \in members[c] /\ (Committed(c)' \/ Pending("unbatch", c, m)')
                      /\ Pending("unbatch", c, m)' =>
                           /\ m \in members[c] /\ state'[c] \in {"Draft", "Revoked"}
                           /\ state'[m] = "Batched" => batchId[m] = c
                           /\ \A d \in Jobs : Committed(d)' => m \notin members[d]
    BY DEF BatchHolds
  <2>1. Committed(c)' /\ m \in members[c] => Holds(c, m)'
    BY <1>2, <1>4, <1>5
  <2>2. Holds(c, m)' => m \in members[c] /\ (Committed(c)' \/ Pending("unbatch", c, m)')
    BY <1>2, <1>4, <1>5
  <2>3. ASSUME Pending("unbatch", c, m)'
        PROVE  /\ m \in members[c] /\ state'[c] \in {"Draft", "Revoked"}
               /\ state'[m] = "Batched" => batchId[m] = c
               /\ \A d \in Jobs : Committed(d)' => m \notin members[d]
    <3>1. c = j /\ m \in members[j] /\ state'[c] \in {"Draft", "Revoked"}
      BY <1>1, <2>3
    <3>2. \A d \in Jobs : Committed(d)' => m \notin members[d]
      BY <1>5, <1>6, <3>1
    <3>3. ASSUME state'[m] = "Batched"
          PROVE  batchId[m] = j
      <4>1. state[m] = "Batched"
        BY <1>1, <3>3
      <4>2. Committed(batchId[m]) /\ m \in members[batchId[m]] /\ batchId[m] \in Jobs
        BY <1>2, <4>1
      <4> QED
        BY <1>6, <3>1, <4>2
    <3> QED
      BY <3>1, <3>2, <3>3
  <2> QED
    BY <2>1, <2>2, <2>3
<1>8. BatchedIsHeld'
  BY <1>1 DEF HoldInv, BatchedIsHeld
<1>9. BatchNeeds'
  <2> SUFFICES ASSUME NEW c \in Jobs, Committed(c)', NEW m \in members[c]
               PROVE  deps'[m] \subseteq deps'[c] \cup members[c]
    BY DEF BatchNeeds
  <2>1. m \in Jobs /\ m # j
    BY <1>2, <1>5 DEF Holds, IInv, TypeOK, RecordsTyped
  <2> QED
    BY <1>5, <2>1 DEF HoldInv, BatchNeeds
<1> QED
  BY <1>3, <1>7, <1>8, <1>9 DEF HoldInv

LEMMA DraftJobHolds ==
    ASSUME IInv, HoldInv, NEW j \in Jobs, DraftJob(j)
    PROVE  HoldInv'
<1>1. /\ pc # "handler" /\ state[j] = "Frozen" /\ UNCHANGED <<members, batchId, deps>>
      /\ state' = [state EXCEPT ![j] = "Draft"]
      /\ Continue(<<Chore("unbatch", members[j], j)>>)
  BY DEF DraftJob, Idle
<1>2. <<Chore("unbatch", members[j], j)>> \in Seq(Chores)
  BY DEF Chore, Chores, IInv, TypeOK, RecordsTyped
<1>3. /\ Owned(todo', members)
      /\ \A o, c, m : Pending(o, c, m)' <=> o = "unbatch" /\ c = j /\ m \in members[j]
  BY <1>1, <1>2, ListOfOne
<1>4. state[j] \notin Terminal \cup {"Batched", Absent}
  BY <1>1 DEF Terminal, Absent
<1> QED
  BY <1>1, <1>3, <1>4, LetGoHolds

LEMMA RevokeHolds ==
    ASSUME IInv, HoldInv, Orderly, NEW j \in Jobs, Revoke(j)
    PROVE  HoldInv'
<1> DEFINE cascade == CascadeTargets(j)
<1>1. /\ pc # "handler" /\ state[j] \notin Terminal \cup {Absent} /\ UNCHANGED <<members, batchId>>
      /\ state' = [state EXCEPT ![j] = "Revoked"] /\ deps' = [deps EXCEPT ![j] = graph[j]]
      /\ Continue(<<Chore("revoke", cascade, None), Chore("unbatch", members[j], j)>>)
  BY DEF Revoke, Idle, Exists
<1>2. cascade \subseteq Jobs
  BY DEF CascadeTargets
<1>3. /\ state[j] # "Batched"
      /\ \A k \in cascade : members[k] = {}
  <2>1. CASE Faults \cap Disruptions = {}
    <3>1. state[j] # "Batched" /\ cascade \cap Batches = {}
      BY <2>1 DEF Revoke, Disruptions
    <3> QED
      BY <1>2, <3>1 DEF HoldInv, MembersApart
  <2>2. CASE (\A b \in Jobs : members[b] = {}) /\ (\A m \in Jobs : state[m] # "Batched")
    BY <1>2, <2>2
  <2> QED
    BY <2>1, <2>2, PlanIsOrderly
<1> HIDE DEF cascade
<1>4. <<Chore("revoke", cascade, None), Chore("unbatch", members[j], j)>> \in Seq(Chores)
  BY <1>2 DEF Chore, Chores, IInv, TypeOK, RecordsTyped
<1>5. /\ Owned(todo', members)
      /\ \A o, c, m : Pending(o, c, m)' <=> \/ o = "revoke" /\ c = None /\ m \in cascade
                                            \/ o = "unbatch" /\ c = j /\ m \in members[j]
  BY <1>1, <1>3, <1>4, ListOfTwo
<1>6. \A o \in {"absorb", "unbatch", "finish"}, c, m \in Jobs :
        Pending(o, c, m)' <=> o = "unbatch" /\ c = j /\ m \in members[j]
  BY <1>5
<1>7. \A k \in Jobs \ {j} : deps'[k] = deps[k]
  BY <1>1 DEF IInv, TypeOK, RecordsTyped
<1>8. state[j] \notin Terminal \cup {"Batched", Absent}
  BY <1>1, <1>3
<1> QED
  BY <1>1, <1>5, <1>6, <1>7, <1>8, LetGoHolds

LEMMA CompleteJobHolds ==
    ASSUME IInv, HoldInv, NEW j \in Jobs, CompleteJob(j)
    PROVE  HoldInv'
<1> DEFINE js == UNION {Dependents(d) : d \in members[j] \cup {j}}
<1>1. /\ pc # "handler" /\ state[j] = "Work" /\ UNCHANGED <<members, batchId, deps>>
      /\ state' = [state EXCEPT ![j] = "Done"]
      /\ Continue(<<Chore("finish", members[j], j), Chore("unblock", js, None)>>)
  BY DEF CompleteJob, Idle
<1>2. PICK more \in SUBSET Jobs : more = js
  <2>1. \A d : Dependents(d) \subseteq Jobs
    BY DEF Dependents
  <2> QED
    BY <2>1
<1> HIDE DEF js
<1>3. <<Chore("finish", members[j], j), Chore("unblock", js, None)>> \in Seq(Chores)
  BY <1>2 DEF Chore, Chores, IInv, TypeOK, RecordsTyped
<1>4. /\ Owned(todo', members)
      /\ \A o, c, m : Pending(o, c, m)' <=> \/ o = "finish" /\ c = j /\ m \in members[j]
                                            \/ o = "unblock" /\ c = None /\ m \in js
  BY <1>1, <1>3, ListOfTwo
<1>5. \A k \in Jobs : state'[k] = IF k = j THEN "Done" ELSE state[k]
  BY <1>1 DEF IInv, TypeOK, RecordsTyped
<1>6. /\ \A c, m \in Jobs : Committed(c) /\ m \in members[c] => Holds(c, m)
      /\ \A c, m \in Jobs : Holds(c, m) => Committed(c) /\ m \in members[c]
  BY <1>1, IdleHolds
<1>7. MembersApart'
  BY <1>1, <1>5 DEF HoldInv, MembersApart, Exists, Absent, Terminal
<1>8. \A c, m \in Jobs : Holds(c, m)' <=> Holds(c, m)
  BY <1>1, <1>5 DEF Holds
<1>9. /\ \A c \in Jobs : Committed(c)' <=> Committed(c) /\ c # j
      /\ members[j] # {} => Committed(j)
  BY <1>1, <1>5 DEF Committed
<1>10. BatchHolds'
  <2> SUFFICES ASSUME NEW c \in Jobs, NEW m \in Jobs
               PROVE  /\ Committed(c)' /\ m \in members[c] => Holds(c, m)'
                      /\ Holds(c, m)' => m \in members[c] /\ (Committed(c)' \/ Pending("finish", c, m)')
                      /\ Pending("finish", c, m)' => state'[c] = "Done" /\ Holds(c, m)'
    BY <1>1, <1>4 DEF BatchHolds
  <2> QED
    BY <1>4, <1>5, <1>6, <1>8, <1>9
<1>11. BatchedIsHeld'
  BY <1>1, <1>5 DEF HoldInv, BatchedIsHeld
<1>12. BatchNeeds'
  BY <1>1, <1>9 DEF HoldInv, BatchNeeds
<1> QED
  BY <1>1, <1>4, <1>7, <1>10, <1>11, <1>12 DEF HoldInv
LEMMA AbsorbHolds ==
    ASSUME IInv, HoldInv, NEW m \in Jobs, Absorb(m)
    PROVE  HoldInv'
<1> DEFINE b == Head(todo).batch
<1>1. /\ ActorTyped /\ Doing("absorb", m) /\ Taken(m) /\ Owned(todo, members)
      /\ state' = [state EXCEPT ![m] = "Batched"] /\ batchId' = [batchId EXCEPT ![m] = b]
      /\ UNCHANGED <<deps, members>>
  BY DEF Absorb, IInv, TypeOK, HoldInv
<1>2. /\ Owned(todo', members) /\ Pending("absorb", b, m)
      /\ \A o, c, k : /\ Pending(o, c, k)' => Pending(o, c, k)
                      /\ Pending(o, c, k) /\ ~(o = "absorb" /\ c = b /\ k = m) => Pending(o, c, k)'
  BY <1>1, TakenHas
<1>3. b \in Jobs /\ state[m] = "Frozen"
  <2>1. 1 \in 1..Len(todo) /\ todo[1] = Head(todo) /\ todo[1].op = "absorb" /\ m \in todo[1].jobs
    BY <1>1 DEF Doing, ActorTyped
  <2> QED
    BY <1>1, <2>1 DEF IInv, Fits, Owned
<1> HIDE DEF b
<1>4. Committed(b) /\ m \in members[b] /\ m \notin Batches /\ members[m] = {}
  BY <1>2, <1>3 DEF HoldInv, BatchHolds, MembersApart
<1>5. \A k \in Jobs : /\ state'[k] = IF k = m THEN "Batched" ELSE state[k]
                      /\ batchId'[k] = IF k = m THEN b ELSE batchId[k]
  BY <1>1 DEF IInv, TypeOK, RecordsTyped
<1>6. MembersApart'
  BY <1>1, <1>4, <1>5 DEF HoldInv, MembersApart, Exists, Absent
<1>7. \A c, k \in Jobs : /\ k # m => (Holds(c, k)' <=> Holds(c, k))
                         /\ Holds(c, m)' <=> c = b
                         /\ ~Holds(c, m)
  BY <1>3, <1>5 DEF Holds
<1>8. \A c \in Jobs : Committed(c)' <=> Committed(c)
  BY <1>1, <1>4, <1>5 DEF Committed
<1>9. \A c \in Jobs : Committed(c) /\ m \in members[c] => c = b
  <2>1. \A c \in Jobs : Committed(c) => state[c] \notin Terminal
    BY DEF Committed, Terminal
  <2> QED
    BY <1>3, <1>4, <2>1 DEF HoldInv, MembersApart
<1>10. BatchHolds'
  <2> SUFFICES ASSUME NEW c \in Jobs, NEW k \in Jobs
               PROVE  /\ Committed(c) /\ k \in members[c] => Pending("absorb", c, k)' \/ Holds(c, k)'
                      /\ Holds(c, k)' =>
                           /\ k \in members[c]
                           /\ Committed(c) \/ Pending("unbatch", c, k)' \/ Pending("finish", c, k)'
                      /\ Pending("absorb", c, k)' => Committed(c) /\ k \in members[c]
                      /\ Pending("finish", c, k)' => state'[c] = "Done" /\ Holds(c, k)'
                      /\ Pending("unbatch", c, k)' =>
                           /\ k \in members[c] /\ state'[c] \in {"Draft", "Revoked"}
                           /\ state'[k] = "Batched" => batchId'[k] = c
                           /\ \A d \in Jobs : Committed(d) => k \notin members[d]
    BY <1>1, <1>8 DEF BatchHolds
  <2>1. Committed(c) /\ k \in members[c] => Pending("absorb", c, k)' \/ Holds(c, k)'
    BY <1>2, <1>7, <1>9 DEF HoldInv, BatchHolds
  <2>2. Holds(c, k)' => /\ k \in members[c]
                        /\ Committed(c) \/ Pending("unbatch", c, k)' \/ Pending("finish", c, k)'
    BY <1>2, <1>4, <1>7 DEF HoldInv, BatchHolds
  <2>3. Pending("absorb", c, k)' => Committed(c) /\ k \in members[c]
    BY <1>2 DEF HoldInv, BatchHolds
  <2>4. Pending("finish", c, k)' => state'[c] = "Done" /\ Holds(c, k)'
    BY <1>2, <1>3, <1>5, <1>7 DEF HoldInv, BatchHolds
  <2>5. ASSUME Pending("unbatch", c, k)'
        PROVE  /\ k \in members[c] /\ state'[c] \in {"Draft", "Revoked"}
               /\ state'[k] = "Batched" => batchId'[k] = c
               /\ \A d \in Jobs : Committed(d) => k \notin members[d]
    <3>1. /\ k \in members[c] /\ state[c] \in {"Draft", "Revoked"}
          /\ state[k] = "Batched" => batchId[k] = c
          /\ \A d \in Jobs : Committed(d) => k \notin members[d]
      BY <1>2, <2>5 DEF HoldInv, BatchHolds
    <3>2. k # m /\ c # m
      BY <1>3, <1>4, <3>1
    <3> QED
      BY <1>5, <3>1, <3>2
  <2> QED
    BY <2>1, <2>2, <2>3, <2>4, <2>5
<1>11. BatchedIsHeld'
  BY <1>3, <1>5, NoneAssumption DEF HoldInv, BatchedIsHeld
<1>12. BatchNeeds'
  BY <1>1, <1>8 DEF HoldInv, BatchNeeds
<1> QED
  BY <1>1, <1>2, <1>6, <1>10, <1>11, <1>12 DEF HoldInv

LEMMA UnbatchHolds ==
    ASSUME IInv, HoldInv, NEW m \in Jobs, Unbatch(m)
    PROVE  HoldInv'
<1> DEFINE b == Head(todo).batch
<1>1. /\ ActorTyped /\ Doing("unbatch", m) /\ Taken(m) /\ Owned(todo, members)
      /\ UNCHANGED <<deps, members>>
  BY DEF Unbatch, IInv, TypeOK, HoldInv
<1>2. /\ Owned(todo', members) /\ Pending("unbatch", b, m)
      /\ \A o, c, k : /\ Pending(o, c, k)' => Pending(o, c, k)
                      /\ Pending(o, c, k) /\ ~(o = "unbatch" /\ c = b /\ k = m) => Pending(o, c, k)'
  BY <1>1, TakenHas
<1>3. b \in Jobs
  <2>1. 1 \in 1..Len(todo) /\ todo[1] = Head(todo) /\ todo[1].op = "unbatch"
    BY <1>1 DEF Doing, ActorTyped
  <2> QED
    BY <1>1, <2>1 DEF Owned
<1>a. \A k \in Jobs :
        /\ state'[k] = IF k = m /\ state[m] = "Batched" THEN "Frozen" ELSE state[k]
        /\ batchId'[k] = IF k = m /\ state[m] = "Batched" THEN None ELSE batchId[k]
  BY DEF Unbatch, IInv, TypeOK, RecordsTyped
<1> HIDE DEF b
<1>4. /\ m \in members[b] /\ state[b] \in {"Draft", "Revoked"} /\ m \notin Batches /\ members[m] = {}
      /\ state[m] = "Batched" => batchId[m] = b
      /\ \A c \in Jobs : Committed(c) => m \notin members[c]
  BY <1>2, <1>3 DEF HoldInv, BatchHolds, MembersApart
<1>6. MembersApart'
  BY <1>1, <1>4, <1>a DEF HoldInv, MembersApart, Exists, Absent
<1>7. \A c, k \in Jobs : /\ k # m => (Holds(c, k)' <=> Holds(c, k))
                         /\ ~Holds(c, m)'
  BY <1>a DEF Holds
<1>8. \A c \in Jobs : Committed(c)' <=> Committed(c)
  BY <1>1, <1>4, <1>a DEF Committed
<1>10. BatchHolds'
  <2> SUFFICES ASSUME NEW c \in Jobs, NEW k \in Jobs
               PROVE  /\ Committed(c) /\ k \in members[c] => Pending("absorb", c, k)' \/ Holds(c, k)'
                      /\ Holds(c, k)' =>
                           /\ k \in members[c]
                           /\ Committed(c) \/ Pending("unbatch", c, k)' \/ Pending("finish", c, k)'
                      /\ Pending("absorb", c, k)' => Committed(c) /\ k \in members[c]
                      /\ Pending("finish", c, k)' => state'[c] = "Done" /\ Holds(c, k)'
                      /\ Pending("unbatch", c, k)' =>
                           /\ k \in members[c] /\ state'[c] \in {"Draft", "Revoked"}
                           /\ state'[k] = "Batched" => batchId'[k] = c
                           /\ \A d \in Jobs : Committed(d) => k \notin members[d]
    BY <1>1, <1>8 DEF BatchHolds
  <2>1. Committed(c) /\ k \in members[c] => Pending("absorb", c, k)' \/ Holds(c, k)'
    BY <1>2, <1>4, <1>7 DEF HoldInv, BatchHolds
  <2>2. Holds(c, k)' => /\ k \in members[c]
                        /\ Committed(c) \/ Pending("unbatch", c, k)' \/ Pending("finish", c, k)'
    BY <1>2, <1>7 DEF HoldInv, BatchHolds
  <2>3. Pending("absorb", c, k)' => Committed(c) /\ k \in members[c]
    BY <1>2 DEF HoldInv, BatchHolds
  <2>4. ASSUME Pending("finish", c, k)'
        PROVE  state'[c] = "Done" /\ Holds(c, k)'
    <3>1. state[c] = "Done" /\ Holds(c, k)
      BY <1>2, <2>4 DEF HoldInv, BatchHolds
    <3>2. k # m
      BY <1>4, <3>1 DEF Holds
    <3> QED
      BY <1>7, <1>a, <3>1, <3>2
  <2>5. ASSUME Pending("unbatch", c, k)'
        PROVE  /\ k \in members[c] /\ state'[c] \in {"Draft", "Revoked"}
               /\ state'[k] = "Batched" => batchId'[k] = c
               /\ \A d \in Jobs : Committed(d) => k \notin members[d]
    <3>1. /\ k \in members[c] /\ state[c] \in {"Draft", "Revoked"}
          /\ state[k] = "Batched" => batchId[k] = c
          /\ \A d \in Jobs : Committed(d) => k \notin members[d]
      BY <1>2, <2>5 DEF HoldInv, BatchHolds
    <3> QED
      BY <1>a, <3>1
  <2> QED
    BY <2>1, <2>2, <2>3, <2>4, <2>5
<1>11. BatchedIsHeld'
  BY <1>a DEF HoldInv, BatchedIsHeld
<1>12. BatchNeeds'
  BY <1>1, <1>8 DEF HoldInv, BatchNeeds
<1> QED
  BY <1>1, <1>2, <1>6, <1>10, <1>11, <1>12 DEF HoldInv

LEMMA FinishHolds ==
    ASSUME IInv, HoldInv, NEW m \in Jobs, FinishMember(m) \/ FinishRefused(m)
    PROVE  HoldInv'
<1> DEFINE b == Head(todo).batch
<1>1. /\ ActorTyped /\ Doing("finish", m) /\ Owned(todo, members)
      /\ UNCHANGED <<deps, members, batchId>>
  BY DEF FinishMember, FinishRefused, record, IInv, TypeOK, HoldInv
<1>2. todo[1] = Head(todo) /\ 1 \in 1..Len(todo) /\ todo[1].op = "finish" /\ m \in todo[1].jobs
  BY <1>1 DEF Doing, ActorTyped
<1>3. b \in Jobs /\ Pending("finish", b, m)
  BY <1>1, <1>2 DEF Owned, Pending, Within
<1> HIDE DEF b
<1>4. state[b] = "Done" /\ Holds(b, m) /\ m \in members[b] /\ m \notin Batches /\ members[m] = {}
  BY <1>3 DEF HoldInv, BatchHolds, MembersApart
<1>5. FinishMember(m)
  BY <1>4 DEF FinishRefused, Holds
<1>6. /\ Owned(todo', members)
      /\ \A o, c, k : /\ Pending(o, c, k)' => Pending(o, c, k)
                      /\ Pending(o, c, k) /\ ~(o = "finish" /\ c = b /\ k = m) => Pending(o, c, k)'
      /\ \A c, k : Pending("finish", c, k)' => k # m
  <2>1. Taken(m)
    BY <1>5 DEF FinishMember
  <2> QED
    BY <1>1, <2>1, TakenHas DEF b
<1>7. \A k \in Jobs : state'[k] = IF k = m THEN "Done" ELSE state[k]
  BY <1>5 DEF FinishMember, IInv, TypeOK, RecordsTyped
<1>8. MembersApart'
  BY <1>1, <1>4, <1>7 DEF HoldInv, MembersApart, Exists, Absent
<1>9. \A c, k \in Jobs : /\ k # m => (Holds(c, k)' <=> Holds(c, k))
                         /\ ~Holds(c, m)'
                         /\ Holds(c, m) => c = b
  BY <1>1, <1>4, <1>7 DEF Holds
<1>10. \A c \in Jobs : Committed(c)' <=> Committed(c)
  BY <1>1, <1>4, <1>7 DEF Committed
<1>11. \A c : ~Pending("absorb", c, m)
  BY <1>4 DEF Pending, Within, IInv, Fits, Holds
<1>12. BatchHolds'
  <2> SUFFICES ASSUME NEW c \in Jobs, NEW k \in Jobs
               PROVE  /\ Committed(c) /\ k \in members[c] => Pending("absorb", c, k)' \/ Holds(c, k)'
                      /\ Holds(c, k)' =>
                           /\ k \in members[c]
                           /\ Committed(c) \/ Pending("unbatch", c, k)' \/ Pending("finish", c, k)'
                      /\ Pending("absorb", c, k)' => Committed(c) /\ k \in members[c]
                      /\ Pending("finish", c, k)' => state'[c] = "Done" /\ Holds(c, k)'
                      /\ Pending("unbatch", c, k)' =>
                           /\ k \in members[c] /\ state'[c] \in {"Draft", "Revoked"}
                           /\ state'[k] = "Batched" => batchId'[k] = c
                           /\ \A d \in Jobs : Committed(d) => k \notin members[d]
    BY <1>1, <1>10 DEF BatchHolds
  <2>1. Committed(c) /\ k \in members[c] => Pending("absorb", c, k)' \/ Holds(c, k)'
    <3>1. Committed(b) => FALSE
      BY <1>4 DEF Committed
    <3> QED
      BY <1>6, <1>9, <1>11, <3>1 DEF HoldInv, BatchHolds
  <2>2. Holds(c, k)' => /\ k \in members[c]
                        /\ Committed(c) \/ Pending("unbatch", c, k)' \/ Pending("finish", c, k)'
    BY <1>6, <1>9 DEF HoldInv, BatchHolds
  <2>3. Pending("absorb", c, k)' => Committed(c) /\ k \in members[c]
    BY <1>6 DEF HoldInv, BatchHolds
  <2>4. ASSUME Pending("finish", c, k)'
        PROVE  state'[c] = "Done" /\ Holds(c, k)'
    <3>1. state[c] = "Done" /\ Holds(c, k) /\ k # m
      BY <1>6, <2>4 DEF HoldInv, BatchHolds
    <3> QED
      BY <1>7, <1>9, <3>1
  <2>5. ASSUME Pending("unbatch", c, k)'
        PROVE  /\ k \in members[c] /\ state'[c] \in {"Draft", "Revoked"}
               /\ state'[k] = "Batched" => batchId'[k] = c
               /\ \A d \in Jobs : Committed(d) => k \notin members[d]
    <3>1. /\ k \in members[c] /\ state[c] \in {"Draft", "Revoked"}
          /\ state[k] = "Batched" => batchId[k] = c
          /\ \A d \in Jobs : Committed(d) => k \notin members[d]
      BY <1>6, <2>5 DEF HoldInv, BatchHolds
    <3>2. c # m
      BY <1>4, <3>1 DEF Holds
    <3> QED
      BY <1>1, <1>7, <3>1, <3>2
  <2> QED
    BY <2>1, <2>2, <2>3, <2>4, <2>5
<1>13. BatchedIsHeld'
  BY <1>1, <1>7 DEF HoldInv, BatchedIsHeld
<1>14. BatchNeeds'
  BY <1>1, <1>10 DEF HoldInv, BatchNeeds
<1> QED
  BY <1>1, <1>6, <1>8, <1>12, <1>13, <1>14 DEF HoldInv

LEMMA NextHolding ==
    ASSUME Orderly, IInv, Whole => HoldInv, [Next]_vars
    PROVE  (Whole => HoldInv)'
<1>1. Whole' => Whole
  <2>1. UNCHANGED plan /\ (crashes' = crashes \/ crashes' = crashes + 1)
    <3>1. CASE UNCHANGED vars
      BY <3>1 DEF vars
    <3>2. ASSUME NEW j \in Jobs, Authoring(j)
          PROVE  UNCHANGED <<plan, crashes>>
      BY <3>2 DEF Authoring, CreateJob, UpdateJob, EditLabels, DraftJob, FinalizeJob,
         ReleaseJob, RefuseRelease, Revoke
    <3>3. CASE ChoreStep \/ HandlerFails
      BY <3>3 DEF ChoreStep, Absorb, Unbatch, RevokeTarget, FinishMember, FinishRefused,
         TryUnblock, HandlerFails
    <3>4. ASSUME NEW j \in Jobs, CompleteJob(j) \/ DeadlineScan(j) \/ PreworkRetry(j)
          PROVE  UNCHANGED <<plan, crashes>>
      BY <3>4 DEF CompleteJob, DeadlineScan, PreworkRetry
    <3>5. CASE Scheduling \/ Crash \/ \E b \in Batches : BatchAuthoring(b)
      BY <3>5 DEF Scheduling, StartJob, StartFails, DrainAgain, Crash, BatchAuthoring,
         CreateBatch, EditMembers
    <3> QED
      BY <3>1, <3>2, <3>3, <3>4, <3>5 DEF Next
  <2>2. crashes \in Nat
    BY DEF IInv, TypeOK, BoundsTyped
  <2> QED
    BY <2>1, <2>2 DEF Whole, NoBatches
<1> SUFFICES ASSUME HoldInv, Whole'
             PROVE  HoldInv'
  BY <1>1
<1>2. ASSUME NEW j \in Jobs, Authoring(j) PROVE HoldInv'
  BY <1>2, OrdinaryHolds, DraftJobHolds, CommitsHolds, RevokeHolds DEF Authoring
<1>3. ASSUME NEW j \in Jobs, CompleteJob(j) \/ DeadlineScan(j) \/ PreworkRetry(j) PROVE HoldInv'
  BY <1>3, CompleteJobHolds, SchedulingHolds
<1>4. ASSUME NEW b \in Batches, BatchAuthoring(b) PROVE HoldInv'
  BY <1>4, CreateBatchHolds, EditMembersHolds DEF BatchAuthoring
<1>5. CASE ChoreStep
  BY <1>5, AbsorbHolds, UnbatchHolds, RevokeTargetHolds, FinishHolds, TryUnblockHolds DEF ChoreStep
<1>6. CASE HandlerFails \/ Crash
  BY <1>6, CutShortHolds
<1>7. CASE Scheduling
  BY <1>7, SchedulingHolds
<1>8. CASE UNCHANGED vars
  BY <1>8 DEF vars, record, HoldInv, Owned, MembersApart, BatchHolds, BatchedIsHeld, BatchNeeds,
     Pending, Within, Holds, Committed, Exists
<1> QED
  BY <1>2, <1>3, <1>4, <1>5, <1>6, <1>7, <1>8 DEF Next

LEMMA InitHolding == Init => HoldInv
<1> SUFFICES ASSUME Init PROVE HoldInv
  OBVIOUS
<1>1. Owned(todo, members) /\ \A o, c, m : ~Pending(o, c, m)
  BY NothingLeft DEF Init
<1>2. \A j \in Jobs : state[j] = Absent /\ members[j] = {} /\ batchId[j] = None
  BY DEF Init
<1>3. \A c, m \in Jobs : ~Committed(c) /\ ~Holds(c, m)
  BY <1>2 DEF Committed, Holds, Absent
<1> QED
  BY <1>1, <1>2, <1>3 DEF HoldInv, MembersApart, BatchHolds, BatchedIsHeld, BatchNeeds, Absent

\* A committed batch holds each of its members and no other job is Batched: through
\* reopenings, cascades, members that overlap in drafts, refused commits and the
\* chores of each handler.  Only for orderly plans: a handler that is cut short
\* leaves a batch with half its members, and so does a member revoked by hand.
THEOREM MembersHeld ==
    ASSUME Orderly
    PROVE  Spec => []MembersAreHeld
<1>1. IInv /\ (Whole => HoldInv) => MembersAreHeld
  <2> SUFFICES ASSUME IInv, pc = "idle", crashes = 0, HoldInv
               PROVE  /\ \A b \in Jobs : Committed(b) =>
                            \A m \in members[b] : state[m] = "Batched" /\ batchId[m] = b
                      /\ \A m \in Jobs : state[m] = "Batched" =>
                            batchId[m] # None /\ Committed(batchId[m]) /\ m \in members[batchId[m]]
    BY DEF MembersAreHeld, Whole
  <2>1. /\ \A b, m \in Jobs : Committed(b) /\ m \in members[b] => Holds(b, m)
        /\ \A b, m \in Jobs : Holds(b, m) => Committed(b) /\ m \in members[b]
        /\ \A m \in Jobs : state[m] = "Batched" => batchId[m] \in Jobs /\ Holds(batchId[m], m)
    BY IdleHolds
  <2>2. \A b \in Jobs : members[b] \subseteq Jobs
    BY DEF IInv, TypeOK, RecordsTyped
  <2> QED
    BY <2>1, <2>2, NoneAssumption DEF Holds
<1>2. IInv /\ (Whole => HoldInv) /\ [Next]_vars => (Whole => HoldInv)'
  BY NextHolding
<1>3. Init => (Whole => HoldInv)
  BY InitHolding
<1> QED
  BY <1>1, <1>2, <1>3, InitHolds, NextHolds, PTL DEF Spec
-----------------------------------------------------------------------------
(* The job graph implements Precedence.                                     *)

\* No restart comes between the steps of a handler that deals with a batch.
Untorn == \A p \in Plans : p.jobs \cap Batches = {} \/ p.crashes = 0

Over(k) == state[k] = "Done" \/ k \in Carried

\* A step of which Precedence sees nothing.
LEMMA Unseen ==
    ASSUME \A k \in Jobs : /\ Exists(k)' <=> Exists(k)
                           /\ Exists(k) => deps'[k] = deps[k]
                           /\ state'[k] = "Work" <=> state[k] = "Work"
                           /\ Over(k)' <=> Over(k)
    PROVE  UNCHANGED P!vars
<1>1. [k \in Jobs |-> IF Exists(k)' THEN deps'[k] ELSE {}]
        = [k \in Jobs |-> IF Exists(k) THEN deps[k] ELSE {}]
  OBVIOUS
<1>2. {k \in Jobs : state'[k] = "Work"} = {k \in Jobs : state[k] = "Work"}
  OBVIOUS
<1>3. {k \in Jobs : state'[k] = "Done"} \cup Carried' = {k \in Jobs : state[k] = "Done"} \cup Carried
  <2>1. Carried \subseteq Jobs /\ Carried' \subseteq Jobs
    BY DEF Carried
  <2> QED
    BY <2>1 DEF Over
<1> QED
  BY <1>1, <1>2, <1>3 DEF P!vars, Exists

\* Whether a member is carried, when its batch keeps it.
LEMMA CarriedIs ==
    ASSUME NEW k \in Jobs
    PROVE  /\ k \in Carried <=> \E b \in Batches : state[b] = "Done" /\ Holds(b, k)
           /\ k \in Carried' <=> \E b \in Batches : state'[b] = "Done" /\ Holds(b, k)'
BY DEF Carried, Holds

LEMMA CarriedSame ==
    ASSUME Batches \subseteq Jobs,
           \A k \in Jobs : /\ state'[k] = "Done" <=> state[k] = "Done"
                           /\ \A b \in Jobs : Holds(b, k)' <=> Holds(b, k)
    PROVE  \A k \in Jobs : Over(k)' <=> Over(k)
<1>1. \A k \in Jobs : k \in Carried' <=> k \in Carried
  BY CarriedIs
<1> QED
  BY <1>1 DEF Over

\* A step that changes one job which is neither worked on nor over, and leaves it so.
LEMMA Revised ==
    ASSUME NEW j \in Jobs, UNCHANGED batchId,
           \A k \in Jobs \ {j} : state'[k] = state[k] /\ deps'[k] = deps[k],
           state[j] \notin {"Work", "Done", "Batched"},
           state'[j] \notin {"Work", "Done", "Batched", Absent},
           deps'[j] \subseteq Jobs
    PROVE  P!Revise(j)
<1>1. \A k \in Jobs : Over(k)' <=> Over(k)
  BY CarriedSame, JobsAssumption DEF Holds
<1>2. ~Over(j)
  BY DEF Over, Carried
<1>3. \A k \in Jobs : state'[k] = "Work" <=> state[k] = "Work"
  OBVIOUS
<1>4. {k \in Jobs : state'[k] = "Work"} = {k \in Jobs : state[k] = "Work"}
  BY <1>3
<1>5. {k \in Jobs : state'[k] = "Done"} \cup Carried' = {k \in Jobs : state[k] = "Done"} \cup Carried
  <2>1. Carried \subseteq Jobs /\ Carried' \subseteq Jobs
    BY DEF Carried
  <2> QED
    BY <1>1, <2>1 DEF Over
<1>6. [k \in Jobs |-> IF Exists(k)' THEN deps'[k] ELSE {}]
        = [[k \in Jobs |-> IF Exists(k) THEN deps[k] ELSE {}] EXCEPT ![j] = deps'[j]]
  BY DEF Exists
<1>7. j \notin {k \in Jobs : state[k] = "Work"} \cup ({k \in Jobs : state[k] = "Done"} \cup Carried)
  BY <1>2 DEF Over
<1> QED
  BY <1>4, <1>5, <1>6, <1>7 DEF P!Revise, Exists

\* The author's steps revise what a job needs.
LEMMA AuthoringRevises ==
    ASSUME IInv, IInv', NEW j \in Jobs,
           \/ CreateJob(j) \/ UpdateJob(j) \/ EditLabels(j) \/ DraftJob(j) \/ FinalizeJob(j)
           \/ ReleaseJob(j) \/ RefuseRelease(j) \/ CreateBatch(j) \/ EditMembers(j)
    PROVE  P!Revise(j)
<1>1. UNCHANGED batchId /\ state[j] \in {Absent, "Draft", "Frozen"}
  BY DEF CreateJob, UpdateJob, EditLabels, DraftJob, FinalizeJob, ReleaseJob, RefuseRelease,
     ReleaseOpen, CreateBatch, EditMembers, Planned, Exists, IInv, GraphIsRecord
<1>2. \/ state'[j] \in {"Draft", "Frozen", "Ready", "Blocked"}
      /\ \A k \in Jobs \ {j} : state'[k] = state[k] /\ deps'[k] = deps[k]
  <2>1. CASE CreateJob(j)
    BY <2>1 DEF CreateJob, IInv, TypeOK, RecordsTyped
  <2>2. CASE CreateBatch(j)
    BY <2>2 DEF CreateBatch, IInv, TypeOK, RecordsTyped
  <2>3. CASE UpdateJob(j) \/ EditMembers(j)
    BY <2>3 DEF UpdateJob, EditMembers, IInv, TypeOK, RecordsTyped
  <2>4. CASE EditLabels(j)
    BY <1>1, <2>4 DEF EditLabels, Exists, IInv, TypeOK, RecordsTyped
  <2>5. CASE DraftJob(j) \/ FinalizeJob(j)
    BY <2>5 DEF DraftJob, FinalizeJob, IInv, TypeOK, RecordsTyped
  <2>6. CASE ReleaseJob(j)
    BY <2>6 DEF ReleaseJob, IInv, TypeOK, RecordsTyped
  <2>7. CASE RefuseRelease(j)
    BY <1>1, <2>7 DEF RefuseRelease, ReleaseOpen, IInv, TypeOK, RecordsTyped
  <2> QED
    BY <2>1, <2>2, <2>3, <2>4, <2>5, <2>6, <2>7
<1>3. deps'[j] \subseteq Jobs
  BY DEF IInv, TypeOK, RecordsTyped
<1> QED
  BY <1>1, <1>2, <1>3, Revised DEF Absent

\* A job that is worked on is abandoned; any other has its needs settled as they are.
LEMMA RevokeSeen ==
    ASSUME IInv, IInv', HoldInv, Orderly, NEW j \in Jobs, Revoke(j)
    PROVE  P!Revise(j) \/ P!Abandon(j)
<1>1. /\ UNCHANGED batchId
      /\ \A k \in Jobs : /\ state'[k] = IF k = j THEN "Revoked" ELSE state[k]
                         /\ deps'[k] = IF k = j THEN graph[j] ELSE deps[k]
  BY DEF Revoke, IInv, TypeOK, RecordsTyped
<1>2. state[j] \notin {"Done", "Batched"}
  BY PlanIsOrderly DEF Revoke, Terminal, Disruptions
<1>3. CASE state[j] # "Work"
  <2>1. deps'[j] \subseteq Jobs
    BY DEF IInv, TypeOK, RecordsTyped
  <2> QED
    BY <1>1, <1>2, <1>3, <2>1, Revised DEF Absent
<1>4. CASE state[j] = "Work"
  <2>1. \A k \in Jobs : /\ deps'[k] = deps[k] /\ (Exists(k)' <=> Exists(k))
                        /\ state'[k] = "Work" <=> state[k] = "Work" /\ k # j
                        /\ state'[k] = "Done" <=> state[k] = "Done"
    BY <1>1, <1>4 DEF Exists, Absent, IInv, GraphIsRecord
  <2>2. \A k \in Jobs : Over(k)' <=> Over(k)
    <3>1. \A k, b \in Jobs : Holds(b, k)' <=> Holds(b, k)
      BY <1>1, <1>2 DEF Holds
    <3> QED
      BY <2>1, <3>1, CarriedSame, JobsAssumption
  <2>3. [k \in Jobs |-> IF Exists(k)' THEN deps'[k] ELSE {}]
          = [k \in Jobs |-> IF Exists(k) THEN deps[k] ELSE {}]
    BY <2>1
  <2>4. {k \in Jobs : state'[k] = "Work"} = {k \in Jobs : state[k] = "Work"} \ {j}
    BY <2>1
  <2>5. {k \in Jobs : state'[k] = "Done"} \cup Carried' = {k \in Jobs : state[k] = "Done"} \cup Carried
    <3>1. Carried \subseteq Jobs /\ Carried' \subseteq Jobs
      BY DEF Carried
    <3> QED
      BY <2>2, <3>1 DEF Over
  <2> QED
    BY <1>4, <2>3, <2>4, <2>5 DEF P!Abandon, Exists
<1> QED
  BY <1>3, <1>4

\* Steps on a job that waits, which leave its needs as they are.
LEMMA WaitingSeen ==
    ASSUME IInv, NEW j \in Jobs,
           RevokeTarget(j) \/ TryUnblock(j) \/ DeadlineScan(j) \/ PreworkRetry(j)
    PROVE  P!Revise(j) \/ UNCHANGED P!vars
<1>1. /\ UNCHANGED <<batchId, deps>>
      /\ \A k \in Jobs \ {j} : state'[k] = state[k]
      /\ \/ state'[j] = state[j]
         \/ /\ state[j] \in {"Frozen", "Blocked", "Ready", "Stalled"}
            /\ state'[j] \in {"Ready", "Stalled", "Revoked"}
  <2>1. CASE RevokeTarget(j)
    <3>1. state[j] \in {"Frozen", "Blocked", "Ready"}
      BY <2>1, DoingIs DEF RevokeTarget
    <3> QED
      BY <2>1, <3>1 DEF RevokeTarget, IInv, TypeOK, RecordsTyped
  <2>2. CASE TryUnblock(j)
    BY <2>2 DEF TryUnblock, IInv, TypeOK, RecordsTyped
  <2>3. CASE DeadlineScan(j) \/ PreworkRetry(j)
    BY <2>3 DEF DeadlineScan, PreworkRetry, IInv, TypeOK, RecordsTyped
  <2> QED
    BY <2>1, <2>2, <2>3
<1>2. CASE state'[j] = state[j]
  <2>1. \A k \in Jobs : state'[k] = state[k]
    BY <1>1, <1>2
  <2>2. \A k \in Jobs : Over(k)' <=> Over(k)
    BY <1>1, <2>1, CarriedSame, JobsAssumption DEF Holds
  <2> QED
    BY <1>1, <2>1, <2>2, Unseen DEF Exists
<1>3. CASE state'[j] # state[j]
  <2>1. deps'[j] \subseteq Jobs
    BY <1>1 DEF IInv, TypeOK, RecordsTyped
  <2> QED
    BY <1>1, <1>3, <2>1, Revised DEF Absent
<1> QED
  BY <1>2, <1>3

\* The records of jobs stand.
LEMMA StillSeen ==
    ASSUME UNCHANGED <<state, deps, batchId>>
    PROVE  UNCHANGED P!vars
<1>1. \A k \in Jobs : Over(k)' <=> Over(k)
  BY CarriedSame, JobsAssumption DEF Holds
<1> QED
  BY <1>1, Unseen DEF Exists

LEMMA StartSeen ==
    ASSUME IInv, StartJob
    PROVE  (\E j \in Jobs : P!Start(j)) \/ UNCHANGED P!vars
<1> DEFINE h == Head(queue)
<1>1. UNCHANGED <<deps, batchId>>
  BY DEF StartJob
<1>2. CASE h \in Jobs /\ state[h] = "Ready"
  <2>1. \A k \in Jobs : state'[k] = IF k = h THEN "Work" ELSE state[k]
    BY <1>2 DEF StartJob, IInv, TypeOK, RecordsTyped
  <2>2. \A d \in deps[h] : state[d] = "Done"
    BY <1>2 DEF IInv, AdmittedOnDoneDeps
  <2>3. deps[h] \subseteq Jobs
    BY <1>2 DEF IInv, TypeOK, RecordsTyped
  <2> HIDE DEF h
  <2>4. \A k \in Jobs : Over(k)' <=> Over(k)
    BY <1>1, <1>2, <2>1, CarriedSame, JobsAssumption DEF Holds
  <2>5. [k \in Jobs |-> IF Exists(k)' THEN deps'[k] ELSE {}]
          = [k \in Jobs |-> IF Exists(k) THEN deps[k] ELSE {}]
    BY <1>1, <1>2, <2>1 DEF Exists, Absent
  <2>6. {k \in Jobs : state'[k] = "Work"} = {k \in Jobs : state[k] = "Work"} \cup {h}
    BY <1>2, <2>1
  <2>7. /\ Carried \subseteq Jobs /\ Carried' \subseteq Jobs
        /\ {k \in Jobs : state'[k] = "Done"} \cup Carried' = {k \in Jobs : state[k] = "Done"} \cup Carried
    <3>1. Carried \subseteq Jobs /\ Carried' \subseteq Jobs
      BY DEF Carried
    <3> QED
      BY <2>4, <3>1 DEF Over
  <2>8. h \notin {k \in Jobs : state[k] = "Work"} \cup ({k \in Jobs : state[k] = "Done"} \cup Carried)
    BY <1>2 DEF Carried
  <2>9. [k \in Jobs |-> IF Exists(k) THEN deps[k] ELSE {}][h]
          \subseteq {k \in Jobs : state[k] = "Done"} \cup Carried
    BY <1>2, <2>2, <2>3
  <2> QED
    BY <1>2, <2>5, <2>6, <2>7, <2>8, <2>9 DEF P!Start, Exists
<1>3. CASE ~(h \in Jobs /\ state[h] = "Ready")
  <2>1. \A k \in Jobs : state'[k] = state[k]
    BY <1>3 DEF StartJob, IInv, TypeOK, RecordsTyped
  <2> HIDE DEF h
  <2>2. \A k \in Jobs : Over(k)' <=> Over(k)
    BY <1>1, <2>1, CarriedSame, JobsAssumption DEF Holds
  <2> QED
    BY <1>1, <2>1, <2>2, Unseen DEF Exists
<1> QED
  BY <1>2, <1>3

\* A batch that completes finishes with the members it holds: what each needs is
\* needed by the batch, or is a member as well.
LEMMA CompleteSeen ==
    ASSUME IInv, HoldInv, NEW j \in Jobs, CompleteJob(j)
    PROVE  P!Finish(j)
<1> DEFINE group == {m \in Jobs : j \in Batches /\ Holds(j, m)}
           over == {k \in Jobs : state[k] = "Done"} \cup Carried
           needs == [k \in Jobs |-> IF Exists(k) THEN deps[k] ELSE {}]
<1>1. /\ pc # "handler" /\ state[j] = "Work" /\ UNCHANGED <<members, batchId, deps>>
      /\ \A k \in Jobs : state'[k] = IF k = j THEN "Done" ELSE state[k]
  BY DEF CompleteJob, Idle, IInv, TypeOK, RecordsTyped
<1>2. /\ \A c, m \in Jobs : Committed(c) /\ m \in members[c] => Holds(c, m)
      /\ \A c, m \in Jobs : Holds(c, m) => Committed(c) /\ m \in members[c]
  BY <1>1, IdleHolds
<1>3. [k \in Jobs |-> IF Exists(k)' THEN deps'[k] ELSE {}] = needs
  BY <1>1 DEF Exists, Absent
<1>4. {k \in Jobs : state'[k] = "Work"} = {k \in Jobs : state[k] = "Work"} \ {j}
  BY <1>1
<1>5. \A b, k \in Jobs : Holds(b, k)' <=> Holds(b, k)
  BY <1>1 DEF Holds
<1>6. ASSUME NEW k \in Jobs
      PROVE  k \in Carried' <=> k \in Carried \/ k \in group
  BY <1>1, <1>5, CarriedIs, JobsAssumption
<1>7. {k \in Jobs : state'[k] = "Done"} \cup Carried' = over \cup group \cup {j}
  <2>1. Carried \subseteq Jobs /\ Carried' \subseteq Jobs
    BY DEF Carried
  <2>2. \A k \in Jobs : state'[k] = "Done" <=> state[k] = "Done" \/ k = j
    BY <1>1
  <2>3. group \subseteq Jobs
    OBVIOUS
  <2> HIDE DEF group
  <2> QED
    BY <1>6, <2>1, <2>2, <2>3
<1>8. \A m \in group : m \notin {k \in Jobs : state[k] = "Work"} \cup over
  <2> SUFFICES ASSUME NEW m \in group PROVE state[m] \notin {"Work", "Done"} /\ m \notin Carried
    OBVIOUS
  <2>1. state[m] = "Batched" /\ batchId[m] = j
    BY DEF Holds
  <2> QED
    BY <1>1, <2>1 DEF Carried
<1>9. ASSUME NEW m \in group
      PROVE  needs[m] \subseteq over \cup group \cup {j}
  <2>1. m \in Jobs /\ Holds(j, m) /\ Committed(j) /\ m \in members[j]
    BY <1>2
  <2>2. deps[m] \subseteq deps[j] \cup members[j]
    BY <2>1 DEF HoldInv, BatchNeeds
  <2>3. deps[j] \subseteq over
    BY <1>1 DEF IInv, AdmittedOnDoneDeps, TypeOK, RecordsTyped
  <2>4. members[j] \subseteq group
    <3>1. j \in Batches /\ members[j] \subseteq Jobs
      BY <2>1 DEF HoldInv, MembersApart, IInv, TypeOK, RecordsTyped
    <3> QED
      BY <1>2, <2>1, <3>1
  <2>5. needs[m] \subseteq deps[m]
    BY <2>1
  <2> HIDE DEF group, over, needs
  <2> QED
    BY <2>2, <2>3, <2>4, <2>5
<1>10. group \in SUBSET (Jobs \ ({k \in Jobs : state[k] = "Work"} \cup over))
  BY <1>8
<1>11. j \in {k \in Jobs : state[k] = "Work"}
  BY <1>1
<1> HIDE DEF group
<1> QED
  BY <1>3, <1>4, <1>7, <1>9, <1>10, <1>11 DEF P!Finish, Exists

\* The chores that write the records of members: their batch has told all.
LEMMA MemberSeen ==
    ASSUME IInv, HoldInv, NEW m \in Jobs, Absorb(m) \/ Unbatch(m) \/ FinishMember(m)
    PROVE  UNCHANGED P!vars
<1> DEFINE b == Head(todo).batch
           op == Head(todo).op
<1>1. /\ op \in {"absorb", "unbatch", "finish"} /\ todo # <<>> /\ m \in Head(todo).jobs
      /\ todo[1] = Head(todo) /\ 1 \in 1..Len(todo) /\ UNCHANGED deps
  BY DEF Absorb, Unbatch, FinishMember, Doing, IInv, TypeOK, ActorTyped
<1>2. b \in Jobs /\ Pending(op, b, m)
  BY <1>1 DEF HoldInv, Owned, Pending, Within
<1>3. \A k \in Jobs \ {m} : state'[k] = state[k] /\ batchId'[k] = batchId[k]
  BY DEF Absorb, Unbatch, FinishMember, IInv, TypeOK, RecordsTyped
<1>4. m \in members[b] /\ m \notin Batches
  BY <1>1, <1>2 DEF HoldInv, BatchHolds, MembersApart
<1>5. b \in Batches
  BY <1>2, <1>4 DEF HoldInv, MembersApart
<1>6. /\ state[m] \in {"Frozen", "Batched"} \/ state'[m] = state[m]
      /\ state'[m] \in {"Frozen", "Batched", "Done"} \/ state'[m] = state[m]
      /\ Over(m)' <=> Over(m)
  <2>1. CASE Absorb(m)
    <3>1. /\ state[m] = "Frozen" /\ state'[m] = "Batched" /\ batchId'[m] = b
          /\ op = "absorb"
      BY <2>1, DoingIs DEF Absorb, Doing, IInv, TypeOK, RecordsTyped
    <3>2. state[b] # "Done"
      BY <1>2, <3>1 DEF HoldInv, BatchHolds, Committed
    <3>3. b # m /\ state'[b] # "Done"
      BY <1>2, <1>3, <1>4, <1>5, <3>2
    <3> QED
      BY <3>1, <3>3 DEF Over, Carried
  <2>2. CASE Unbatch(m)
    <3>1. op = "unbatch" /\ state[b] \in {"Draft", "Revoked"}
      BY <1>2, <2>2 DEF HoldInv, BatchHolds, Unbatch, Doing
    <3>2. /\ state[m] = "Batched" => batchId[m] = b /\ state'[m] = "Frozen"
          /\ state[m] # "Batched" => state'[m] = state[m]
      BY <1>2, <2>2, <3>1 DEF HoldInv, BatchHolds, Unbatch, IInv, TypeOK, RecordsTyped
    <3> QED
      BY <3>1, <3>2 DEF Over, Carried
  <2>3. CASE FinishMember(m)
    <3>1. op = "finish" /\ state'[m] = "Done"
      BY <2>3 DEF FinishMember, Doing, IInv, TypeOK, RecordsTyped
    <3>2. state[b] = "Done" /\ Holds(b, m)
      BY <1>2, <3>1 DEF HoldInv, BatchHolds
    <3>3. m \in Carried
      BY <1>5, <3>2 DEF Carried, Holds
    <3> QED
      BY <3>1, <3>2, <3>3 DEF Over, Holds
  <2> QED
    BY <2>1, <2>2, <2>3
<1> HIDE DEF b, op
<1>7. \A k \in Jobs \ {m} : Over(k)' <=> Over(k)
  <2> SUFFICES ASSUME NEW k \in Jobs \ {m} PROVE k \in Carried' <=> k \in Carried
    BY <1>3 DEF Over
  <2>1. \A c \in Batches : /\ state'[c] = state[c]
                           /\ Holds(c, k)' <=> Holds(c, k)
    BY <1>3, <1>4, JobsAssumption DEF Holds
  <2> QED
    BY <2>1, CarriedIs
<1>8. \A k \in Jobs : Over(k)' <=> Over(k)
  BY <1>6, <1>7
<1> QED
  BY <1>1, <1>3, <1>6, <1>8, Unseen DEF Exists, Absent

LEMMA InitSeen == Init => P!Init
<1> SUFFICES ASSUME Init PROVE P!Init
  OBVIOUS
<1>1. \A k \in Jobs : state[k] = Absent
  BY DEF Init
<1>2. Carried = {} /\ {k \in Jobs : state[k] = "Work"} = {} /\ {k \in Jobs : state[k] = "Done"} = {}
  BY <1>1, JobsAssumption DEF Carried, Absent
<1> QED
  BY <1>1, <1>2 DEF P!Init, Exists

LEMMA NextSeen ==
    ASSUME Orderly, IInv, IInv', HoldInv, [Next]_vars
    PROVE  [P!Next]_P!vars
<1>1. ASSUME NEW j \in Jobs, Authoring(j) PROVE P!Next
  BY <1>1, AuthoringRevises, RevokeSeen DEF Authoring, P!Next
<1>2. ASSUME NEW j \in Jobs, CompleteJob(j) \/ DeadlineScan(j) \/ PreworkRetry(j)
      PROVE  P!Next \/ UNCHANGED P!vars
  BY <1>2, CompleteSeen, WaitingSeen DEF P!Next
<1>3. ASSUME NEW b \in Batches, BatchAuthoring(b) PROVE P!Next
  BY <1>3, AuthoringRevises, JobsAssumption DEF BatchAuthoring, P!Next
<1>4. ASSUME ChoreStep PROVE P!Next \/ UNCHANGED P!vars
  <2>1. ASSUME NEW j \in Jobs, FinishRefused(j) PROVE UNCHANGED P!vars
    BY <2>1, StillSeen DEF FinishRefused, record
  <2> QED
    BY <1>4, <2>1, MemberSeen, WaitingSeen DEF ChoreStep, P!Next
<1>5. CASE Scheduling
  <2>1. CASE StartJob
    BY <2>1, StartSeen DEF P!Next
  <2>2. CASE StartFails \/ DrainAgain
    BY <2>2, StillSeen DEF StartFails, DrainAgain, record
  <2> QED
    BY <1>5, <2>1, <2>2 DEF Scheduling
<1>6. CASE HandlerFails \/ Crash \/ UNCHANGED vars
  BY <1>6, StillSeen DEF HandlerFails, Crash, vars, record
<1> QED
  BY <1>1, <1>2, <1>3, <1>4, <1>5, <1>6 DEF Next

\* Work starts only on dependencies that are finished, which are settled by then;
\* and a job that completes finishes alone or, being a batch, with all its members
\* and everything they need: for every orderly plan whose restarts, if any, come
\* to a project without batches.
THEOREM PrecedenceIsKept ==
    ASSUME Orderly, Untorn
    PROVE  Spec => ImplementsPrecedence
<1>1. IInv => Whole
  BY DEF IInv, TypeOK, BoundsTyped, Untorn, Whole, NoBatches
<1>2. IInv /\ (Whole => HoldInv) /\ [Next]_vars => (Whole => HoldInv)'
  BY NextHolding
<1>3. Init => (Whole => HoldInv)
  BY InitHolding
<1>4. IInv /\ IInv' /\ (Whole => HoldInv) /\ [Next]_vars => [P!Next]_P!vars
  BY <1>1, NextSeen
<1> QED
  BY <1>2, <1>3, <1>4, InitHolds, NextHolds, InitSeen, PTL DEF Spec, P!Spec, ImplementsPrecedence
================================================================================
