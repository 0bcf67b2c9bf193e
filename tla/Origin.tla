-------------------------------- MODULE Origin ---------------------------------
(***************************************************************************)
(* A project linked to an origin.  Jobs land on the local integration      *)
(* branch; a release pushes a snapshot of it, opens a pull request and     *)
(* holds the landing queue; a sync takes over what became of it.           *)
(*                                                                         *)
(* Handlers run one at a time (`op' is the one that runs), but each of     *)
(* their calls is a step: the origin moves, a call fails or the process    *)
(* dies between any two.  A branch is the set of commits it reaches, each  *)
(* with the changes it brings.  The queue and its gate are MergeGate's, seen   *)
(* from outside: a gate is opened on a head and ends.                      *)
(***************************************************************************)
EXTENDS Integers, Sequences, FiniteSets, SequencesExt

CONSTANTS Plans,  \* the projects to explore
          None

\* A plan says of a project:
\*   linked       it has an origin;  github  one with pull requests
\*   landings     changes its jobs make
\*   pushes       changes others push to the origin's main branch
\*   methods      ways a pull request is merged: "merge", "squash"
\*   releases, drains, crashes, failures     bounds on what happens
ASSUME PlansAssumption == \A p \in Plans : p.releases \in Nat

VARIABLES
    plan,
    main,         \* the origin's main branch
    branches,     \* branches[n]: what was pushed as chug/release-n, or {}
    prs,          \* prs[n]: what became of the pull request of release n
    fetched,      \* refs/remotes/origin/main
    integration,  \* the local default branch
    pins,         \* pins[n]: refs/chug/release-n, or {}
    record,       \* ProjectRecord: counter, and the latest release
    held,         \* release_holds has the project
    queue, gate,  \* merge_gates: jobs that wait, and [job, on] of the open gate
    draining,     \* the dispatcher takes nothing new
    op,           \* the origin handler that runs, and what it has read
    landed,       \* changes that have landed
    spent         \* bounded events so far

originVars == <<main, branches, prs>>
repoVars == <<fetched, integration, pins, landed>>
coreVars == <<record, held, queue, gate, draining>>
projectVars == <<originVars, repoVars, coreVars, op, spent>>

Spend(what) ==
  /\ spent[what] < plan[what]
  /\ spent' = [spent EXCEPT ![what] = @ + 1]

Idle == op.at = "idle"
Returns == op' = [at |-> "idle"]
Goes(stage) == op' = [op EXCEPT !.at = stage]

IsOpen == record.release # None /\ record.release.status = "Open"

\* git: a commit on top of a branch, a merge of another branch, what rev-list
\* base..branch finds, and the changes a branch holds.
Commit(branch, id, changes) == branch \cup {[id |-> id, changes |-> changes]}
MergeOf(branch, n, other) == Commit(branch \cup other, <<"merge", n>>, {})
Beyond(base, branch) == branch \ base # {}
Changes(branch) == UNION {commit.changes : commit \in branch}

-----------------------------------------------------------------------------
(* The landing queue.                                                       *)

\* pump_merges, as far as the next gate.
Pumped(waiting, open, stopped, head) ==
  IF open # None \/ stopped \/ waiting = <<>>
  THEN queue' = waiting /\ gate' = open
  ELSE queue' = Tail(waiting) /\ gate' = [job |-> Head(waiting), on |-> head]

Queued == ToSet(queue) \cup (IF gate = None THEN {} ELSE {gate.job})

Enqueue(j) ==
  /\ Idle /\ j \notin Queued \cup landed
  /\ Pumped(Append(queue, j), gate, held \/ draining, integration)
  /\ UNCHANGED <<originVars, repoVars, record, held, draining, op, spent>>

\* A gate that passes on the head it was opened on lands its job; on another
\* the promote is refused.
Land ==
  /\ Idle /\ gate # None /\ gate.on = integration
  /\ integration' = Commit(integration, <<"job", gate.job>>, {gate.job})
  /\ landed' = landed \cup {gate.job}
  /\ Pumped(queue, None, held \/ draining, integration')
  /\ UNCHANGED <<originVars, fetched, pins, record, held, draining, op>>

GateEnds ==
  /\ Idle /\ gate # None
  /\ Pumped(queue, None, held \/ draining, integration)
  /\ UNCHANGED <<originVars, repoVars, record, held, draining, op, spent>>

-----------------------------------------------------------------------------
(* origin_release.                                                          *)

ReleaseInGate == ~IsOpen
ReleaseAllowed == ~IsOpen /\ gate = None

Release ==
  /\ Idle /\ plan.linked /\ ReleaseAllowed
  /\ op' = [at |-> "fetch", base |-> None, number |-> record.counter + 1]
  /\ UNCHANGED <<originVars, repoVars, coreVars>> /\ Spend("releases")

\* fetch_origin, and is there anything to release
ReleaseFetch ==
  /\ op.at = "fetch"
  /\ fetched' = main
  /\ IF Beyond(main, integration)
     THEN op' = [op EXCEPT !.at = "count", !.base = main]
     ELSE Returns
  /\ UNCHANGED <<originVars, integration, pins, landed, coreVars, spent>>

\* The number is taken before it is used.
ReleaseCount ==
  /\ op.at = "count" /\ Goes("pin")
  /\ record' = [record EXCEPT !.counter = op.number]
  /\ UNCHANGED <<originVars, repoVars, held, queue, gate, draining, spent>>

ReleasePin ==
  /\ op.at = "pin" /\ Goes("push")
  /\ pins' = [pins EXCEPT ![op.number] = integration]
  /\ UNCHANGED <<originVars, fetched, integration, landed, coreVars, spent>>

ReleasePush ==
  /\ op.at = "push" /\ Goes(IF plan.github THEN "pr" ELSE "open")
  /\ branches' = [branches EXCEPT ![op.number] = integration]
  /\ UNCHANGED <<main, prs, repoVars, coreVars, spent>>

\* create_pr: the answer may be lost.
ReleasePr ==
  /\ op.at = "pr"
  /\ prs' = [prs EXCEPT ![op.number] = "open"]
  /\ \/ Goes("open") /\ UNCHANGED spent
     \/ Returns /\ Spend("failures")
  /\ UNCHANGED <<main, branches, repoVars, coreVars>>

ReleaseOpen ==
  /\ op.at = "open" /\ Returns
  /\ record' = [record EXCEPT !.release =
                  [number |-> op.number, base |-> op.base, status |-> "Open"]]
  /\ held' = TRUE
  /\ UNCHANGED <<originVars, repoVars, queue, gate, draining, spent>>

-----------------------------------------------------------------------------
(* origin_sync, and origin_status while a release is open.                  *)

Sync ==
  /\ Idle /\ plan.linked
  /\ op' = [at |-> "sync", base |-> None]
  /\ UNCHANGED <<originVars, repoVars, coreVars, spent>>

\* Without an open release the branch follows the origin unless it has work of
\* its own, an open gate or not.
Follows(upstream) == integration # upstream /\ ~Beyond(upstream, integration)

SyncFetch ==
  /\ op.at = "sync"
  /\ fetched' = main
  /\ IF ~IsOpen
     THEN /\ Returns
          /\ integration' = IF Follows(main) THEN main ELSE integration
     ELSE /\ IF plan.github THEN op' = [at |-> "ask", base |-> main]
             ELSE IF main # record.release.base THEN op' = [at |-> "reset", base |-> main]
             ELSE Returns
          /\ UNCHANGED integration
  /\ UNCHANGED <<originVars, pins, landed, coreVars, spent>>

\* get_pr, after the fetch.
SyncAsk ==
  /\ op.at = "ask"
  /\ CASE prs[record.release.number] = "merged" -> Goes("reset")
       [] prs[record.release.number] = "closed" -> Goes("closed")
       [] OTHER -> Returns
  /\ UNCHANGED <<originVars, repoVars, coreVars, spent>>

SyncReset ==
  /\ op.at = "reset" /\ Goes("merged")
  /\ integration' = op.base
  /\ UNCHANGED <<originVars, fetched, pins, landed, coreVars, spent>>

\* The record, then the hold, then the queue.
SyncSettle ==
  /\ op.at \in {"merged", "closed"} /\ Returns
  /\ record' = [record EXCEPT !.release.status = IF op.at = "merged" THEN "Merged" ELSE "Closed"]
  /\ held' = FALSE
  /\ Pumped(queue, gate, draining, integration)
  /\ UNCHANGED <<originVars, repoVars, draining, spent>>

\* A call of a handler fails: the caller gets the error, nothing is undone.
CallFails ==
  /\ ~Idle /\ Returns /\ Spend("failures")
  /\ UNCHANGED <<originVars, repoVars, coreVars>>

-----------------------------------------------------------------------------
(* The origin, which others use too.                                        *)

MergePr(n, method) ==
  /\ prs[n] = "open" /\ method \in plan.methods
  /\ prs' = [prs EXCEPT ![n] = "merged"]
  /\ main' = IF method = "squash"
             THEN Commit(main, <<"squash", n>>, Changes(branches[n]))
             ELSE MergeOf(main, n, branches[n])
  /\ UNCHANGED <<branches, repoVars, coreVars, op, spent>>

ClosePr(n) ==
  /\ prs[n] = "open"
  /\ prs' = [prs EXCEPT ![n] = "closed"]
  /\ UNCHANGED <<main, branches, repoVars, coreVars, op, spent>>

\* Without pull requests somebody merges the pushed branch by hand.
MergeBranch(n) ==
  /\ ~plan.github /\ Beyond(main, branches[n])
  /\ main' = MergeOf(main, n, branches[n])
  /\ UNCHANGED <<branches, prs, repoVars, coreVars, op, spent>>

PushMain(c) ==
  /\ c \notin Changes(main)
  /\ main' = Commit(main, <<"push", c>>, {c})
  /\ UNCHANGED <<branches, prs, repoVars, coreVars, op, spent>>

-----------------------------------------------------------------------------
(* Drain, crash and restart.                                                *)

Drain ==
  /\ Idle /\ ~draining /\ draining' = TRUE
  /\ UNCHANGED <<originVars, repoVars, record, held, queue, gate, op>> /\ Spend("drains")

\* Jobs that wait to land and the one in the gate are found again in their
\* records; the hold is rebuilt before the queue moves.
Restarts ==
  /\ Returns
  /\ draining' = FALSE
  /\ held' = IsOpen
  /\ Pumped(IF gate = None THEN queue ELSE <<gate.job>> \o queue, None, IsOpen, integration)
  /\ UNCHANGED <<originVars, repoVars, record>>

-----------------------------------------------------------------------------
Base == Commit({}, <<"push", 0>>, {})

\* link_project: integration is the origin's main branch and the seeded
\* configuration, which is change 0.
OriginInit ==
  /\ main = Base
  /\ branches = [n \in 1 .. plan.releases |-> {}]
  /\ prs = [n \in 1 .. plan.releases |-> "none"]
  /\ fetched = Base
  /\ integration = Commit(Base, <<"seed", 0>>, {0})
  /\ pins = [n \in 1 .. plan.releases |-> {}]
  /\ record = [counter |-> 0, release |-> None]
  /\ held = FALSE
  /\ queue = <<>>
  /\ gate = None
  /\ draining = FALSE
  /\ op = [at |-> "idle"]
  /\ landed = {0}
  /\ spent = [what \in {"releases", "drains", "crashes", "failures"} |-> 0]
================================================================================
