--------------------------------- MODULE Trunk ---------------------------------
(***************************************************************************)
(* What the landing pipeline promises of the default branch, in the terms  *)
(* of somebody who reads only the branch and the jobs' outcomes: nothing   *)
(* of a gated job lands without having been tested on the very position it *)
(* lands on, a release that is out for review freezes the branch, and a    *)
(* job is done only when its work is in.  Queue, gate, rework, messages    *)
(* and crashes are not visible here: MergeGate is shown to implement this. *)
(***************************************************************************)
EXTENDS Integers

CONSTANTS
    Jobs,
    Gated,       \* jobs that may land only tested
    ScratchOnly  \* jobs whose branch never lands

Untested == -1

VARIABLES
    trunk,     \* position of the default branch
    frozen,    \* a release of the default branch is out for review
    work,      \* jobs whose branch holds work
    tested,    \* tested[j]: position the branch, as it stands, passed its tests on
    landed,    \* jobs whose branch, as it stands, is in the default branch
    done       \* jobs reported as done

vars == <<trunk, frozen, work, tested, landed, done>>

Init ==
    /\ trunk = 0
    /\ frozen = FALSE
    /\ work = {}
    /\ tested = [j \in Jobs |-> Untested]
    /\ landed = {}
    /\ done = {}

\* The branch changes: it is worked on, stacked anew, or thrown away.
Change(j) ==
    /\ j \notin done
    /\ work' \in {work, work \cup {j}, work \ {j}}
    /\ landed' \in {landed, landed \ {j}}
    /\ tested' = [tested EXCEPT ![j] = Untested]
    /\ UNCHANGED <<trunk, frozen, done>>

\* The branch passes its tests, stacked on a position the trunk has had.
Test(j) ==
    /\ \E p \in 0 .. trunk : tested' = [tested EXCEPT ![j] = p]
    /\ UNCHANGED <<trunk, frozen, work, landed, done>>

\* The branch's work is taken into the trunk.
Land(j) ==
    /\ ~frozen /\ j \notin done /\ j \in work /\ j \notin ScratchOnly
    /\ tested' \in {tested, [tested EXCEPT ![j] = trunk]}
    /\ j \in Gated => tested'[j] = trunk
    /\ trunk' = trunk + 1
    /\ landed' = landed \cup {j}
    /\ UNCHANGED <<frozen, work, done>>

\* The job is done, with its work in the trunk or nothing to put there; a job
\* whose branch never lands is done when it has passed its tests.
Finish(j) ==
    /\ j \in landed \/ j \notin work \/ j \in ScratchOnly
    /\ \/ tested' = tested
       \/ j \in ScratchOnly /\ \E p \in 0 .. trunk : tested' = [tested EXCEPT ![j] = p]
    /\ done' = done \cup {j}
    /\ UNCHANGED <<trunk, frozen, work, landed>>

\* A release goes out for review; it comes back as a position of the trunk, or
\* is withdrawn; and commits arrive from outside while none is out.
Freeze == ~frozen /\ frozen' = TRUE /\ UNCHANGED <<trunk, work, tested, landed, done>>
Thaw == frozen /\ frozen' = FALSE /\ UNCHANGED <<trunk, work, tested, landed, done>>
Merged ==
    /\ trunk' = trunk + 1
    /\ frozen' = FALSE
    /\ UNCHANGED <<work, tested, landed, done>>

Next ==
    \/ \E j \in Jobs : Change(j) \/ Test(j) \/ Land(j) \/ Finish(j)
    \/ Freeze \/ Thaw \/ Merged

Spec == Init /\ [][Next]_vars
================================================================================
