------------------------------ MODULE Precedence ------------------------------
(***************************************************************************)
(* What the job graph promises: a job is worked on only when everything it *)
(* needs is finished, what it needs is settled by then, and jobs finish    *)
(* one by one or as a group, each with all it needs finished before it or  *)
(* in the same group.                                                      *)
(***************************************************************************)
EXTENDS FiniteSets

CONSTANT Jobs
VARIABLES needs, started, finished

vars == <<needs, started, finished>>

Init ==
    /\ needs = [j \in Jobs |-> {}]
    /\ started = {}
    /\ finished = {}

\* The author changes what a job needs, as long as it is not worked on.
Revise(j) ==
    /\ j \notin started \cup finished
    /\ \E ds \in SUBSET Jobs : needs' = [needs EXCEPT ![j] = ds]
    /\ UNCHANGED <<started, finished>>

Start(j) ==
    /\ j \notin started \cup finished
    /\ needs[j] \subseteq finished
    /\ started' = started \cup {j}
    /\ UNCHANGED <<needs, finished>>

Abandon(j) ==
    /\ j \in started
    /\ started' = started \ {j}
    /\ UNCHANGED <<needs, finished>>

\* j, which was worked on, finishes, and the jobs of `group' with it.
Finish(j) ==
    /\ j \in started
    /\ \E group \in SUBSET (Jobs \ (started \cup finished)) :
         /\ \A x \in group : needs[x] \subseteq finished \cup group \cup {j}
         /\ finished' = finished \cup group \cup {j}
    /\ started' = started \ {j}
    /\ UNCHANGED needs

Next == \E j \in Jobs : Revise(j) \/ Start(j) \/ Abandon(j) \/ Finish(j)

Spec == Init /\ [][Next]_vars
================================================================================
