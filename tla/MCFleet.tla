------------------------------- MODULE MCFleet -------------------------------
(* Fleets for Fleet: each plan is small in one direction.                    *)
EXTENDS Fleet

L(phase, agent, pin, able) == [phase |-> phase, agent |-> agent, pin |-> pin, able |-> able]

Plan(nodes, docker, seeds, ceil, tasks) ==
  [nodes |-> nodes, docker |-> docker, seeds |-> seeds, ceil |-> ceil,
   boots |-> [n \in nodes |-> {1}], seedSlots |-> 1, sizes |-> {}, most |-> 3,
   asks |-> 0, starts |-> 0, luck |-> 0, wire |-> 0, crashes |-> 0,
   tasks |-> tasks, faults |-> {}, fragile |-> {}, revocable |-> {}, endless |-> {},
   impatient |-> FALSE]

\* The capacity protocol alone: a static and a dynamic worker, asks within and
\* above the ceiling, daemon restarts, lost messages, a dispatcher restart.
Asking ==
  [Plan({1}, {}, {1}, <<2>>, <<>>) EXCEPT
     !.sizes = {0, 3}, !.asks = 2, !.luck = 1, !.wire = 2]
Swapping ==
  [Plan({1}, {}, {}, <<2>>, <<>>) EXCEPT
     !.sizes = {2}, !.asks = 1, !.starts = 1, !.luck = 1, !.wire = 1, !.crashes = 1,
     !.boots = [n \in {1} |-> {1, 3}]]

\* Evaluators on a worker and a docker endpoint that may vanish: one pinned, one
\* whose launch may fail.
Endpoints ==
  [Plan({1, 2}, {2}, {1, 2}, <<1, 1>>,
        <<L("eval", FALSE, 1, {1, 2}), L("eval", FALSE, 0, {1, 2})>>)
     EXCEPT !.starts = 1, !.fragile = {2}]
\* A work command whose launch may fail, behind another for the same slot.
Unreliable ==
  [Plan({1}, {}, {1}, <<1>>, <<L("work", FALSE, 0, {1}), L("eval", FALSE, 0, {1})>>)
     EXCEPT !.fragile = {1}]

\* Three commands for one slot, and a restart.
Crowd ==
  [Plan({1}, {}, {1}, <<1>>,
        <<L("work", FALSE, 0, {1}), L("eval", FALSE, 0, {1}), L("wrapup", FALSE, 0, {1})>>)
     EXCEPT !.crashes = 1]
Refreshing ==
  [Plan({1}, {}, {1}, <<1>>, <<L("work", FALSE, 0, {1}), L("wrapup", FALSE, 0, {1})>>)
     EXCEPT !.crashes = 1, !.faults = {"full"}, !.impatient = TRUE]

\* Two agents for one slot; the first never ends, so the other outwaits the queue.
Starved ==
  [Plan({1}, {}, {1}, <<1>>, <<L("work", TRUE, 0, {1}), L("eval", TRUE, 0, {1})>>)
     EXCEPT !.impatient = TRUE, !.endless = {1}, !.revocable = {2}, !.luck = 1,
            !.faults = {"lost"}]

\* An agent, a command and a restart that may leave a container behind.
Ghosts ==
  [Plan({1}, {}, {1}, <<1>>, <<L("work", TRUE, 0, {1}), L("eval", FALSE, 0, {1})>>)
     EXCEPT !.crashes = 1]

AllPlans == {Asking, Swapping, Endpoints, Crowd, Refreshing, Starved, Ghosts}
LostPlans == {Unreliable}
=============================================================================
