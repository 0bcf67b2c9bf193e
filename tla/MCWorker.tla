------------------------------- MODULE MCWorker -------------------------------
(* Nodes for Worker: each plan is small in one direction.                    *)
EXTENDS Worker

C(key) == [host |-> FALSE, stubborn |-> FALSE, key |-> key]
H(key) == [host |-> TRUE, stubborn |-> FALSE, key |-> key]
Deaf == [host |-> TRUE, stubborn |-> TRUE, key |-> 0]

Plan(tasks) ==
  [tasks |-> tasks, refused |-> {}, broken |-> {}, unrealised |-> {}, killable |-> {},
   scoped |-> TRUE, recycles |-> FALSE, gives |-> FALSE, refreshes |-> 0, cancels |-> 0, restarts |-> 0,
   sweeps |-> 0, rootedMax |-> 4]

\* Two refreshes, two cancels, one launch.
Cancelling == [Plan(<<H(0)>>) EXCEPT !.refreshes = 2, !.cancels = 2]
\* A refresh while a host task and a container are launched.
Swapping == [Plan(<<H(0), C(2)>>) EXCEPT !.refreshes = 1, !.cancels = 1, !.restarts = 1]
\* Two host tasks for the one slot; one may be killed.
Sharing == [Plan(<<H(1), H(0)>>) EXCEPT !.killable = {1}, !.refreshes = 1]
\* Two host tasks across a restart and a sweep, one may be killed and a launch may be
\* given up; in scopes, and without them, where they end with the daemon.
Recovering == [Plan(<<H(0), H(0)>>) EXCEPT
                 !.killable = {1}, !.gives = TRUE, !.restarts = 1, !.sweeps = 1]
Together == [Recovering EXCEPT !.scoped = FALSE, !.recycles = TRUE]
\* A host task across daemon restarts, with reused pids, in scopes and without.
Restarting == [Plan(<<H(0)>>) EXCEPT !.restarts = 2, !.recycles = TRUE, !.refreshes = 1]
Unscoped == [Restarting EXCEPT !.scoped = FALSE]
\* Two rooted containers across a restart; the daemon remembers one root.
Rooting == [Plan(<<C(1), C(2)>>) EXCEPT !.restarts = 1, !.rootedMax = 1]
\* Launches that fail, are given up or swept.
Failing == [Plan(<<C(1), C(2), H(3)>>) EXCEPT
              !.broken = {1}, !.unrealised = {2}, !.refused = {3}, !.sweeps = 1]
Sweeping == [Plan(<<H(0)>>) EXCEPT !.gives = TRUE, !.sweeps = 1, !.killable = {1}]

AllPlans == {Cancelling, Swapping, Sharing, Recovering, Together, Restarting, Unscoped,
             Rooting, Failing, Sweeping}
\* Two host tasks; the first ignores SIGTERM.
Unkillable == [Plan(<<Deaf, H(0)>>) EXCEPT !.killable = {1}]
DeafPlans == {Unkillable}
=============================================================================
