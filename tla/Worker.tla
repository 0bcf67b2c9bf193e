-------------------------------- MODULE Worker --------------------------------
(***************************************************************************)
(* One worker node: the daemon's launch handler, its self-refresh and the  *)
(* cancel that races it, the nix GC roots it keeps for its tasks, over the *)
(* tasks of HostTasks, and the dispatcher that asks.                       *)
(*                                                                         *)
(* A launch passes the refresh gate (load, count, recheck), realises its   *)
(* environment under a root, starts its task and remembers the root.  A    *)
(* refresh builds, closes the gate, waits for the launches inside it,      *)
(* looks for host work and swaps the daemon.  Every await is a step.       *)
(***************************************************************************)
EXTENDS HostTasks

CONSTANT Numbers    \* task numbers, at least those of every plan

ASSUME NumbersAssumption ==
  /\ IsFiniteSet(Numbers) /\ Numbers \subseteq Nat \ {0}
  /\ \A p \in Plans : DOMAIN p.tasks \subseteq Numbers

\* A plan is one node to explore:
\*   tasks      <<[host, stubborn, key]>>; key 0 has no environment to root
\*   refused, broken, unrealised, killable   tasks that admit refuses, whose start
\*              or realise fails, or that the dispatcher kills
\*   scoped     host tasks survive the daemon;  recycles  pids are reused
\*   gives      an unanswered launch is given up
\*   refreshes, cancels, restarts, sweeps   bounds on what happens
\*   rootedMax  NIX_ROOTED_MAX
VARIABLES gate,     \* RefreshGate
          call,     \* where each launch handler is
          mutex,    \* who holds HostBackend.launching, 0 for nobody
          refresh,  \* run_refresh's stage, its number, and refresh_outcome is open
          cancel,   \* refresh_cancel's stage and the refresh it aims at
          told,     \* refreshes whose cancel was answered "cancelled"
          swapped,  \* refreshes that replaced the daemon
          roots,    \* GC roots: [key, by, old]
          rooted,   \* nix_rooted: the tasks whose root the daemon remembers
          pass,     \* the reaper's pass: [on, spare]
          client,   \* the dispatcher's view of each task
          killed,   \* tasks the dispatcher killed
          spent     \* bounded events so far

handlerVars == <<call, mutex>>
refreshVars == <<refresh, cancel, told, swapped>>
rootVars == <<roots, rooted, pass>>
clientVars == <<client, killed>>
vars == <<plan, hostVars, gate, handlerVars, refreshVars, rootVars, clientVars, spent>>

Key(t) == plan.tasks[t].key
Spend(what) == /\ spent[what] < plan[what]
               /\ spent' = [spent EXCEPT ![what] = @ + 1]
Same(s) == UNCHANGED <<plan, hostVars>> /\ UNCHANGED s

-----------------------------------------------------------------------------
(* GC roots, named by the task's key.                                       *)

Others(t) == {r \in roots : r.key # Key(t)}
Realised(t) ==
  IF Key(t) = 0 THEN roots ELSE Others(t) \cup {[key |-> Key(t), by |-> t, old |-> FALSE]}
Released(t) == IF Key(t) = 0 THEN roots ELSE Others(t)
\* remove: the root of the container, if this daemon remembers one
ReleasedIfHeld(t) == IF t \in rooted THEN Others(t) ELSE roots

\* A root ages to the reaper's minimum only long after its launch is over, and
\* not within one pass.
Age(r) ==
  /\ ~pass.on /\ ~r.old /\ \A t \in Tasks : Key(t) = r.key => call[t] = "none"
  /\ roots' = (roots \ {r}) \cup {[r EXCEPT !.old = TRUE]}
  /\ Same(<<gate, handlerVars, refreshVars, rooted, pass, clientVars, spent>>)

SparedHeld == {Key(t) : t \in rooted}
Spared == {Key(t) : t \in rooted} \cup {Key(t) : t \in {u \in Tasks : Status(u) = "running"}}
ReapList ==
  /\ ~pass.on /\ \E r \in roots : r.old
  /\ pass' = [on |-> TRUE, spare |-> Spared]
  /\ Same(<<gate, handlerVars, refreshVars, roots, rooted, clientVars, spent>>)

StaleYoung(r) == ~r.old
Stale(r) == r.old
Reap ==
  /\ pass.on
  /\ roots' = {r \in roots : ~(Stale(r) /\ r.key \notin pass.spare)}
  /\ pass' = [on |-> FALSE, spare |-> {}]
  /\ Same(<<gate, handlerVars, refreshVars, rooted, clientVars, spent>>)

-----------------------------------------------------------------------------
(* The launch handler.                                                      *)

Goes(t, stage) == call' = [call EXCEPT ![t] = stage]
Answers(t, reply) ==
  /\ Goes(t, "none")
  /\ client' = IF client[t] = "asked" THEN [client EXCEPT ![t] = reply] ELSE client
Leaves == gate' = [gate EXCEPT !.inflight = @ - 1]

Ask(t) ==
  /\ client[t] = "new" /\ call[t] = "none"
  /\ client' = [client EXCEPT ![t] = "asked"]
  /\ Goes(t, "load")
  /\ Same(<<gate, mutex, refreshVars, rootVars, killed, spent>>)

\* try_launch: read the flag, count the launch, read the flag again.
Load(t) ==
  /\ call[t] = "load"
  /\ IF gate.quiescing THEN Answers(t, "new") ELSE Goes(t, "count") /\ UNCHANGED client
  /\ Same(<<gate, mutex, refreshVars, rootVars, killed, spent>>)
Count(t) ==
  /\ call[t] = "count"
  /\ gate' = [gate EXCEPT !.inflight = @ + 1]
  /\ Goes(t, "recheck")
  /\ Same(<<mutex, refreshVars, rootVars, clientVars, spent>>)
RecheckSkipped(t) ==
  /\ call[t] = "recheck"
  /\ Goes(t, "realise")
  /\ Same(<<gate, mutex, refreshVars, rootVars, clientVars, spent>>)
Recheck(t) ==
  /\ call[t] = "recheck"
  /\ IF gate.quiescing
     THEN Leaves /\ Answers(t, "new")
     ELSE Goes(t, "realise") /\ UNCHANGED <<gate, client>>
  /\ Same(<<mutex, refreshVars, rootVars, killed, spent>>)

\* realise_for_launch: a realise that fails leaves no root and refuses.
Realise(t) ==
  /\ call[t] = "realise"
  /\ IF t \in plan.unrealised
     THEN roots' = Released(t) /\ Leaves /\ Answers(t, "failed")
     ELSE roots' = Realised(t) /\ Goes(t, "start") /\ UNCHANGED <<gate, client>>
  /\ Same(<<mutex, refreshVars, rooted, pass, killed, spent>>)

\* A backend that refuses the launch, has no capacity, or fails in it, gives the root back.
Fails(t, reply) == roots' = Released(t) /\ Leaves /\ Answers(t, reply)

StartHost(t) ==
  /\ call[t] = "start" /\ Host(t) /\ mutex = 0
  /\ IF t \in plan.refused
     THEN Fails(t, "failed") /\ UNCHANGED <<plan, hostVars, mutex>>
     ELSE IF Admits
     THEN /\ CreateDir(t) /\ mutex' = t /\ Goes(t, "spawn")
          /\ UNCHANGED <<gate, roots, client>>
     ELSE Fails(t, "new") /\ UNCHANGED <<plan, hostVars, mutex>>
  /\ UNCHANGED <<refreshVars, rooted, pass, killed, spent>>

SpawnHost(t) ==
  /\ call[t] = "spawn"
  /\ IF Spawns(t)
     THEN Spawn(t) /\ Goes(t, "note") /\ UNCHANGED <<gate, mutex, roots, client>>
     ELSE Fails(t, "failed") /\ mutex' = 0 /\ UNCHANGED <<plan, hostVars>>
  /\ UNCHANGED <<refreshVars, rooted, pass, killed, spent>>

\* A directory swept meanwhile fails the write: the launch fails, and the
\* process it started stays.
NoteHost(t) ==
  /\ call[t] = "note"
  /\ mutex' = 0
  /\ IF Present(t)
     THEN WriteMeta(t) /\ Goes(t, "remember") /\ UNCHANGED <<gate, roots, client>>
     ELSE Fails(t, "failed") /\ UNCHANGED <<plan, hostVars>>
  /\ UNCHANGED <<refreshVars, rooted, pass, killed, spent>>

\* DockerBackend.launch: a container that was created and would not start stays.
StartImage(t) ==
  /\ call[t] = "start" /\ ~Host(t)
  /\ IF t \notin plan.broken
     THEN StartContainer(t) /\ Goes(t, "remember") /\ UNCHANGED <<gate, roots, client>>
     ELSE CreateDir(t) /\ Fails(t, "failed")
  /\ UNCHANGED <<mutex, refreshVars, rooted, pass, killed, spent>>

Remember(t) ==
  /\ call[t] = "remember"
  /\ rooted' = IF Key(t) # 0 /\ Cardinality(rooted) < plan.rootedMax
               THEN rooted \cup {t} ELSE rooted
  /\ Leaves /\ Answers(t, "known")
  /\ Same(<<mutex, refreshVars, roots, pass, killed, spent>>)

Launching(t) == Load(t) \/ Count(t) \/ Recheck(t) \/ Realise(t) \/ StartHost(t)
                \/ SpawnHost(t) \/ NoteHost(t) \/ StartImage(t) \/ Remember(t)

-----------------------------------------------------------------------------
(* The dispatcher.                                                          *)

\* A request that outlives its timeout, or its dispatcher: nobody reads the answer.
GiveUp(t) ==
  /\ plan.gives /\ client[t] = "asked"
  /\ client' = [client EXCEPT ![t] = "failed"]
  /\ Same(<<gate, handlerVars, refreshVars, rootVars, killed, spent>>)

\* wait polls inspect until the task is not running.
Await(t) ==
  /\ client[t] = "known" /\ Status(t) # "running"
  /\ client' = [client EXCEPT ![t] = "over"]
  /\ Same(<<gate, handlerVars, refreshVars, rootVars, killed, spent>>)

Reclaims(t) ==
  /\ Detach(t)
  /\ roots' = ReleasedIfHeld(t) /\ rooted' = rooted \ {t}
Remove(t) ==
  /\ client[t] = "over"
  /\ Reclaims(t)
  /\ client' = [client EXCEPT ![t] = "removed"]
  /\ UNCHANGED <<gate, handlerVars, refreshVars, pass, killed, spent>>

KillTask(t) ==
  /\ client[t] = "known" /\ t \in plan.killable \ killed
  /\ killed' = killed \cup {t}
  /\ Kill(t)
  /\ UNCHANGED <<gate, handlerVars, refreshVars, rootVars, client, spent>>

\* The restarted dispatcher removes the exited tasks it does not know.
Sweep(t) ==
  /\ Spend("sweeps") /\ client[t] = "failed" /\ Status(t) = "exited"
  /\ Reclaims(t)
  /\ UNCHANGED <<gate, handlerVars, refreshVars, pass, clientVars>>

-----------------------------------------------------------------------------
(* The self-refresh.                                                        *)

To(stage) == refresh' = [refresh EXCEPT !.stage = stage]
NoGate == [quiescing |-> FALSE, inflight |-> 0, refreshing |-> FALSE,
           cancelled |-> FALSE, swapping |-> FALSE]

Abort ==
  /\ gate' = [gate EXCEPT !.quiescing = FALSE, !.cancelled = FALSE, !.swapping = FALSE,
                          !.refreshing = FALSE]
  /\ refresh' = [refresh EXCEPT !.stage = "none", !.open = FALSE]

StepSame == Same(<<handlerVars, cancel, told, swapped, rootVars, clientVars, spent>>)

\* Refused while a host task runs or a refresh does.
BeginRefresh ==
  /\ Spend("refreshes") /\ HostWork = {} /\ ~gate.refreshing
  /\ gate' = [gate EXCEPT !.refreshing = TRUE]
  /\ refresh' = [stage |-> "build", no |-> refresh.no + 1, open |-> TRUE]
  /\ Same(<<handlerVars, cancel, told, swapped, rootVars, clientVars>>)

Built ==
  /\ refresh.stage = "build"
  /\ \/ Abort                                  \* cancelled, or the build failed
     \/ ~gate.cancelled /\ To("quiesce") /\ UNCHANGED gate
  /\ StepSame

Quiesce ==
  /\ refresh.stage = "quiesce"
  /\ gate' = [gate EXCEPT !.quiescing = TRUE]
  /\ To("drain")
  /\ StepSame

\* drained, or not within DRAIN_TIMEOUT
Drain ==
  /\ refresh.stage = "drain"
  /\ IF gate.inflight = 0 THEN To("check") /\ UNCHANGED gate ELSE Abort
  /\ StepSame

\* host_work_check at the swap boundary
CheckHostWork ==
  /\ refresh.stage = "check"
  /\ IF HostWork = {} THEN To("begin") /\ UNCHANGED gate ELSE Abort
  /\ StepSame

\* begin_swap: read the cancel, open the swap window, read the cancel again.
BeginSwap ==
  /\ refresh.stage = "begin"
  /\ IF gate.cancelled THEN Abort ELSE To("open") /\ UNCHANGED gate
  /\ StepSame
OpenSwap ==
  /\ refresh.stage = "open"
  /\ gate' = [gate EXCEPT !.swapping = TRUE]
  /\ To("recheck")
  /\ StepSame
SwapUnchecked == To("swap") /\ UNCHANGED gate
ConfirmSwap == IF gate.cancelled THEN Abort ELSE To("swap") /\ UNCHANGED gate
RecheckSwap == refresh.stage = "recheck" /\ ConfirmSwap /\ StepSame

SwapFails == refresh.stage = "swap" /\ Abort /\ StepSame

Step == Built \/ Quiesce \/ Drain \/ CheckHostWork \/ BeginSwap \/ OpenSwap
        \/ RecheckSwap

\* The daemon is replaced or dies: what it held in memory is lost, its handlers
\* never answer, and the process that takes over starts afresh.
Restarts ==
  /\ DaemonEnds
  /\ gate' = NoGate
  /\ call' = [t \in Tasks |-> "none"] /\ mutex' = 0
  /\ refresh' = [refresh EXCEPT !.stage = "none", !.open = FALSE]
  /\ cancel' = [stage |-> "none", no |-> 0]
  /\ rooted' = {} /\ pass' = [on |-> FALSE, spare |-> {}]
  /\ client' = [t \in Tasks |-> IF client[t] = "asked" /\ call[t] # "none"
                                THEN "failed" ELSE client[t]]
  /\ UNCHANGED <<told, roots, killed>>
Swap == /\ refresh.stage = "swap" /\ Restarts
        /\ swapped' = swapped \cup {refresh.no} /\ UNCHANGED spent
Crash == Spend("restarts") /\ Restarts /\ UNCHANGED swapped

\* refresh_cancel: read the outcome, store the flag, look whether the swap is on.
CancelSame == Same(<<handlerVars, refresh, swapped, rootVars, clientVars>>)
CancelReads ==
  /\ Spend("cancels") /\ cancel.stage = "none" /\ refresh.open
  /\ cancel' = [stage |-> "store", no |-> refresh.no]
  /\ UNCHANGED <<gate, told>> /\ CancelSame
CancelStores ==
  /\ cancel.stage = "store"
  /\ gate' = [gate EXCEPT !.cancelled = TRUE]
  /\ cancel' = [cancel EXCEPT !.stage = "look"]
  /\ UNCHANGED <<told, spent>> /\ CancelSame
CancelLooks ==
  /\ cancel.stage = "look"
  /\ told' = IF gate.swapping THEN told ELSE told \cup {cancel.no}
  /\ cancel' = [stage |-> "none", no |-> 0]
  /\ UNCHANGED <<gate, spent>> /\ CancelSame

-----------------------------------------------------------------------------
Init ==
  /\ HostInit
  /\ gate = NoGate
  /\ call = [t \in Tasks |-> "none"] /\ mutex = 0
  /\ refresh = [stage |-> "none", no |-> 0, open |-> FALSE]
  /\ cancel = [stage |-> "none", no |-> 0]
  /\ told = {} /\ swapped = {}
  /\ roots = {} /\ rooted = {} /\ pass = [on |-> FALSE, spare |-> {}]
  /\ client = [t \in Tasks |-> "new"] /\ killed = {}
  /\ spent = [refreshes |-> 0, cancels |-> 0, restarts |-> 0, sweeps |-> 0]

\* What the processes and the daemon's background tasks do by themselves.
Process(t) ==
  /\ \/ CommandEnds(t) \/ WrapperWrites(t) \/ Recycle(t)
     \/ ReaperWrites(t) \/ ReaperLeaves(t) \/ Escalate(t)
  /\ UNCHANGED <<gate, handlerVars, refreshVars, rootVars, clientVars, spent>>

Next ==
  \/ \E t \in Tasks : Ask(t) \/ Launching(t) \/ GiveUp(t) \/ Await(t) \/ Remove(t)
                      \/ KillTask(t) \/ Sweep(t) \/ Process(t)
  \/ \E r \in roots : Age(r)
  \/ ReapList \/ Reap
  \/ BeginRefresh \/ Step \/ SwapFails \/ Swap \/ Crash
  \/ CancelReads \/ CancelStores \/ CancelLooks

Spec == Init /\ [][Next]_vars

\* Handlers, background tasks and processes make progress; a command ends, by its
\* deadline if not by itself; the reaper ticks and time passes.  Nothing obliges
\* the dispatcher to ask, a pid to be reused, or anyone to refresh.
FairSpec ==
  /\ Spec
  /\ \A t \in Numbers :
       /\ WF_vars(t \in Tasks /\ Launching(t))
       /\ WF_vars(t \in Tasks /\ (Await(t) \/ Remove(t)))
       /\ WF_vars(t \in Tasks /\ CommandEnds(t)
                  /\ UNCHANGED <<gate, handlerVars, refreshVars, rootVars, clientVars, spent>>)
       /\ WF_vars(t \in Tasks /\ WrapperWrites(t)
                  /\ UNCHANGED <<gate, handlerVars, refreshVars, rootVars, clientVars, spent>>)
       /\ WF_vars(t \in Tasks /\ (ReaperWrites(t) \/ ReaperLeaves(t))
                  /\ UNCHANGED <<gate, handlerVars, refreshVars, rootVars, clientVars, spent>>)
  /\ WF_vars(Step) /\ WF_vars(SwapFails \/ Swap)
  /\ WF_vars(\E r \in roots : Age(r)) /\ WF_vars(ReapList \/ Reap)

-----------------------------------------------------------------------------
(* Properties.                                                              *)

Busy(t) == command[t] = "runs"

Inside(t) == call[t] \in {"recheck", "realise", "start", "spawn", "note", "remember"}

\* The refresh gate, the refresh and its cancel are what the daemon can hold:
\* a refresh runs exactly while the gate says so, and its outcome is open then.
Stages == {"build", "quiesce", "drain", "check", "begin", "open", "recheck", "swap"}
TypeOK ==
  /\ gate \in [quiescing : BOOLEAN, inflight : Int, refreshing : BOOLEAN,
               cancelled : BOOLEAN, swapping : BOOLEAN]
  /\ refresh \in [stage : Stages \cup {"none"}, no : Nat, open : BOOLEAN]
  /\ cancel \in [stage : {"none", "store", "look"}, no : Nat]
  /\ gate.refreshing <=> refresh.stage # "none"
  /\ refresh.open <=> refresh.stage # "none"
  /\ told \subseteq 0..refresh.no /\ swapped \subseteq 0..refresh.no

\* A host task on record: its meta.json is written, or is the next thing its launch does.
OnRecord(t) == Host(t) /\ (t \in meta \/ call[t] = "note")

\* Of the host tasks on record at most one runs: the slot is held through refusals, failed
\* writes, refreshes, given-up and swept launches and restarts (HostBackend.admit).  It
\* takes killed tasks that heed SIGTERM: one that does not outlives its record's exit code.
\* A process whose daemon died before its meta.json, or whose directory was swept before,
\* is on no record and holds no slot.
OneTaskRuns ==
  \A t, u \in Tasks : (OnRecord(t) /\ OnRecord(u) /\ Busy(t) /\ Busy(u)) => t = u

\* The daemon is swapped only when no launch is past the gate and no host task
\* that was answered still runs (RefreshGate, host_work_check).
SwapIsQuiet ==
  refresh.stage = "swap" =>
    /\ \A t \in Tasks : Inside(t) => call[t] = "recheck"
    /\ \A t \in Tasks : ~(Host(t) /\ client[t] = "known" /\ Busy(t))

\* A refresh whose cancel was answered "cancelled" never replaces the daemon
\* (RefreshGate.cancel: never over-reports).
CancelHolds == told \cap swapped = {}

\* The dispatcher reads an exit only of a task that ended, also from a daemon that
\* did not start it, and though its pid may be another's by now; a killed task may
\* still be on its way out (HostBackend.status).
ExitIsReal ==
  \A t \in Tasks : (client[t] \in {"over", "removed"} /\ t \notin killed) => ~Busy(t)

\* A running task that was realised keeps the root it was given: the reaper and
\* the other launches leave it, also after the daemon forgot it (reap_live_tasks).
RootHeld ==
  \A t \in Tasks : (Busy(t) /\ Key(t) # 0) => \E r \in roots : r.key = Key(t) /\ r.by = t

\* Nobody waits for ever: every launch is answered, every task the dispatcher waits
\* for is seen to end, and a refresh that closed the gate opens it again.  No restart,
\* cancel or reused pid leaves them waiting.
TasksSettle ==
  /\ \A t \in Numbers : []<>(t \in Tasks => client[t] \notin {"asked", "known"})
  /\ []<>(~gate.quiescing)

\* The root of a task that was removed or never started goes at last, also when
\* the daemon that took it is gone (spawn_nix_reaper).
RootsGo == \A t \in Numbers :
  [](t \in Tasks /\ client[t] \in {"removed", "failed"} => <>(\A r \in roots : r.by # t))
=============================================================================
