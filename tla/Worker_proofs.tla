----------------------------- MODULE Worker_proofs -----------------------------
(***************************************************************************)
(* Theorems about the daemon, the host slot and the roots of Worker, for   *)
(* every node, every task on it and every number of refreshes, cancels and *)
(* restarts.                                                               *)
(***************************************************************************)
EXTENDS Worker, FiniteSetTheorems, TLAPS

\* What a cancel and the refresh it aims at know of each other.
\*   - the swap window is open from the last look at the cancel on;
\*   - a refresh whose cancel was answered "cancelled" finds the flag, and is not
\*     past that look;
\*   - a cancel that has stored its flag is seen by the refresh it read, as long
\*     as that one runs, and it does not aim at one that replaced the daemon.
CancelInv ==
  /\ refresh.stage \in {"recheck", "swap"} => gate.swapping
  /\ (refresh.stage # "none" /\ refresh.no \in told) =>
        (gate.cancelled /\ refresh.stage # "swap")
  /\ (refresh.stage # "none" /\ cancel.stage = "look" /\ cancel.no = refresh.no) =>
        gate.cancelled
  /\ cancel.stage # "none" => (cancel.no \notin swapped /\ cancel.no <= refresh.no)
  /\ refresh.stage # "none" => refresh.no \notin swapped
  /\ told \cap swapped = {}

IInv == TypeOK /\ CancelInv

\* What most steps leave alone: they move launches in and out of the gate at most.
Aside ==
  /\ UNCHANGED refreshVars
  /\ gate' = gate \/ gate' = [gate EXCEPT !.inflight = @ + 1]
                  \/ gate' = [gate EXCEPT !.inflight = @ - 1]

LEMMA AsideKeeps == ASSUME IInv, Aside PROVE IInv'
BY DEF IInv, TypeOK, CancelInv, Aside, refreshVars

\* The tasks, their launches and the dispatcher are such steps.
LEMMA TaskIsAside ==
  ASSUME NEW t \in Tasks,
         Ask(t) \/ Launching(t) \/ GiveUp(t) \/ Await(t) \/ Remove(t) \/ KillTask(t)
           \/ Sweep(t) \/ Process(t)
  PROVE  Aside
<1>1. CASE Load(t) \/ Count(t) \/ Recheck(t) \/ Realise(t)
  BY <1>1 DEF Load, Count, Recheck, Realise, Same, Leaves, Aside, refreshVars
<1>2. CASE StartHost(t) \/ SpawnHost(t) \/ NoteHost(t) \/ StartImage(t) \/ Remember(t)
  BY <1>2 DEF StartHost, SpawnHost, NoteHost, StartImage, Remember, Same, Fails, Leaves,
     Aside, refreshVars
<1>3. CASE Ask(t) \/ GiveUp(t) \/ Await(t) \/ Remove(t) \/ KillTask(t) \/ Sweep(t) \/ Process(t)
  BY <1>3 DEF Ask, GiveUp, Await, Remove, KillTask, Sweep, Process, Same, Aside, refreshVars
<1> QED
  BY <1>1, <1>2, <1>3 DEF Launching

LEMMA RootsAreAside ==
  ASSUME (\E r \in roots : Age(r)) \/ ReapList \/ Reap
  PROVE  Aside
BY DEF Age, ReapList, Reap, Same, Aside, refreshVars

-----------------------------------------------------------------------------
(* The refresh.                                                             *)

LEMMA BeginRefreshKeeps == ASSUME IInv, BeginRefresh PROVE IInv'
<1>1. /\ gate' = [gate EXCEPT !.refreshing = TRUE]
      /\ refresh' = [stage |-> "build", no |-> refresh.no + 1, open |-> TRUE]
      /\ UNCHANGED <<cancel, told, swapped>>
  BY DEF BeginRefresh, Same
<1>2. TypeOK'
  <2>1. /\ refresh' \in [stage : Stages \cup {"none"}, no : Nat, open : BOOLEAN]
        /\ refresh'.no = refresh.no + 1 /\ refresh'.stage = "build" /\ refresh'.open = TRUE
    BY <1>1 DEF IInv, TypeOK, Stages
  <2>2. told \subseteq 0..refresh.no + 1 /\ swapped \subseteq 0..refresh.no + 1
    BY DEF IInv, TypeOK
  <2>3. gate'.refreshing /\ gate' \in [quiescing : BOOLEAN, inflight : Int, refreshing : BOOLEAN,
                                       cancelled : BOOLEAN, swapping : BOOLEAN]
    BY <1>1 DEF IInv, TypeOK
  <2> QED
    BY <1>1, <2>1, <2>2, <2>3 DEF IInv, TypeOK
<1>3. refresh.no + 1 \notin told /\ refresh.no + 1 \notin swapped
  BY DEF IInv, TypeOK
<1>4. CancelInv'
  BY <1>1, <1>3 DEF IInv, TypeOK, CancelInv
<1> QED
  BY <1>2, <1>4 DEF IInv

\* Every way out of a refresh but the swap.
LEMMA AbortKeeps ==
  ASSUME IInv, Abort, UNCHANGED <<cancel, told, swapped>>
  PROVE  IInv'
BY DEF IInv, TypeOK, CancelInv, Abort

LEMMA StepKeeps == ASSUME IInv, Step PROVE IInv'
<1>1. UNCHANGED <<cancel, told, swapped>>
  BY DEF Step, Built, Quiesce, Drain, CheckHostWork, BeginSwap, OpenSwap, RecheckSwap,
     StepSame, Same
<1>2. CASE Abort
  BY <1>1, <1>2, AbortKeeps
<1>3. CASE ~Abort
  <2>1. CASE Built
    BY <1>1, <1>3, <2>1 DEF IInv, TypeOK, CancelInv, Built, To, Stages
  <2>2. CASE Quiesce
    BY <1>1, <2>2 DEF IInv, TypeOK, CancelInv, Quiesce, To, Stages
  <2>3. CASE Drain
    BY <1>1, <1>3, <2>3 DEF IInv, TypeOK, CancelInv, Drain, To, Stages
  <2>4. CASE CheckHostWork
    BY <1>1, <1>3, <2>4 DEF IInv, TypeOK, CancelInv, CheckHostWork, To, Stages
  <2>5. CASE BeginSwap
    BY <1>1, <1>3, <2>5 DEF IInv, TypeOK, CancelInv, BeginSwap, To, Stages
  <2>6. CASE OpenSwap
    BY <1>1, <2>6 DEF IInv, TypeOK, CancelInv, OpenSwap, To, Stages
  <2>7. CASE RecheckSwap
    BY <1>1, <1>3, <2>7 DEF IInv, TypeOK, CancelInv, RecheckSwap, ConfirmSwap, To, Stages
  <2> QED
    BY <2>1, <2>2, <2>3, <2>4, <2>5, <2>6, <2>7 DEF Step
<1> QED
  BY <1>2, <1>3

LEMMA SwapFailsKeeps == ASSUME IInv, SwapFails PROVE IInv'
BY AbortKeeps DEF SwapFails, StepSame, Same

\* The daemon that takes over has no gate closed, no refresh and no cancel.
LEMMA RestartKeeps ==
  ASSUME IInv, Restarts, swapped' = swapped \/ (refresh.stage = "swap"
                                                /\ swapped' = swapped \cup {refresh.no})
  PROVE  IInv'
<1>1. /\ gate' = NoGate /\ told' = told
      /\ refresh' = [refresh EXCEPT !.stage = "none", !.open = FALSE]
      /\ cancel' = [stage |-> "none", no |-> 0]
  BY DEF Restarts
<1>2. TypeOK'
  <2>1. ~gate'.refreshing /\ gate' \in [quiescing : BOOLEAN, inflight : Int, refreshing : BOOLEAN,
                                        cancelled : BOOLEAN, swapping : BOOLEAN]
    BY <1>1 DEF NoGate
  <2>2. /\ refresh' \in [stage : Stages \cup {"none"}, no : Nat, open : BOOLEAN]
        /\ refresh'.stage = "none" /\ ~refresh'.open /\ refresh'.no = refresh.no
    BY <1>1 DEF IInv, TypeOK
  <2>3. swapped' \subseteq 0..refresh.no
    <3>1. refresh.no \in 0..refresh.no /\ swapped \subseteq 0..refresh.no
      BY DEF IInv, TypeOK
    <3> QED
      BY <3>1
  <2> QED
    BY <1>1, <2>1, <2>2, <2>3 DEF IInv, TypeOK
<1>3. CancelInv'
  BY <1>1 DEF IInv, TypeOK, CancelInv
<1> QED
  BY <1>2, <1>3 DEF IInv

LEMMA CancelKeeps ==
  ASSUME IInv, CancelReads \/ CancelStores \/ CancelLooks
  PROVE  IInv'
<1>1. refresh' = refresh /\ swapped' = swapped
  BY DEF CancelReads, CancelStores, CancelLooks, CancelSame, Same
<1>2. CASE CancelReads
  BY <1>1, <1>2 DEF IInv, TypeOK, CancelInv, CancelReads
<1>3. CASE CancelStores
  BY <1>1, <1>3 DEF IInv, TypeOK, CancelInv, CancelStores
<1>4. CASE CancelLooks
  <2>1. /\ told' = IF gate.swapping THEN told ELSE told \cup {cancel.no}
        /\ cancel' = [stage |-> "none", no |-> 0] /\ UNCHANGED gate
        /\ cancel.stage = "look"
    BY <1>4 DEF CancelLooks
  <2>2. cancel.no \in 0..refresh.no /\ cancel.no \notin swapped
    BY <2>1 DEF IInv, TypeOK, CancelInv
  <2>3. TypeOK'
    <3>1. told' \subseteq 0..refresh.no
      BY <2>1, <2>2 DEF IInv, TypeOK
    <3>2. cancel' \in [stage : {"none", "store", "look"}, no : Nat]
      BY <2>1
    <3> QED
      BY <1>1, <2>1, <3>1, <3>2 DEF IInv, TypeOK
  <2>4. refresh' = refresh /\ swapped' = swapped
    BY <1>1
  <2>5. (refresh.stage # "none" /\ refresh.no \in told') =>
          (gate.cancelled /\ refresh.stage # "swap")
    <3>1. CASE refresh.no \in told
      BY <3>1 DEF IInv, CancelInv
    <3>2. CASE refresh.no \notin told
      BY <2>1, <3>2 DEF IInv, CancelInv
    <3> QED
      BY <3>1, <3>2
  <2>6. told' \cap swapped = {}
    BY <2>1, <2>2 DEF IInv, CancelInv
  <2>7. CancelInv'
    BY <2>1, <2>4, <2>5, <2>6 DEF IInv, CancelInv
  <2> QED
    BY <2>3, <2>7 DEF IInv
<1> QED
  BY <1>2, <1>3, <1>4

-----------------------------------------------------------------------------
LEMMA InitHolds == Init => IInv
BY DEF Init, IInv, TypeOK, CancelInv, NoGate

LEMMA NextHolds == IInv /\ [Next]_vars => IInv'
<1> SUFFICES ASSUME IInv, [Next]_vars PROVE IInv'
  OBVIOUS
<1>1. ASSUME NEW t \in Tasks,
             Ask(t) \/ Launching(t) \/ GiveUp(t) \/ Await(t) \/ Remove(t) \/ KillTask(t)
               \/ Sweep(t) \/ Process(t)
      PROVE  IInv'
  BY <1>1, TaskIsAside, AsideKeeps
<1>2. CASE (\E r \in roots : Age(r)) \/ ReapList \/ Reap
  BY <1>2, RootsAreAside, AsideKeeps
<1>3. CASE BeginRefresh \/ Step \/ SwapFails
  BY <1>3, BeginRefreshKeeps, StepKeeps, SwapFailsKeeps
<1>4. CASE Swap \/ Crash
  BY <1>4, RestartKeeps DEF Swap, Crash
<1>5. CASE CancelReads \/ CancelStores \/ CancelLooks
  BY <1>5, CancelKeeps
<1>6. CASE UNCHANGED vars
  BY <1>6, AsideKeeps DEF vars, refreshVars, Aside
<1> QED
  BY <1>1, <1>2, <1>3, <1>4, <1>5, <1>6 DEF Next

\* The daemon holds what it can hold, and a refresh is on exactly while the gate
\* says so.
THEOREM TypeCorrect == Spec => []TypeOK
<1>1. IInv => TypeOK
  BY DEF IInv
<1> QED
  BY InitHolds, NextHolds, <1>1, PTL DEF Spec

\* A refresh whose cancel was answered "cancelled" never replaces the daemon,
\* wherever the cancel, the refresh, a crash and the launches interleave.
THEOREM CancelIsKept == Spec => []CancelHolds
<1>1. IInv => CancelHolds
  BY DEF IInv, CancelInv, CancelHolds
<1> QED
  BY InitHolds, NextHolds, <1>1, PTL DEF Spec
-----------------------------------------------------------------------------
(* The tasks of the node, one at a time.                                    *)

\* What the task variables, the handlers and the dispatcher hold.
TasksTyped ==
  /\ plan \in Plans
  /\ dir \in [Tasks -> {"none", "there", "gone"}]
  /\ meta \subseteq Tasks
  /\ code \in [Tasks -> {"none", "own", "lost"}]
  /\ command \in [Tasks -> {"none", "runs", "over"}]
  /\ wrapper \in [Tasks -> {"none", "runs", "writes", "over"}]
  /\ reap \in [Tasks -> {"none", "waits", "leaves"}]
  /\ call \in [Tasks -> {"none", "load", "count", "recheck", "realise", "start", "spawn",
                         "note", "remember"}]
  /\ client \in [Tasks -> {"new", "asked", "failed", "known", "over", "removed"}]

\* The life of one task, as its directory, its processes, its launch handler and the
\* dispatcher know it.
\*   - a handler works for a dispatcher that waits or has given up;
\*   - nothing is started before the start, and what was not started left no trace;
\*   - the shell around a host command is there exactly while the command is, unless
\*     the task was killed, and a code is written only when the shell is gone;
\*   - a task that was answered is on the node with its meta.json until it is over.
LifeOf(t) ==
  /\ call[t] # "none" => client[t] \in {"asked", "failed"}
  /\ client[t] = "asked" => call[t] # "none"
  /\ (client[t] = "new" \/ call[t] \in {"load", "count", "recheck", "realise", "start", "spawn"})
       => command[t] = "none"
  /\ command[t] = "none" =>
       /\ t \notin meta /\ t \notin killed /\ t \notin timers /\ reap[t] = "none"
       /\ Host(t) => (wrapper[t] = "none" /\ code[t] = "none")
  /\ (Host(t) /\ command[t] = "runs" /\ t \notin killed) => wrapper[t] = "runs"
  /\ (Host(t) /\ wrapper[t] = "runs") => command[t] = "runs"
  /\ code[t] # "none" => wrapper[t] = "over"
  /\ (client[t] \in {"known", "over"} \/ call[t] = "remember") =>
       (command[t] # "none" /\ (Host(t) => t \in meta))
  /\ call[t] \in {"spawn", "note"} => Host(t)
  /\ call[t] = "note" => command[t] # "none"
  /\ (client[t] = "known" \/ (client[t] = "asked" /\ call[t] = "remember")) => dir[t] = "there"
  /\ (client[t] \in {"over", "removed"} /\ t \notin killed) => command[t] # "runs"
  /\ t \in killed => client[t] \in {"known", "over", "removed"}
  /\ t \in timers => t \in killed

LifeInv == TasksTyped /\ \A t \in Tasks : LifeOf(t)

\* A step that leaves task u as it is.
Untouched(u) ==
  /\ dir'[u] = dir[u] /\ code'[u] = code[u] /\ command'[u] = command[u]
  /\ wrapper'[u] = wrapper[u] /\ reap'[u] = reap[u]
  /\ call'[u] = call[u] /\ client'[u] = client[u]
  /\ u \in meta' <=> u \in meta
  /\ u \in killed' <=> u \in killed
  /\ u \in timers' <=> u \in timers

\* A step of task t: it is well typed, and the other tasks stay as they are.
Only(t) == plan' = plan /\ TasksTyped' /\ \A u \in Tasks \ {t} : Untouched(u)

LEMMA Frame ==
  ASSUME plan' = plan, NEW u \in Tasks, LifeOf(u), Untouched(u)
  PROVE  LifeOf(u)'
BY DEF LifeOf, Untouched, Host

LEMMA OnlyKeeps ==
  ASSUME LifeInv, NEW t \in Tasks, Only(t), LifeOf(t)'
  PROVE  LifeInv'
<1>1. Tasks' = Tasks
  BY DEF Only, Tasks
<1>2. ASSUME NEW u \in Tasks PROVE LifeOf(u)'
  BY Frame DEF Only, LifeInv
<1> QED
  BY <1>1, <1>2 DEF Only, LifeInv

\* The launch handler up to the start.
LEMMA EntersLife ==
  ASSUME LifeInv, NEW t \in Tasks, Ask(t) \/ Load(t) \/ Count(t) \/ Recheck(t) \/ Realise(t)
  PROVE  Only(t) /\ LifeOf(t)'
<1> USE DEF LifeInv, TasksTyped, Only, Untouched, LifeOf, Same, hostVars, taskVars, memoryVars,
            handlerVars, clientVars, Goes, Answers, Tasks, Host
<1>1. CASE Ask(t)
  BY <1>1 DEF Ask
<1>2. CASE Load(t)
  BY <1>2 DEF Load
<1>3. CASE Count(t)
  BY <1>3 DEF Count
<1>4. CASE Recheck(t)
  BY <1>4 DEF Recheck
<1>5. CASE Realise(t)
  BY <1>5 DEF Realise
<1> QED
  BY <1>1, <1>2, <1>3, <1>4, <1>5

\* The start and what follows it.
LEMMA StartsLife ==
  ASSUME LifeInv, NEW t \in Tasks,
         StartHost(t) \/ SpawnHost(t) \/ NoteHost(t) \/ StartImage(t) \/ Remember(t)
  PROVE  Only(t) /\ LifeOf(t)'
<1> USE DEF LifeInv, TasksTyped, Only, Untouched, LifeOf, Same, hostVars, taskVars, memoryVars,
            handlerVars, clientVars, Goes, Answers, Fails, Tasks, Host
<1>1. CASE StartHost(t)
  BY <1>1 DEF StartHost, CreateDir
<1>2. CASE SpawnHost(t)
  <2>1. CASE Spawn(t)
    <3>1. Goes(t, "note") /\ UNCHANGED <<client, killed>>
      BY <1>2, <2>1 DEF SpawnHost, Spawn
    <3>2. Only(t)
      BY <2>1, <3>1 DEF Spawn
    <3> QED
      BY <1>2, <2>1, <3>1, <3>2 DEF Spawn, SpawnHost
  <2>2. CASE ~Spawns(t)
    BY <1>2, <2>2 DEF SpawnHost
  <2>3. Spawn(t) \/ ~Spawns(t)
    BY <1>2 DEF SpawnHost
  <2> QED
    BY <2>1, <2>2, <2>3
<1>3. CASE NoteHost(t)
  BY <1>3 DEF NoteHost, WriteMeta, Present
<1>4. CASE StartImage(t)
  BY <1>4 DEF StartImage, StartContainer, CreateDir
<1>5. CASE Remember(t)
  BY <1>5 DEF Remember
<1> QED
  BY <1>1, <1>2, <1>3, <1>4, <1>5

\* The dispatcher and the tasks themselves.
LEMMA DispatcherLife ==
  ASSUME LifeInv, NEW t \in Tasks, GiveUp(t) \/ Await(t) \/ Remove(t) \/ KillTask(t) \/ Sweep(t)
  PROVE  Only(t) /\ LifeOf(t)'
<1> USE DEF LifeInv, TasksTyped, Only, Untouched, LifeOf, Same, hostVars, taskVars, memoryVars,
            handlerVars, clientVars, Tasks, Host
<1>1. CASE GiveUp(t)
  BY <1>1 DEF GiveUp
<1>2. CASE Await(t)
  BY <1>2 DEF Await, Status, HostStatus, ByPid, Present
<1>3. CASE Remove(t)
  BY <1>3 DEF Remove, Reclaims, Detach
<1>4. CASE KillTask(t)
  BY <1>4 DEF KillTask, Kill, Present
<1>5. CASE Sweep(t)
  BY <1>5 DEF Sweep, Reclaims, Detach
<1> QED
  BY <1>1, <1>2, <1>3, <1>4, <1>5

LEMMA ProcessLife ==
  ASSUME LifeInv, NEW t \in Tasks, Process(t)
  PROVE  Only(t) /\ LifeOf(t)'
<1> USE DEF LifeInv, TasksTyped, Only, Untouched, LifeOf, memoryVars, taskVars,
            handlerVars, clientVars, Tasks, Host
<1>1. UNCHANGED <<call, client, killed>>
  BY DEF Process
<1>2. CASE CommandEnds(t)
  BY <1>1, <1>2 DEF CommandEnds
<1>3. CASE WrapperWrites(t)
  BY <1>1, <1>3 DEF WrapperWrites
<1>4. CASE Recycle(t) \/ ReaperLeaves(t)
  BY <1>1, <1>4 DEF Recycle, ReaperLeaves
<1>5. CASE ReaperWrites(t)
  BY <1>1, <1>5 DEF ReaperWrites
<1>6. CASE Escalate(t)
  BY <1>1, <1>6 DEF Escalate
<1> QED
  BY <1>2, <1>3, <1>4, <1>5, <1>6 DEF Process

\* The daemon that takes over: handlers never answer, and where tasks have no scope of
\* their own they end.
LEMMA RestartLife == ASSUME LifeInv, Restarts PROVE LifeInv'
<1> USE DEF LifeInv, TasksTyped, Tasks, Host
<1>1. /\ plan' = plan /\ dir' = dir /\ meta' = meta /\ code' = code /\ killed' = killed
      /\ timers' = {} /\ call' = [t \in Tasks |-> "none"] /\ reap' = [t \in Tasks |-> "none"]
      /\ command' = [t \in Tasks |-> IF Dies(t) THEN "over" ELSE command[t]]
      /\ wrapper' = [t \in Tasks |-> IF Dies(t) THEN "over" ELSE wrapper[t]]
      /\ client' = [t \in Tasks |-> IF client[t] = "asked" /\ call[t] # "none"
                                     THEN "failed" ELSE client[t]]
  BY DEF Restarts, DaemonEnds
<1>2. TasksTyped'
  BY <1>1
<1>3. ASSUME NEW t \in Tasks PROVE LifeOf(t)'
  BY <1>1 DEF LifeOf, Dies
<1> QED
  BY <1>1, <1>2, <1>3

\* Steps that leave every task alone.
LEMMA OthersLife ==
  ASSUME LifeInv, UNCHANGED <<plan, hostVars, handlerVars, clientVars>>
  PROVE  LifeInv'
BY DEF LifeInv, TasksTyped, LifeOf, hostVars, taskVars, memoryVars, handlerVars, clientVars,
       Tasks, Host

LEMMA QuietSteps ==
  ASSUME (\E r \in roots : Age(r)) \/ ReapList \/ Reap \/ BeginRefresh \/ Step \/ SwapFails
           \/ CancelReads \/ CancelStores \/ CancelLooks
  PROVE  UNCHANGED <<plan, hostVars, handlerVars, clientVars>>
BY DEF Age, ReapList, Reap, BeginRefresh, SwapFails, CancelReads, CancelStores, CancelLooks,
       CancelSame, Step, Built, Quiesce, Drain, CheckHostWork, BeginSwap, OpenSwap, RecheckSwap,
       StepSame, Same

\* What a task, its launch or the dispatcher does about it.
TaskStep(t) == Ask(t) \/ Launching(t) \/ GiveUp(t) \/ Await(t) \/ Remove(t) \/ KillTask(t)
               \/ Sweep(t) \/ Process(t)

LEMMA TaskLife ==
  ASSUME LifeInv, NEW t \in Tasks, TaskStep(t)
  PROVE  Only(t) /\ LifeOf(t)' /\ LifeInv'
<1>1. Only(t) /\ LifeOf(t)'
  BY EntersLife, StartsLife, DispatcherLife, ProcessLife DEF TaskStep, Launching
<1> QED
  BY <1>1, OnlyKeeps

LEMMA PlanStays ==
  ASSUME LifeInv, [Next]_vars
  PROVE  plan' = plan /\ Tasks' = Tasks
<1>1. ASSUME NEW t \in Tasks, TaskStep(t) PROVE plan' = plan
  BY <1>1, TaskLife DEF Only
<1>2. ASSUME Swap \/ Crash PROVE plan' = plan
  BY <1>2 DEF Swap, Crash, Restarts, DaemonEnds
<1> QED
  BY <1>1, <1>2, QuietSteps DEF Next, vars, TaskStep, Tasks

LEMMA LifeHolds ==
  /\ Init => LifeInv
  /\ LifeInv /\ [Next]_vars => LifeInv'
<1>1. ASSUME Init PROVE LifeInv
  BY <1>1 DEF Init, HostInit, LifeInv, TasksTyped, LifeOf, Tasks, Host
<1>2. ASSUME LifeInv, [Next]_vars PROVE LifeInv'
  <2>1. ASSUME NEW t \in Tasks, TaskStep(t) PROVE LifeInv'
    BY <1>2, <2>1, TaskLife
  <2>2. CASE Swap \/ Crash
    BY <1>2, <2>2, RestartLife DEF Swap, Crash
  <2>3. CASE UNCHANGED vars
    BY <1>2, <2>3, OthersLife DEF vars
  <2> QED
    BY <1>2, <2>1, <2>2, <2>3, QuietSteps, OthersLife DEF Next, TaskStep
<1> QED
  BY <1>1, <1>2

\* The dispatcher reads an exit only of a task that ended, for every node: whatever a
\* daemon restart forgot, whichever pid was reused and however its launch raced.
THEOREM ExitsAreReal == Spec => []ExitIsReal
<1>1. LifeInv => ExitIsReal
  BY DEF LifeInv, LifeOf, ExitIsReal, Busy
<1> QED
  BY LifeHolds, <1>1, PTL DEF Spec
-----------------------------------------------------------------------------
(* The refresh gate: the number in it, and what it shuts out.               *)

InsideSet == {t \in Tasks : Inside(t)}

\* The gate counts the launches inside it; it is closed from the drain on, and past the
\* drain the launches inside it have yet to read that it is.
GateInv ==
  /\ gate.inflight = Cardinality(InsideSet)
  /\ refresh.stage \in {"drain", "check", "begin", "open", "recheck", "swap"} => gate.quiescing
  /\ refresh.stage \in {"check", "begin", "open", "recheck", "swap"} =>
       \A t \in Tasks : Inside(t) => call[t] = "recheck"

LEMMA InsideIsFinite ==
  ASSUME LifeInv
  PROVE  IsFiniteSet(InsideSet) /\ Cardinality(InsideSet) \in Nat
<1>1. Tasks \subseteq Numbers
  BY NumbersAssumption DEF LifeInv, TasksTyped, Tasks
<1>2. IsFiniteSet(InsideSet)
  BY <1>1, NumbersAssumption, FS_Subset DEF InsideSet
<1> QED
  BY <1>2, FS_CardinalityType

\* How a step of task t passes the gate.
Passes(t) ==
  \/ gate' = gate /\ (Inside(t)' <=> Inside(t))
  \/ gate' = [gate EXCEPT !.inflight = @ + 1] /\ call[t] = "count" /\ call'[t] = "recheck"
  \/ gate' = [gate EXCEPT !.inflight = @ - 1] /\ Inside(t) /\ call'[t] = "none"
OpenTo(t) ==
  (Inside(t)' /\ call'[t] # "recheck") => (Inside(t) /\ (call[t] = "recheck" => ~gate.quiescing))

LEMMA LaunchPasses ==
  ASSUME LifeInv, NEW t \in Tasks, TaskStep(t)
  PROVE  Passes(t) /\ OpenTo(t)
<1> USE DEF LifeInv, TasksTyped, Passes, OpenTo, Inside, Same, Goes, Answers, Leaves, handlerVars
<1>1. CASE Ask(t) \/ GiveUp(t) \/ Await(t) \/ Remove(t) \/ KillTask(t) \/ Sweep(t) \/ Process(t)
  BY <1>1 DEF Ask, GiveUp, Await, Remove, KillTask, Sweep, Process
<1>2. CASE Load(t) \/ Count(t) \/ Recheck(t) \/ Realise(t)
  BY <1>2 DEF Load, Count, Recheck, Realise
<1>3. CASE StartHost(t) \/ SpawnHost(t) \/ NoteHost(t) \/ StartImage(t) \/ Remember(t)
  BY <1>3 DEF StartHost, SpawnHost, NoteHost, StartImage, Remember, Fails
<1> QED
  BY <1>1, <1>2, <1>3 DEF TaskStep, Launching

LEMMA TaskGate ==
  ASSUME IInv, LifeInv, GateInv, NEW t \in Tasks, TaskStep(t)
  PROVE  GateInv'
<1>1. /\ Only(t) /\ Passes(t) /\ OpenTo(t) /\ refresh' = refresh /\ LifeInv'
  BY TaskLife, LaunchPasses, TaskIsAside DEF TaskStep, Aside, refreshVars
<1>2. Tasks' = Tasks /\ \A u \in Tasks \ {t} : call'[u] = call[u]
  BY <1>1 DEF Only, Untouched, Tasks
<1>3. gate'.quiescing = gate.quiescing
  BY <1>1 DEF Passes, IInv, TypeOK
<1>4. gate'.inflight = Cardinality(InsideSet')
  <2>1. IsFiniteSet(InsideSet)
    BY InsideIsFinite
  <2>2. CASE gate' = gate /\ (Inside(t)' <=> Inside(t))
    <3>1. InsideSet' = InsideSet
      BY <1>2, <2>2 DEF InsideSet, Inside
    <3> QED
      BY <2>2, <3>1 DEF GateInv
  <2>3. CASE gate' = [gate EXCEPT !.inflight = @ + 1] /\ call[t] = "count" /\ call'[t] = "recheck"
    <3>1. InsideSet' = InsideSet \cup {t} /\ t \notin InsideSet
      BY <1>2, <2>3 DEF InsideSet, Inside
    <3>2. Cardinality(InsideSet') = Cardinality(InsideSet) + 1
      BY <2>1, <3>1, FS_AddElement
    <3> QED
      BY <2>3, <3>2 DEF GateInv, IInv, TypeOK
  <2>4. CASE gate' = [gate EXCEPT !.inflight = @ - 1] /\ Inside(t) /\ call'[t] = "none"
    <3>1. InsideSet' = InsideSet \ {t} /\ t \in InsideSet
      BY <1>2, <2>4 DEF InsideSet, Inside
    <3>2. Cardinality(InsideSet') = Cardinality(InsideSet) - 1
      BY <2>1, <3>1, FS_RemoveElement
    <3> QED
      BY <2>4, <3>2 DEF GateInv, IInv, TypeOK
  <2> QED
    BY <1>1, <2>2, <2>3, <2>4 DEF Passes
<1>5. ASSUME refresh.stage \in {"check", "begin", "open", "recheck", "swap"},
             NEW u \in Tasks, Inside(u)'
      PROVE  call'[u] = "recheck"
  <2>1. CASE u = t
    BY <1>1, <1>5, <2>1 DEF OpenTo, GateInv
  <2>2. CASE u # t
    BY <1>2, <1>5, <2>2 DEF GateInv, Inside
  <2> QED
    BY <2>1, <2>2
<1> QED
  BY <1>1, <1>2, <1>3, <1>4, <1>5 DEF GateInv

\* Where a step of the refresh leads.
RefreshMoves ==
  \/ refresh'.stage \in {"none", "build", "quiesce"}
  \/ refresh'.stage = "drain" /\ gate'.quiescing
  \/ refresh.stage = "drain" /\ refresh'.stage = "check" /\ gate' = gate /\ gate.inflight = 0
  \/ /\ refresh.stage \in {"check", "begin", "open", "recheck"}
     /\ refresh'.stage \in {"begin", "open", "recheck", "swap"}
     /\ gate'.quiescing = gate.quiescing

LEMMA RefreshGoes ==
  ASSUME IInv, BeginRefresh \/ Step \/ SwapFails
  PROVE  RefreshMoves /\ gate'.inflight = gate.inflight
<1> USE DEF IInv, TypeOK, RefreshMoves, To
<1>1. CASE Abort
  BY <1>1 DEF Abort
<1>2. CASE BeginRefresh
  BY <1>2 DEF BeginRefresh
<1>3. CASE ~Abort /\ (Built \/ Quiesce \/ Drain)
  BY <1>3 DEF Built, Quiesce, Drain
<1>4. CASE ~Abort /\ (CheckHostWork \/ BeginSwap \/ OpenSwap \/ RecheckSwap)
  BY <1>4 DEF CheckHostWork, BeginSwap, OpenSwap, RecheckSwap, ConfirmSwap
<1> QED
  BY <1>1, <1>2, <1>3, <1>4 DEF Step, SwapFails

\* The refresh: past the drain nothing was inside.
LEMMA StepGate ==
  ASSUME IInv, LifeInv, GateInv, BeginRefresh \/ Step \/ SwapFails
  PROVE  GateInv'
<1>1. UNCHANGED <<plan, hostVars, handlerVars, clientVars>>
  BY QuietSteps
<1>2. Tasks' = Tasks /\ call' = call /\ InsideSet' = InsideSet
  BY <1>1 DEF Tasks, handlerVars, InsideSet, Inside
<1>3. RefreshMoves /\ gate'.inflight = gate.inflight
  BY RefreshGoes
<1>4. ASSUME refresh'.stage \in {"drain", "check", "begin", "open", "recheck", "swap"}
      PROVE  gate'.quiescing
  BY <1>3, <1>4 DEF GateInv, RefreshMoves
<1>5. ASSUME refresh'.stage \in {"check", "begin", "open", "recheck", "swap"},
             NEW t \in Tasks, Inside(t)
      PROVE  call[t] = "recheck"
  <2>1. CASE refresh.stage \in {"check", "begin", "open", "recheck", "swap"}
    BY <1>5, <2>1 DEF GateInv
  <2>2. CASE refresh.stage \notin {"check", "begin", "open", "recheck", "swap"}
    <3>1. gate.inflight = 0
      BY <1>3, <1>5, <2>2 DEF RefreshMoves
    <3>2. InsideSet = {}
      BY <3>1, InsideIsFinite, FS_EmptySet DEF GateInv
    <3> QED
      BY <1>5, <3>2 DEF InsideSet
  <2> QED
    BY <2>1, <2>2
<1> QED
  BY <1>2, <1>3, <1>4, <1>5 DEF GateInv, Inside

LEMMA GateHolds ==
  /\ Init => GateInv
  /\ IInv /\ LifeInv /\ GateInv /\ [Next]_vars => GateInv'
<1>1. ASSUME Init PROVE GateInv
  <2>1. InsideSet = {}
    BY <1>1 DEF Init, InsideSet, Inside
  <2> QED
    BY <1>1, <2>1, FS_EmptySet DEF Init, NoGate, GateInv
<1>2. ASSUME IInv, LifeInv, GateInv, [Next]_vars PROVE GateInv'
  <2>1. ASSUME NEW t \in Tasks, TaskStep(t) PROVE GateInv'
    BY <1>2, <2>1, TaskGate
  <2>2. CASE BeginRefresh \/ Step \/ SwapFails
    BY <1>2, <2>2, StepGate
  <2>3. CASE Swap \/ Crash
    <3>1. /\ call' = [t \in Tasks |-> "none"] /\ gate' = NoGate /\ refresh'.stage = "none"
          /\ Tasks' = Tasks
      BY <1>2, <2>3 DEF Swap, Crash, Restarts, DaemonEnds, Tasks, IInv, TypeOK
    <3>2. InsideSet' = {}
      BY <3>1 DEF InsideSet, Inside
    <3> QED
      BY <3>1, <3>2, FS_EmptySet DEF GateInv, NoGate
  <2>4. CASE (\E r \in roots : Age(r)) \/ ReapList \/ Reap
    BY <1>2, <2>4 DEF Age, ReapList, Reap, Same, GateInv, InsideSet, Inside, Tasks, handlerVars,
                      refreshVars
  <2>5. CASE CancelReads \/ CancelStores \/ CancelLooks
    <3>1. /\ plan' = plan /\ call' = call /\ refresh' = refresh
          /\ gate'.inflight = gate.inflight /\ gate'.quiescing = gate.quiescing
      BY <1>2, <2>5 DEF CancelReads, CancelStores, CancelLooks, CancelSame, Same, handlerVars,
                        IInv, TypeOK
    <3> QED
      BY <1>2, <3>1 DEF GateInv, InsideSet, Inside, Tasks
  <2>6. CASE UNCHANGED vars
    BY <1>2, <2>6 DEF vars, handlerVars, refreshVars, GateInv, InsideSet, Inside, Tasks
  <2> QED
    BY <1>2, <2>1, <2>2, <2>3, <2>4, <2>5, <2>6 DEF Next, TaskStep
<1> QED
  BY <1>1, <1>2
-----------------------------------------------------------------------------
(* What the refresh may rely on at the swap.                                *)

\* A node whose killed host tasks all heed SIGTERM.  On others a killed task outlives
\* its wrapper, and the daemon takes it for exited.
Gentle == \A t \in Tasks : (Host(t) /\ Stubborn(t)) => t \notin plan.killable

\* Where such a node's processes heed the kill, none that was killed is busy; past the
\* look at the host work no answered host task is.
QuietInv ==
  /\ \A t \in Tasks : t \in killed => ~Busy(t)
  /\ refresh.stage \in {"begin", "open", "recheck", "swap"} =>
       \A t \in Tasks : Host(t) => ~(client[t] = "known" /\ Busy(t))

\* What a step of task t brings about.
Brings(t) ==
  /\ Busy(t)' => (Busy(t) \/ (call[t] = "spawn" /\ Host(t)) \/ (call[t] = "start" /\ ~Host(t)))
  /\ client'[t] = "known" => (client[t] = "known" \/ call[t] = "remember")
  /\ (t \in killed' /\ t \notin killed /\ Gentle) => ~Busy(t)'

LEMMA TaskBrings ==
  ASSUME LifeInv, NEW t \in Tasks, TaskStep(t)
  PROVE  Brings(t)
<1> USE DEF LifeInv, TasksTyped, Brings, Busy, Same, Goes, Answers, hostVars, taskVars,
            handlerVars, clientVars
<1>1. CASE Ask(t) \/ GiveUp(t) \/ Await(t)
  BY <1>1 DEF Ask, GiveUp, Await
<1>2. CASE Remove(t) \/ Sweep(t)
  BY <1>2 DEF Remove, Sweep, Reclaims, Detach
<1>3. CASE KillTask(t)
  BY <1>3 DEF KillTask, Kill, Gentle
<1>4. CASE Process(t)
  BY <1>4 DEF Process, CommandEnds, WrapperWrites, Recycle, ReaperWrites, ReaperLeaves, Escalate
<1>5. CASE Load(t) \/ Count(t) \/ Recheck(t) \/ Realise(t)
  BY <1>5 DEF Load, Count, Recheck, Realise
<1>6. CASE StartHost(t) \/ SpawnHost(t)
  <2>1. CASE StartHost(t)
    BY <1>6, <2>1 DEF StartHost, Fails, CreateDir
  <2>2. CASE SpawnHost(t)
    <3>1. call[t] = "spawn" /\ Host(t) /\ killed' = killed /\ client'[t] # "known"
      BY <1>6, <2>2 DEF SpawnHost, LifeOf, Fails
    <3> QED
      BY <3>1
  <2> QED
    BY <1>6, <2>1, <2>2
<1>7. CASE NoteHost(t) \/ StartImage(t) \/ Remember(t)
  BY <1>7 DEF NoteHost, StartImage, Remember, Fails, WriteMeta, CreateDir, StartContainer
<1> QED
  BY <1>1, <1>2, <1>3, <1>4, <1>5, <1>6, <1>7 DEF TaskStep, Launching

LEMMA TaskQuiet ==
  ASSUME LifeInv, GateInv, Gentle, QuietInv, NEW t \in Tasks, TaskStep(t)
  PROVE  QuietInv'
<1>1. Only(t) /\ Brings(t) /\ refresh' = refresh
  BY TaskLife, TaskBrings, TaskIsAside DEF TaskStep, Aside, refreshVars
<1>2. Tasks' = Tasks /\ \A u \in Tasks : Host(u)' = Host(u)
  BY <1>1 DEF Only, Tasks, Host
<1>3. ASSUME NEW u \in Tasks, u \in killed' PROVE ~Busy(u)'
  <2>1. CASE u = t
    BY <1>1, <1>3, <2>1 DEF Brings, QuietInv, LifeInv, LifeOf
  <2>2. CASE u # t
    BY <1>1, <1>3, <2>2 DEF Only, Untouched, QuietInv, Busy
  <2> QED
    BY <2>1, <2>2
<1>4. ASSUME refresh.stage \in {"begin", "open", "recheck", "swap"}, NEW u \in Tasks, Host(u),
             client'[u] = "known", Busy(u)'
      PROVE  FALSE
  <2>1. CASE u = t
    BY <1>1, <1>4, <2>1 DEF Brings, QuietInv, GateInv, Inside
  <2>2. CASE u # t
    BY <1>1, <1>4, <2>2 DEF Only, Untouched, QuietInv, Busy
  <2> QED
    BY <2>1, <2>2
<1> QED
  BY <1>1, <1>2, <1>3, <1>4 DEF QuietInv

\* A host task the dispatcher was answered about counts as host work while it is busy.
LEMMA KnownIsWork ==
  ASSUME LifeInv, NEW t \in Tasks, Host(t), t \notin killed, Busy(t), t \in meta, dir[t] = "there"
  PROVE  t \in HostWork
BY DEF LifeInv, LifeOf, Busy, HostWork, Status, HostStatus, ByPid, Present

LEMMA RefreshQuiet ==
  ASSUME IInv, LifeInv, QuietInv, BeginRefresh \/ Step \/ SwapFails
  PROVE  QuietInv'
<1>1. UNCHANGED <<plan, command, client, killed>> /\ Tasks' = Tasks
  BY QuietSteps DEF hostVars, taskVars, clientVars, Tasks
<1>2. RefreshMoves
  BY RefreshGoes
<1>3. ASSUME refresh'.stage \in {"begin", "open", "recheck", "swap"}, NEW t \in Tasks, Host(t),
             client[t] = "known", Busy(t)
      PROVE  FALSE
  <2>1. CASE refresh.stage \in {"begin", "open", "recheck", "swap"}
    BY <1>3, <2>1 DEF QuietInv
  <2>2. CASE refresh.stage = "check"
    <3>1. HostWork = {}
      BY <1>3, <2>2 DEF BeginRefresh, Step, SwapFails, Built, Quiesce, Drain, CheckHostWork,
                        BeginSwap, OpenSwap, RecheckSwap, Abort, IInv, TypeOK
    <3>2. t \notin killed /\ t \in meta /\ dir[t] = "there"
      BY <1>3 DEF QuietInv, LifeInv, LifeOf
    <3> QED
      BY <1>3, <3>1, <3>2, KnownIsWork
  <2> QED
    BY <1>2, <1>3, <2>1, <2>2 DEF RefreshMoves
<1> QED
  BY <1>1, <1>3 DEF QuietInv, Busy, Host

LEMMA QuietHolds ==
  /\ Init => QuietInv
  /\ (Gentle => QuietInv) /\ IInv /\ LifeInv /\ GateInv /\ [Next]_vars => (Gentle => QuietInv)'
<1>1. ASSUME Init PROVE QuietInv
  BY <1>1 DEF Init, QuietInv
<1>2. ASSUME Gentle => QuietInv, IInv, LifeInv, GateInv, [Next]_vars, Gentle' PROVE QuietInv'
  <2>1. plan' = plan /\ Tasks' = Tasks
    BY <1>2, PlanStays
  <2>2. Gentle /\ QuietInv
    BY <1>2, <2>1 DEF Gentle, Tasks, Host, Stubborn
  <2>3. ASSUME NEW t \in Tasks, TaskStep(t) PROVE QuietInv'
    BY <1>2, <2>2, <2>3, TaskQuiet
  <2>4. CASE BeginRefresh \/ Step \/ SwapFails
    BY <1>2, <2>2, <2>4, RefreshQuiet
  <2>5. CASE Swap \/ Crash
    <3>1. /\ refresh'.stage = "none" /\ killed' = killed
          /\ \A t \in Tasks : command'[t] = "runs" => command[t] = "runs"
      <4>1. Restarts
        BY <2>5 DEF Swap, Crash
      <4>2. refresh'.stage = "none" /\ killed' = killed
        BY <1>2, <4>1 DEF Restarts, IInv, TypeOK
      <4>3. ASSUME NEW t \in Tasks, command'[t] = "runs" PROVE command[t] = "runs"
        BY <4>1, <4>3 DEF Restarts, DaemonEnds
      <4> QED
        BY <4>2, <4>3
    <3> QED
      BY <2>1, <2>2, <3>1 DEF QuietInv, Busy
  <2>6. CASE (\E r \in roots : Age(r)) \/ ReapList \/ Reap \/ CancelReads \/ CancelStores
             \/ CancelLooks \/ UNCHANGED vars
    <3>1. UNCHANGED <<command, client, killed>>
      BY <2>6, QuietSteps DEF vars, hostVars, taskVars, clientVars
    <3>2. refresh' = refresh
      BY <2>6 DEF Age, ReapList, Reap, Same, CancelReads, CancelStores, CancelLooks, CancelSame,
                  vars, refreshVars
    <3> QED
      BY <2>1, <2>2, <3>1, <3>2 DEF QuietInv, Busy, Host
  <2> QED
    BY <1>2, <2>3, <2>4, <2>5, <2>6 DEF Next, TaskStep
<1> QED
  BY <1>1, <1>2

\* The daemon is swapped only while no launch is past the gate, and, on a node whose killed
\* host tasks heed SIGTERM, no host task that was answered still runs: for every
\* interleaving of launches, refreshes, cancels, kills and restarts.
THEOREM SwapsAreQuiet == Spec => [](Gentle => SwapIsQuiet)
<1>1. LifeInv /\ GateInv /\ (Gentle => QuietInv) => (Gentle => SwapIsQuiet)
  BY DEF GateInv, QuietInv, SwapIsQuiet
<1> QED
  BY InitHolds, NextHolds, LifeHolds, GateHolds, QuietHolds, <1>1, PTL DEF Spec
-----------------------------------------------------------------------------
(* The host slot.                                                           *)

\* A launch in the middle of its start holds the mutex, and a host task with a meta.json
\* has its directory as long as it runs.
HeldOf(t) ==
  /\ call[t] \in {"spawn", "note"} => mutex = t
  /\ (Host(t) /\ t \in meta /\ Busy(t)) => dir[t] = "there"

\* A launch that was admitted finds no host task on record that runs.
HeldInv ==
  /\ \A t \in Tasks : HeldOf(t)
  /\ \A t, u \in Tasks : (call[t] = "spawn" /\ OnRecord(u)) => ~Busy(u)
  /\ OneTaskRuns

\* What the slot stands on.
Known == IInv /\ LifeInv /\ GateInv /\ QuietInv

\* A task comes on record by the process its launch starts, and leaves it only by that
\* launch's failure.
LEMMA TaskRecords ==
  ASSUME Known, NEW t \in Tasks, TaskStep(t)
  PROVE  /\ t \in meta' => (t \in meta \/ call[t] = "note")
         /\ call'[t] = "note" => (call[t] = "note" \/ (call[t] = "spawn" /\ t \notin meta))
         /\ call'[t] = "spawn" => (call[t] = "spawn" \/ (StartHost(t) /\ call[t] = "start"))
<1> USE DEF Known, LifeInv, LifeOf, TasksTyped, Same, Goes, Answers, Fails, hostVars, taskVars,
            memoryVars, handlerVars
<1>1. CASE Ask(t) \/ GiveUp(t) \/ Await(t) \/ Remove(t) \/ Sweep(t)
  BY <1>1 DEF Ask, GiveUp, Await, Remove, Sweep, Reclaims, Detach
<1>2. CASE KillTask(t) \/ Process(t)
  BY <1>2 DEF KillTask, Kill, Process, CommandEnds, WrapperWrites, Recycle, ReaperWrites,
              ReaperLeaves, Escalate
<1>3. CASE Load(t) \/ Count(t) \/ Recheck(t) \/ Realise(t)
  BY <1>3 DEF Load, Count, Recheck, Realise
<1>4. CASE StartHost(t)
  BY <1>4 DEF StartHost, CreateDir
<1>5. CASE SpawnHost(t)
  BY <1>5 DEF SpawnHost, Spawn
<1>6. CASE NoteHost(t)
  BY <1>6 DEF NoteHost, WriteMeta
<1>7. CASE StartImage(t) \/ Remember(t)
  BY <1>7 DEF StartImage, CreateDir, StartContainer, Remember
<1> QED
  BY <1>1, <1>2, <1>3, <1>4, <1>5, <1>6, <1>7 DEF TaskStep, Launching

\* The mutex stays with the launch that holds it.
LEMMA MutexStays ==
  ASSUME Known, \A u \in Tasks : HeldOf(u), NEW t \in Tasks, TaskStep(t),
         NEW u \in Tasks \ {t}, call[u] \in {"spawn", "note"}
  PROVE  mutex' = mutex
<1>1. mutex = u /\ u # 0 /\ u # t
  BY NumbersAssumption DEF HeldOf, Known, LifeInv, TasksTyped, Tasks
<1>2. ~StartHost(t) /\ ~SpawnHost(t) /\ ~NoteHost(t)
  BY <1>1 DEF StartHost, SpawnHost, NoteHost, HeldOf
<1> QED
  BY <1>2 DEF TaskStep, Launching, Ask, GiveUp, Await, Remove, KillTask, Sweep, Process, Load, Count,
              Recheck, Realise, StartImage, Remember, Same, handlerVars

\* Neither a remove nor a sweep takes the directory of a host task on record that runs.
LEMMA ReclaimsExited ==
  ASSUME Known, NEW t \in Tasks, Remove(t) \/ Sweep(t), Host(t), t \in meta
  PROVE  ~Busy(t)
<1>1. CASE Remove(t)
  BY <1>1 DEF Known, Remove, LifeInv, LifeOf, QuietInv, Busy
<1>2. CASE Sweep(t)
  BY <1>2 DEF Known, Sweep, LifeInv, LifeOf, QuietInv, Busy, Status, HostStatus, ByPid
<1> QED
  BY <1>1, <1>2

\* The meta.json of a host task is written into its directory.
LEMMA TaskKeepsDir ==
  ASSUME Known, NEW t \in Tasks, TaskStep(t), Host(t),
         \/ t \in meta /\ Busy(t) /\ dir[t] = "there"
         \/ t \in meta' /\ t \notin meta
  PROVE  dir'[t] = "there"
<1> USE DEF Known, LifeInv, LifeOf, TasksTyped, Same, Busy, Fails, Answers, Goes, hostVars, taskVars,
            memoryVars
<1>1. CASE Ask(t) \/ GiveUp(t) \/ Await(t)
  BY <1>1 DEF Ask, GiveUp, Await
<1>2. CASE Remove(t) \/ Sweep(t)
  BY <1>2, ReclaimsExited DEF Remove, Sweep, Reclaims, Detach
<1>3. CASE KillTask(t) \/ Process(t)
  BY <1>3 DEF KillTask, Kill, Process, CommandEnds, WrapperWrites, Recycle, ReaperWrites,
              ReaperLeaves, Escalate
<1>4. CASE Load(t) \/ Count(t) \/ Recheck(t) \/ Realise(t)
  BY <1>4 DEF Load, Count, Recheck, Realise
<1>5. CASE StartHost(t)
  BY <1>5 DEF StartHost, CreateDir
<1>6. CASE SpawnHost(t)
  BY <1>6 DEF SpawnHost, Spawn
<1>7. CASE NoteHost(t)
  BY <1>7 DEF NoteHost, WriteMeta, Present
<1>8. CASE StartImage(t) \/ Remember(t)
  BY <1>8 DEF StartImage, Remember
<1> QED
  BY <1>1, <1>2, <1>3, <1>4, <1>5, <1>6, <1>7, <1>8 DEF TaskStep, Launching

LEMMA TaskHeldOf ==
  ASSUME Known, \A u \in Tasks : HeldOf(u), NEW t \in Tasks, TaskStep(t)
  PROVE  \A u \in Tasks : HeldOf(u)'
<1>1. Only(t) /\ Brings(t)
  BY TaskLife, TaskBrings DEF Known
<1>2. Tasks' = Tasks /\ \A u \in Tasks : Host(u)' = Host(u)
  BY <1>1 DEF Only, Tasks, Host
<1>3. HeldOf(t)'
  <2>1. call'[t] \in {"spawn", "note"} => mutex' = t
    <3> USE DEF Known, LifeInv, TasksTyped, HeldOf, Same, Goes, Answers, Fails, handlerVars
    <3>1. CASE Ask(t) \/ GiveUp(t) \/ Await(t) \/ Remove(t) \/ Sweep(t) \/ KillTask(t) \/ Process(t)
      BY <3>1 DEF Ask, GiveUp, Await, Remove, Sweep, KillTask, Process
    <3>2. CASE Load(t) \/ Count(t) \/ Recheck(t) \/ Realise(t)
      BY <3>2 DEF Load, Count, Recheck, Realise
    <3>3. CASE StartHost(t) \/ SpawnHost(t) \/ NoteHost(t)
      BY <3>3 DEF StartHost, SpawnHost, NoteHost
    <3>4. CASE StartImage(t) \/ Remember(t)
      BY <3>4 DEF StartImage, Remember
    <3> QED
      BY <3>1, <3>2, <3>3, <3>4 DEF TaskStep, Launching
  <2>2. ASSUME Host(t), t \in meta', Busy(t)' PROVE dir'[t] = "there"
    <3>1. CASE t \notin meta
      BY <2>2, <3>1, TaskKeepsDir
    <3>2. CASE t \in meta
      <4>1. call[t] # "spawn"
        BY <3>2 DEF Known, LifeInv, LifeOf
      <4>2. Busy(t) /\ dir[t] = "there"
        BY <1>1, <2>2, <3>2, <4>1 DEF Brings, HeldOf
      <4> QED
        BY <2>2, <3>2, <4>2, TaskKeepsDir
    <3> QED
      BY <3>1, <3>2
  <2> QED
    BY <1>2, <2>1, <2>2 DEF HeldOf
<1>4. ASSUME NEW u \in Tasks \ {t} PROVE HeldOf(u)'
  <2>1. Untouched(u) /\ HeldOf(u)
    BY <1>1 DEF Only
  <2>2. call[u] \in {"spawn", "note"} => mutex' = mutex
    BY MutexStays
  <2> QED
    BY <1>2, <2>1, <2>2 DEF Untouched, HeldOf, Busy
<1> QED
  BY <1>3, <1>4

\* A host task becomes busy only past the admission, which finds no host task on record.
LEMMA TaskHeld ==
  ASSUME Known, HeldInv, NEW t \in Tasks, TaskStep(t)
  PROVE  HeldInv'
<1>1. Only(t) /\ Brings(t) /\ \A u \in Tasks : HeldOf(u) /\ HeldOf(u)'
  BY TaskLife, TaskBrings, TaskHeldOf DEF Known, HeldInv
<1>2. /\ Tasks' = Tasks /\ \A u \in Tasks : Host(u)' = Host(u)
      /\ \A u \in Tasks \ {t} : /\ call'[u] = call[u] /\ (Busy(u)' <=> Busy(u))
                                /\ (OnRecord(u)' <=> OnRecord(u))
  BY <1>1 DEF Only, Untouched, Tasks, Host, Busy, OnRecord
<1>3. (OnRecord(t)' /\ Busy(t)') => ((OnRecord(t) /\ Busy(t)) \/ call[t] = "spawn")
  <2> SUFFICES ASSUME OnRecord(t)', Busy(t)', call[t] # "spawn" PROVE OnRecord(t) /\ Busy(t)
    OBVIOUS
  <2>1. Host(t)
    BY <1>2 DEF OnRecord
  <2>2. Busy(t)
    BY <1>1, <2>1 DEF Brings
  <2>3. t \in meta \/ call[t] = "note"
    BY TaskRecords DEF OnRecord
  <2> QED
    BY <2>1, <2>2, <2>3 DEF OnRecord
<1>4. ASSUME NEW v \in Tasks, NEW u \in Tasks, call'[v] = "spawn", OnRecord(u)' PROVE ~Busy(u)'
  <2>1. CASE v = t
    <3>1. ~Busy(t)'
      BY <2>1, <1>4, TaskLife DEF Known, LifeInv, LifeOf, Busy
    <3>2. CASE call[t] = "spawn"
      BY <1>2, <1>4, <3>1, <3>2 DEF HeldInv
    <3>3. CASE call[t] # "spawn"
      <4>1. HostWork = {} /\ mutex = 0
        BY <1>4, <2>1, <3>3, TaskRecords DEF StartHost, Fails, Answers, Goes, Admits, Known, LifeInv,
                                             TasksTyped
      <4>2. ASSUME OnRecord(u), Busy(u) PROVE FALSE
        <5>1. call[u] # "note"
          BY <1>1, <4>1, NumbersAssumption DEF HeldOf, Known, LifeInv, TasksTyped, Tasks
        <5>2. Host(u) /\ u \in meta /\ dir[u] = "there" /\ u \notin killed
          BY <1>1, <4>2, <5>1 DEF OnRecord, HeldOf, Known, QuietInv
        <5> QED
          BY <4>1, <4>2, <5>2, KnownIsWork DEF Known
      <4> QED
        BY <1>2, <1>4, <3>1, <4>2
    <3> QED
      BY <3>2, <3>3
  <2>2. CASE v # t
    <3>1. call[v] = "spawn"
      BY <1>2, <1>4, <2>2
    <3>2. CASE u # t
      BY <1>2, <1>4, <3>1, <3>2 DEF HeldInv
    <3>3. CASE u = t
      <4>1. call[t] # "spawn"
        BY <1>1, <2>2, <3>1 DEF HeldOf
      <4>2. ~(OnRecord(t) /\ Busy(t))
        BY <3>1 DEF HeldInv
      <4> QED
        BY <1>3, <1>4, <3>3, <4>1, <4>2
    <3> QED
      BY <3>2, <3>3
  <2> QED
    BY <2>1, <2>2
<1>5. ASSUME NEW v \in Tasks, NEW u \in Tasks, OnRecord(v)', OnRecord(u)', Busy(v)', Busy(u)'
      PROVE  v = u
  <2>1. CASE call[t] = "spawn"
    BY <1>2, <1>5, <2>1 DEF HeldInv
  <2>2. CASE call[t] # "spawn"
    <3>1. OnRecord(v) /\ Busy(v) /\ OnRecord(u) /\ Busy(u)
      BY <1>2, <1>3, <1>5, <2>2
    <3> QED
      BY <3>1 DEF HeldInv, OneTaskRuns
  <2> QED
    BY <2>1, <2>2
<1>6. OneTaskRuns'
  BY <1>2, <1>5 DEF OneTaskRuns
<1>7. \A v, u \in Tasks' : (call'[v] = "spawn" /\ OnRecord(u)') => ~Busy(u)'
  BY <1>2, <1>4
<1> QED
  BY <1>1, <1>2, <1>6, <1>7 DEF HeldInv

\* A daemon that ends forgets its launches: what had no meta.json is on no record now.
LEMMA RestartHeld ==
  ASSUME LifeInv, HeldInv, Swap \/ Crash
  PROVE  HeldInv'
<1>1. Restarts
  BY DEF Swap, Crash
<1>2. /\ plan' = plan /\ Tasks' = Tasks /\ dir' = dir /\ meta' = meta
      /\ call' = [t \in Tasks |-> "none"]
      /\ command' = [t \in Tasks |-> IF Dies(t) THEN "over" ELSE command[t]]
  BY <1>1 DEF Restarts, DaemonEnds, Tasks
<1>3. \A t \in Tasks : /\ Host(t)' = Host(t) /\ (Busy(t)' => Busy(t))
                       /\ (OnRecord(t)' => OnRecord(t))
  BY <1>2 DEF Host, Busy, OnRecord
<1>4. \A t \in Tasks : HeldOf(t)'
  BY <1>2, <1>3 DEF HeldInv, HeldOf
<1>5. OneTaskRuns'
  BY <1>2, <1>3 DEF HeldInv, OneTaskRuns
<1> QED
  BY <1>2, <1>4, <1>5 DEF HeldInv

LEMMA HeldHolds ==
  /\ Init => HeldInv
  /\ (Gentle => HeldInv) /\ (Gentle => QuietInv) /\ IInv /\ LifeInv /\ GateInv /\ [Next]_vars
     => (Gentle => HeldInv)'
<1>1. ASSUME Init PROVE HeldInv
  <2>1. \A t \in Tasks : command[t] = "none" /\ call[t] = "none"
    BY <1>1 DEF Init, HostInit, Tasks
  <2> QED
    BY <2>1 DEF HeldInv, HeldOf, OneTaskRuns, Busy
<1>2. ASSUME Gentle => HeldInv, Gentle => QuietInv, IInv, LifeInv, GateInv, [Next]_vars, Gentle'
      PROVE  HeldInv'
  <2>1. plan' = plan /\ Tasks' = Tasks
    BY <1>2, PlanStays
  <2>2. Known /\ HeldInv
    BY <1>2, <2>1 DEF Known, Gentle, Tasks, Host, Stubborn
  <2>3. ASSUME NEW t \in Tasks, TaskStep(t) PROVE HeldInv'
    BY <2>2, <2>3, TaskHeld
  <2>4. CASE Swap \/ Crash
    BY <2>2, <2>4, RestartHeld DEF Known
  <2>5. ASSUME UNCHANGED <<plan, hostVars, handlerVars, clientVars>> PROVE HeldInv'
    BY <2>1, <2>2, <2>5 DEF HeldInv, HeldOf, OneTaskRuns, OnRecord, Busy, Host, hostVars, taskVars,
                            handlerVars
  <2> QED
    BY <1>2, <2>3, <2>4, <2>5, QuietSteps DEF Next, TaskStep, vars
<1> QED
  BY <1>1, <1>2

\* Of the host tasks on record at most one runs, on a node whose killed host tasks heed
\* SIGTERM: through refused, failed, given-up and swept launches, kills, refreshes and
\* restarts of the daemon, in scopes and without.
THEOREM OneRuns == Spec => [](Gentle => OneTaskRuns)
<1>1. (Gentle => HeldInv) => (Gentle => OneTaskRuns)
  BY DEF HeldInv
<1> QED
  BY InitHolds, NextHolds, LifeHolds, GateHolds, QuietHolds, HeldHolds, <1>1, PTL DEF Spec
-----------------------------------------------------------------------------
(* The record, and the roots of the tasks that run.                         *)

\* A node where nothing comes between a launch and its meta.json: no crash leaves a
\* process that no directory tells of, since the daemon's tasks die with it or it
\* does not crash, and no given-up launch is swept while it is under way.
Calm ==
  /\ plan.restarts = 0 \/ ~plan.scoped
  /\ ~plan.gives \/ plan.sweeps = 0
\* Tasks that root an environment have keys of their own.
Apart == \A t, u \in Tasks : (Key(t) = Key(u) /\ Key(t) # 0) => t = u

SpentInv == spent \in [refreshes : Nat, cancels : Nat, restarts : Nat, sweeps : Nat]

\* What runs has its directory, and so has a launch in the middle of its start; a host
\* task runs on record.
SlotOf(t) ==
  /\ Busy(t) => dir[t] = "there"
  /\ call[t] \in {"spawn", "note"} => dir[t] = "there"
  /\ (Host(t) /\ Busy(t)) => OnRecord(t)
  /\ (~plan.gives /\ client[t] = "failed") => call[t] = "none"

SlotInv == \A t \in Tasks : SlotOf(t)

\* Everything the argument stands on.
Base == IInv /\ LifeInv /\ GateInv /\ QuietInv /\ SpentInv /\ Gentle /\ Calm

LEMMA SpentHolds ==
  /\ Init => SpentInv
  /\ SpentInv /\ [Next]_vars => SpentInv'
<1>1. ASSUME Init PROVE SpentInv
  BY <1>1 DEF Init, SpentInv
<1>2. ASSUME SpentInv, [Next]_vars PROVE SpentInv'
  <2>1. CASE spent' = spent
    BY <1>2, <2>1 DEF SpentInv
  <2>2. ASSUME NEW what \in {"refreshes", "cancels", "restarts", "sweeps"},
               spent' = [spent EXCEPT ![what] = @ + 1]
        PROVE  SpentInv'
    BY <1>2, <2>2 DEF SpentInv
  <2>3. ASSUME NEW t \in Tasks, TaskStep(t)
        PROVE  spent' = spent \/ spent' = [spent EXCEPT !["sweeps"] = @ + 1]
    <3>1. CASE Ask(t) \/ GiveUp(t) \/ Await(t) \/ Remove(t) \/ KillTask(t) \/ Sweep(t) \/ Process(t)
      BY <3>1 DEF Ask, GiveUp, Await, Remove, KillTask, Sweep, Process, Same, Spend
    <3>2. CASE Load(t) \/ Count(t) \/ Recheck(t) \/ Realise(t)
      BY <3>2 DEF Load, Count, Recheck, Realise, Same
    <3>3. CASE StartHost(t) \/ SpawnHost(t) \/ NoteHost(t) \/ StartImage(t) \/ Remember(t)
      BY <3>3 DEF StartHost, SpawnHost, NoteHost, StartImage, Remember, Same
    <3> QED
      BY <2>3, <3>1, <3>2, <3>3 DEF TaskStep, Launching
  <2>4. ASSUME (\E r \in roots : Age(r)) \/ ReapList \/ Reap \/ Step \/ SwapFails \/ Swap
                 \/ CancelStores \/ CancelLooks \/ UNCHANGED vars
        PROVE  spent' = spent
    BY <2>4 DEF Age, ReapList, Reap, SwapFails, Swap, CancelStores, CancelLooks, Step, Built,
                Quiesce, Drain, CheckHostWork, BeginSwap, OpenSwap, RecheckSwap, StepSame, Same, vars
  <2>5. CASE BeginRefresh \/ Crash \/ CancelReads
    BY <2>2, <2>5 DEF BeginRefresh, Crash, CancelReads, Spend
  <2> QED
    BY <1>2, <2>1, <2>2, <2>3, <2>4, <2>5 DEF Next, TaskStep
<1> QED
  BY <1>1, <1>2

\* A task the sweep finds exited is over.
LEMMA ExitedIsOver ==
  ASSUME LifeInv, QuietInv, NEW t \in Tasks, SlotOf(t), call[t] # "note", Status(t) = "exited"
  PROVE  ~Busy(t)
BY DEF LifeInv, LifeOf, QuietInv, SlotOf, OnRecord, Busy, Status, HostStatus, ByPid, Present

\* The directory of a task that runs stays.
LEMMA ReclaimsOver ==
  ASSUME Base, NEW t \in Tasks, SlotOf(t), Remove(t) \/ Sweep(t)
  PROVE  ~Busy(t) /\ call[t] = "none"
<1>1. CASE Remove(t)
  BY <1>1 DEF Base, Remove, LifeInv, LifeOf, QuietInv, Busy
<1>2. CASE Sweep(t)
  <2>1. ~plan.gives
    BY <1>2 DEF Base, Calm, SpentInv, Sweep, Spend
  <2>2. call[t] = "none" /\ Status(t) = "exited"
    BY <1>2, <2>1 DEF Sweep, SlotOf
  <2> QED
    BY <2>2, ExitedIsOver DEF Base
<1> QED
  BY <1>1, <1>2

LEMMA TaskSlotOf ==
  ASSUME Base, \A u \in Tasks : SlotOf(u), NEW t \in Tasks, TaskStep(t)
  PROVE  \A u \in Tasks : SlotOf(u)'
<1>1. Only(t) /\ LifeInv'
  BY TaskLife DEF Base
<1>2. Tasks' = Tasks /\ \A u \in Tasks : Host(u)' = Host(u)
  BY <1>1 DEF Only, Tasks, Host
<1>3. SlotOf(t)'
  <2> USE DEF LifeInv, TasksTyped, LifeOf, SlotOf, OnRecord, Busy, Host, Same, Goes, Answers,
              hostVars, taskVars, memoryVars, handlerVars, clientVars, Base
  <2>1. CASE Ask(t) \/ GiveUp(t) \/ Await(t)
    BY <2>1 DEF Ask, GiveUp, Await
  <2>2. CASE Remove(t) \/ Sweep(t)
    BY <2>2, ReclaimsOver DEF Remove, Sweep, Reclaims, Detach
  <2>3. CASE KillTask(t)
    BY <2>3 DEF KillTask, Kill
  <2>4. CASE Process(t)
    BY <2>4 DEF Process, CommandEnds, WrapperWrites, Recycle, ReaperWrites, ReaperLeaves, Escalate
  <2>5. CASE Load(t) \/ Count(t) \/ Recheck(t) \/ Realise(t)
    BY <2>5 DEF Load, Count, Recheck, Realise
  <2>6. CASE StartHost(t)
    BY <2>6 DEF StartHost, Fails, CreateDir
  <2>7. CASE SpawnHost(t)
    BY <2>7 DEF SpawnHost, Fails, Spawn, Spawns, Present
  <2>8. CASE NoteHost(t)
    BY <2>8 DEF NoteHost, Fails, WriteMeta, Present
  <2>9. CASE StartImage(t)
    BY <2>9 DEF StartImage, Fails, CreateDir, StartContainer
  <2>10. CASE Remember(t)
    BY <2>10 DEF Remember
  <2> QED
    BY <2>1, <2>2, <2>3, <2>4, <2>5, <2>6, <2>7, <2>8, <2>9, <2>10 DEF TaskStep, Launching
<1>4. ASSUME NEW u \in Tasks \ {t} PROVE SlotOf(u)'
  <2>1. Untouched(u) /\ plan' = plan /\ SlotOf(u)
    BY <1>1 DEF Only
  <2> QED
    BY <1>2, <2>1 DEF Untouched, SlotOf, OnRecord, Busy
<1> QED
  BY <1>2, <1>3, <1>4

\* A crash ends the tasks with the daemon, and at a swap no launch is between its
\* process and its meta.json.
LEMMA RestartSlot ==
  ASSUME Base, SlotInv, Swap \/ Crash
  PROVE  SlotInv'
<1>1. Restarts
  BY DEF Swap, Crash
<1>2. /\ plan' = plan /\ Tasks' = Tasks /\ dir' = dir /\ meta' = meta
      /\ call' = [t \in Tasks |-> "none"]
      /\ command' = [t \in Tasks |-> IF Dies(t) THEN "over" ELSE command[t]]
  BY <1>1 DEF Restarts, DaemonEnds, Tasks
<1>3. \A t \in Tasks : Host(t)' = Host(t) /\ (Busy(t)' => Busy(t))
  BY <1>2 DEF Host, Busy
<1>4. ASSUME NEW t \in Tasks, Host(t), Busy(t)' PROVE t \in meta
  <2>1. CASE Swap
    <3>1. call[t] # "note"
      BY <2>1 DEF Swap, Base, GateInv, Inside
    <3> QED
      BY <1>3, <1>4, <3>1 DEF SlotInv, SlotOf, OnRecord
  <2>2. CASE Crash
    <3>1. ~plan.scoped
      BY <2>2 DEF Crash, Spend, Base, SpentInv, Calm
    <3>2. Busy(t) /\ wrapper[t] = "runs"
      BY <1>3, <1>4 DEF Base, LifeInv, LifeOf, QuietInv, Busy
    <3> QED
      BY <1>2, <1>4, <3>1, <3>2 DEF Dies, Busy
  <2> QED
    BY <2>1, <2>2
<1>5. \A t \in Tasks : SlotOf(t)'
  BY <1>2, <1>3, <1>4 DEF SlotInv, SlotOf, OnRecord
<1> QED
  BY <1>2, <1>5 DEF SlotInv

LEMMA SlotHolds ==
  /\ Init => SlotInv
  /\ ((Gentle /\ Calm) => SlotInv) /\ (Gentle => QuietInv) /\ IInv /\ LifeInv /\ GateInv
       /\ SpentInv /\ [Next]_vars
     => ((Gentle /\ Calm) => SlotInv)'
<1>1. ASSUME Init PROVE SlotInv
  <2>1. \A t \in Tasks : command[t] = "none" /\ call[t] = "none" /\ client[t] = "new"
    BY <1>1 DEF Init, HostInit, Tasks
  <2> QED
    BY <2>1 DEF SlotInv, SlotOf, Busy
<1>2. ASSUME (Gentle /\ Calm) => SlotInv, Gentle => QuietInv, IInv, LifeInv, GateInv, SpentInv,
             [Next]_vars, Gentle', Calm'
      PROVE  SlotInv'
  <2>1. plan' = plan /\ Tasks' = Tasks
    BY <1>2, PlanStays
  <2>2. Base /\ SlotInv
    BY <1>2, <2>1 DEF Base, Gentle, Calm, Tasks, Host, Stubborn
  <2>3. ASSUME NEW t \in Tasks, TaskStep(t) PROVE SlotInv'
    BY <2>1, <2>2, <2>3, TaskSlotOf DEF SlotInv
  <2>4. CASE Swap \/ Crash
    BY <2>2, <2>4, RestartSlot
  <2>5. ASSUME UNCHANGED <<plan, hostVars, handlerVars, clientVars>> PROVE SlotInv'
    BY <2>1, <2>2, <2>5 DEF SlotInv, SlotOf, OnRecord, Busy, Host, hostVars, taskVars, handlerVars,
                            clientVars
  <2> QED
    BY <1>2, <2>3, <2>4, <2>5, QuietSteps DEF Next, TaskStep, vars
<1> QED
  BY <1>1, <1>2

\* Every host task that runs is on record, so OneTaskRuns covers it, on a node that is
\* Calm besides; elsewhere a process may outlive its launch with no meta.json.
THEOREM AllOnRecord ==
  Spec => []((Gentle /\ Calm) => \A t \in Tasks : (Host(t) /\ Busy(t)) => OnRecord(t))
<1>1. ((Gentle /\ Calm) => SlotInv)
      => ((Gentle /\ Calm) => \A t \in Tasks : (Host(t) /\ Busy(t)) => OnRecord(t))
  BY DEF SlotInv, SlotOf
<1> QED
  BY InitHolds, NextHolds, LifeHolds, GateHolds, QuietHolds, SpentHolds, SlotHolds, <1>1, PTL DEF Spec
\* The roots: a task that runs, or is about to, has the root it was given; while it is being
\* launched that root is young; and a pass of the reaper spares the old root of a task
\* that runs.
HasRoot(t) == \E r \in roots : r.key = Key(t) /\ r.by = t
Young(t) == \A r \in roots : r.key = Key(t) => ~r.old
Starting(t) == call[t] \in {"start", "spawn", "note", "remember"}
RootOf(t) ==
  Key(t) # 0 =>
    /\ Busy(t) => HasRoot(t)
    /\ Starting(t) => (HasRoot(t) /\ Young(t))
SparedInv ==
  pass.on => \A t \in Tasks : \A r \in roots :
               (Busy(t) /\ Key(t) # 0 /\ r.key = Key(t) /\ r.old) => r.key \in pass.spare
RootsTyped == \A r \in roots : DOMAIN r = {"key", "by", "old"}
RootsInv == RootsTyped /\ SparedInv /\ \A t \in Tasks : RootOf(t)

\* How a step of task t changes the roots: it takes its own, or gives it back when it is
\* neither running nor starting any more.
Roots(t) ==
  \/ /\ roots' = roots
     /\ Key(t) # 0 => (Starting(t)' => Starting(t))
  \/ /\ roots' = Others(t) \cup {[key |-> Key(t), by |-> t, old |-> FALSE]}
     /\ Key(t) # 0
  \/ /\ roots' = Others(t)
     /\ ~Busy(t)' /\ ~Starting(t)'

LEMMA TaskRoots ==
  ASSUME Base, SlotInv, NEW t \in Tasks, TaskStep(t)
  PROVE  Roots(t) /\ pass' = pass
<1>1. LifeOf(t) /\ SlotOf(t)
  BY DEF Base, LifeInv, SlotInv
<1> USE DEF Roots, Starting, Goes, Answers, Same, handlerVars, rootVars
<1>2. CASE Ask(t) \/ GiveUp(t) \/ Await(t) \/ KillTask(t) \/ Process(t)
  BY <1>2 DEF Ask, GiveUp, Await, KillTask, Process, Base, LifeInv, TasksTyped
<1>3. CASE Remove(t) \/ Sweep(t)
  <2>1. ~Busy(t) /\ call[t] = "none"
    BY <1>1, <1>3, ReclaimsOver
  <2>2. command' = command /\ call' = call /\ pass' = pass
        /\ roots' = (IF t \in rooted THEN Others(t) ELSE roots)
    BY <1>3 DEF Remove, Sweep, Reclaims, Detach, ReleasedIfHeld
  <2> QED
    BY <2>1, <2>2 DEF Busy
<1>4. CASE Load(t) \/ Count(t) \/ Recheck(t)
  BY <1>4 DEF Load, Count, Recheck, Base, LifeInv, TasksTyped
<1>5. CASE Realise(t)
  BY <1>1, <1>5 DEF Realise, Released, Realised, LifeOf, Busy, hostVars, taskVars,
                    Base, LifeInv, TasksTyped
<1>6. CASE StartHost(t) \/ SpawnHost(t)
  <2>1. CASE roots' = roots
    BY <1>6, <2>1 DEF StartHost, SpawnHost, Fails, Base, LifeInv, TasksTyped
  <2>2. CASE roots' # roots
    <3>1. roots' = Released(t) /\ call'[t] = "none" /\ UNCHANGED hostVars /\ command[t] = "none"
      BY <1>1, <1>6, <2>2 DEF StartHost, SpawnHost, Fails, LifeOf, Base, LifeInv, TasksTyped
    <3> QED
      BY <1>6, <3>1 DEF Released, Busy, hostVars, taskVars, StartHost, SpawnHost
  <2>3. pass' = pass
    BY <1>6 DEF StartHost, SpawnHost
  <2> QED
    BY <2>1, <2>2, <2>3
<1>7. CASE NoteHost(t)
  BY <1>1, <1>7 DEF NoteHost, SlotOf, Present, Base, LifeInv, TasksTyped
<1>8. CASE StartImage(t)
  BY <1>1, <1>8 DEF StartImage, Fails, Released, CreateDir, LifeOf, Busy, Base, LifeInv, TasksTyped
<1>9. CASE Remember(t)
  BY <1>9 DEF Remember, Base, LifeInv, TasksTyped
<1> QED
  BY <1>2, <1>3, <1>4, <1>5, <1>6, <1>7, <1>8, <1>9 DEF TaskStep, Launching

LEMMA TaskRootsHeld ==
  ASSUME Base, SlotInv, Apart, RootsInv, NEW t \in Tasks, TaskStep(t)
  PROVE  RootsInv'
<1>1. Only(t) /\ Brings(t) /\ Roots(t) /\ pass' = pass
  BY TaskLife, TaskBrings, TaskRoots DEF Base
<1>2. /\ Tasks' = Tasks /\ \A u \in Tasks : Key(u)' = Key(u)
      /\ \A u \in Tasks \ {t} : (Starting(u)' <=> Starting(u)) /\ (Busy(u)' <=> Busy(u))
  BY <1>1 DEF Only, Untouched, Tasks, Key, Starting, Busy
<1>3. RootsTyped'
  BY <1>1 DEF RootsInv, RootsTyped, Roots, Others
<1>4. Busy(t)' => (Busy(t) \/ Starting(t))
  BY <1>1 DEF Brings, Starting
<1>5. ASSUME NEW u \in Tasks, Key(u) # 0 PROVE RootOf(u)'
  <2>1. CASE u = t
    <3>1. CASE roots' = roots /\ (Starting(t)' => Starting(t))
      <4>1. RootOf(t) /\ Key(t)' = Key(t) /\ Key(t) # 0
        BY <1>2, <1>5, <2>1 DEF RootsInv
      <4>2. (HasRoot(t)' <=> HasRoot(t)) /\ (Young(t)' <=> Young(t))
        BY <3>1, <4>1 DEF HasRoot, Young
      <4>3. RootOf(t)'
        BY <1>4, <3>1, <4>1, <4>2 DEF RootOf
      <4> QED
        BY <2>1, <4>3
    <3>2. CASE roots' = Others(t) \cup {[key |-> Key(t), by |-> t, old |-> FALSE]}
      <4> DEFINE new == [key |-> Key(t), by |-> t, old |-> FALSE]
      <4>1. new \in roots' /\ new.key = Key(t)' /\ new.by = t /\ ~new.old
        BY <1>2, <3>2
      <4>2. HasRoot(t)'
        BY <4>1 DEF HasRoot
      <4>3. Young(t)'
        BY <1>2, <3>2 DEF Young, Others
      <4>4. RootOf(t)'
        BY <4>2, <4>3 DEF RootOf
      <4> QED
        BY <2>1, <4>4
    <3>3. CASE ~Busy(t)' /\ ~Starting(t)'
      BY <2>1, <3>3 DEF RootOf
    <3> QED
      BY <1>1, <1>5, <2>1, <3>1, <3>2, <3>3 DEF Roots
  <2>2. CASE u # t
    <3>1. Key(u) # Key(t)
      BY <1>5, <2>2 DEF Apart
    <3>2. \A r : r.key = Key(u) => (r \in roots' <=> r \in roots)
      BY <1>1, <3>1 DEF Roots, Others
    <3> QED
      BY <1>2, <2>2, <3>2 DEF RootsInv, RootOf, HasRoot, Young
  <2> QED
    BY <2>1, <2>2
<1>6. SparedInv'
  <2> SUFFICES ASSUME pass.on, NEW u \in Tasks, NEW r \in roots', Busy(u)', Key(u) # 0,
                      r.key = Key(u), r.old
               PROVE  r.key \in pass.spare
    BY <1>1, <1>2 DEF SparedInv
  <2>1. CASE r \in roots /\ Busy(u)
    BY <2>1 DEF RootsInv, SparedInv
  <2>2. CASE r \notin roots
    <3>1. r = [key |-> Key(t), by |-> t, old |-> FALSE]
      BY <1>1, <2>2 DEF Roots, Others
    <3> QED
      BY <3>1
  <2>3. CASE r \in roots /\ ~Busy(u)
    <3>1. u = t /\ Starting(t)
      BY <1>2, <1>4, <2>3
    <3> QED
      BY <2>3, <3>1 DEF RootsInv, RootOf, Young
  <2> QED
    BY <2>1, <2>2, <2>3
<1> QED
  BY <1>2, <1>3, <1>5, <1>6 DEF RootsInv, RootOf
\* A root is old only while no launch holds its key, and the reaper takes what nothing
\* running holds.
LEMMA ReaperRoots ==
  ASSUME Base, SlotInv, Apart, RootsInv, (\E r \in roots : Age(r)) \/ ReapList \/ Reap
  PROVE  RootsInv'
<1>1. UNCHANGED <<plan, hostVars, handlerVars, clientVars>>
  BY QuietSteps
<1>2. /\ Tasks' = Tasks
      /\ \A t \in Tasks : Key(t)' = Key(t) /\ (Busy(t)' <=> Busy(t)) /\ (Starting(t)' <=> Starting(t))
  BY <1>1 DEF Tasks, Key, Busy, Starting, hostVars, taskVars, handlerVars
<1>3. ASSUME NEW r \in roots, Age(r) PROVE RootsInv'
  <2> DEFINE q == [r EXCEPT !.old = TRUE]
  <2>1. /\ ~pass.on /\ pass' = pass /\ roots' = (roots \ {r}) \cup {q}
        /\ \A t \in Tasks : Key(t) = r.key => call[t] = "none"
    BY <1>3 DEF Age, Same
  <2>2. q.key = r.key /\ q.by = r.by /\ DOMAIN q = {"key", "by", "old"}
    BY DEF RootsInv, RootsTyped
  <2> HIDE DEF q
  <2>3. RootsTyped'
    BY <2>1, <2>2 DEF RootsInv, RootsTyped
  <2>4. ASSUME NEW t \in Tasks PROVE RootOf(t)'
    <3>1. HasRoot(t) => HasRoot(t)'
      <4> SUFFICES ASSUME NEW s \in roots, s.key = Key(t), s.by = t PROVE HasRoot(t)'
        BY DEF HasRoot
      <4>1. CASE s = r
        BY <1>2, <2>1, <2>2, <4>1 DEF HasRoot
      <4>2. CASE s # r
        BY <1>2, <2>1, <4>2 DEF HasRoot
      <4> QED
        BY <4>1, <4>2
    <3>2. Starting(t) => (Young(t) => Young(t)')
      BY <1>2, <2>1, <2>2 DEF Starting, Young
    <3> QED
      BY <1>2, <3>1, <3>2 DEF RootsInv, RootOf
  <2> QED
    BY <1>2, <2>1, <2>3, <2>4 DEF RootsInv, SparedInv
<1>4. CASE ReapList
  <2>1. roots' = roots /\ pass' = [on |-> TRUE, spare |-> Spared]
    BY <1>4 DEF ReapList, Same
  <2>2. ASSUME NEW t \in Tasks, NEW r \in roots, Busy(t), Key(t) # 0, r.key = Key(t), r.old
        PROVE  r.key \in Spared
    <3>1. call[t] # "note" /\ SlotOf(t)
      BY <2>2 DEF RootsInv, RootOf, Starting, Young, SlotInv
    <3>2. t \notin killed
      BY <2>2 DEF Base, QuietInv
    <3>3. Status(t) = "running"
      <4>1. CASE Host(t)
        BY <2>2, <3>1, <3>2, <4>1, KnownIsWork DEF SlotOf, OnRecord, Base, HostWork
      <4>2. CASE ~Host(t)
        BY <2>2, <3>1, <4>2 DEF SlotOf, Status, Present, Busy
      <4> QED
        BY <4>1, <4>2
    <3> QED
      BY <2>2, <3>3 DEF Spared
  <2> QED
    BY <1>2, <2>1, <2>2 DEF RootsInv, SparedInv, RootsTyped, RootOf, HasRoot, Young
<1>5. CASE Reap
  <2>1. pass.on /\ roots' = {r \in roots : ~(r.old /\ r.key \notin pass.spare)} /\ ~pass'.on
    BY <1>5 DEF Reap, Stale
  <2>2. ASSUME NEW t \in Tasks, Key(t) # 0 PROVE RootOf(t)'
    <3>1. Young(t) => Young(t)'
      BY <1>2, <2>1 DEF Young
    <3>2. (Starting(t) /\ Young(t) /\ HasRoot(t)) => HasRoot(t)'
      BY <1>2, <2>1 DEF Young, HasRoot
    <3>3. (Busy(t) /\ HasRoot(t)) => HasRoot(t)'
      BY <1>2, <2>1, <2>2 DEF HasRoot, RootsInv, SparedInv
    <3> QED
      BY <1>2, <2>2, <3>1, <3>2, <3>3 DEF RootsInv, RootOf
  <2> QED
    BY <1>2, <2>1, <2>2 DEF RootsInv, SparedInv, RootsTyped, RootOf
<1> QED
  BY <1>3, <1>4, <1>5

LEMMA RootsHold ==
  /\ Init => RootsInv
  /\ ((Gentle /\ Calm /\ Apart) => RootsInv) /\ ((Gentle /\ Calm) => SlotInv)
       /\ (Gentle => QuietInv) /\ IInv /\ LifeInv /\ GateInv /\ SpentInv /\ [Next]_vars
     => ((Gentle /\ Calm /\ Apart) => RootsInv)'
<1>1. ASSUME Init PROVE RootsInv
  <2>1. \A t \in Tasks : command[t] = "none" /\ call[t] = "none"
    BY <1>1 DEF Init, HostInit, Tasks
  <2>2. roots = {} /\ ~pass.on
    BY <1>1 DEF Init
  <2> QED
    BY <2>1, <2>2 DEF RootsInv, RootsTyped, SparedInv, RootOf, Starting, Busy
<1>2. ASSUME (Gentle /\ Calm /\ Apart) => RootsInv, (Gentle /\ Calm) => SlotInv,
             Gentle => QuietInv, IInv, LifeInv, GateInv, SpentInv,
             [Next]_vars, Gentle', Calm', Apart'
      PROVE  RootsInv'
  <2>1. plan' = plan /\ Tasks' = Tasks /\ \A t \in Tasks : Key(t)' = Key(t)
    BY <1>2, PlanStays DEF Key
  <2>2. Base /\ SlotInv /\ Apart /\ RootsInv
    BY <1>2, <2>1 DEF Base, Gentle, Calm, Tasks, Host, Stubborn, Apart
  <2>3. ASSUME NEW t \in Tasks, TaskStep(t) PROVE RootsInv'
    BY <2>2, <2>3, TaskRootsHeld
  <2>4. CASE (\E r \in roots : Age(r)) \/ ReapList \/ Reap
    BY <2>2, <2>4, ReaperRoots
  <2>5. CASE Swap \/ Crash
    <3>1. /\ roots' = roots /\ ~pass'.on /\ call' = [t \in Tasks |-> "none"]
          /\ command' = [t \in Tasks |-> IF Dies(t) THEN "over" ELSE command[t]]
      BY <2>5 DEF Swap, Crash, Restarts, DaemonEnds
    <3>2. \A t \in Tasks : (Busy(t)' => Busy(t)) /\ ~Starting(t)'
      BY <3>1 DEF Busy, Starting
    <3> QED
      BY <2>1, <2>2, <3>1, <3>2 DEF RootsInv, RootsTyped, SparedInv, RootOf, HasRoot
  <2>6. CASE BeginRefresh \/ Step \/ SwapFails \/ CancelReads \/ CancelStores \/ CancelLooks
             \/ UNCHANGED vars
    <3>1. UNCHANGED <<roots, pass>>
      BY <2>6 DEF BeginRefresh, SwapFails, CancelReads, CancelStores, CancelLooks, CancelSame, Step,
                  Built, Quiesce, Drain, CheckHostWork, BeginSwap, OpenSwap, RecheckSwap,
                  StepSame, Same, rootVars, vars
    <3>2. UNCHANGED <<command, call>>
      BY <2>6, QuietSteps DEF vars, hostVars, taskVars, handlerVars
    <3> QED
      BY <2>1, <2>2, <3>1, <3>2 DEF RootsInv, RootsTyped, SparedInv, RootOf, HasRoot, Young, Starting,
                                    Busy
  <2> QED
    BY <1>2, <2>3, <2>4, <2>5, <2>6 DEF Next, TaskStep
<1> QED
  BY <1>1, <1>2

\* A running task that was realised keeps the root it was given, on a calm node whose tasks
\* heed SIGTERM and have keys of their own: the reaper, the other launches, a refresh and
\* a restart leave it.
THEOREM RootsAreHeld == Spec => []((Gentle /\ Calm /\ Apart) => RootHeld)
<1>1. ((Gentle /\ Calm /\ Apart) => RootsInv) => ((Gentle /\ Calm /\ Apart) => RootHeld)
  BY DEF RootsInv, RootOf, HasRoot, RootHeld
<1> QED
  BY InitHolds, NextHolds, LifeHolds, GateHolds, QuietHolds, SpentHolds, SlotHolds, RootsHold, <1>1,
     PTL DEF Spec
================================================================================
