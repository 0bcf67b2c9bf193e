------------------------ MODULE Execution_kept_proofs ------------------------
(***************************************************************************)
(* One task at a time, an inbox that is true, and what lands.              *)
(*                                                                         *)
(* The order of the chores, the one task that is open, what the chores are *)
(* for and what a round waits for hold only together (OneTask): a chore is *)
(* alone because the task before it is over, and a task is alone because no *)
(* chore is left that would open another.                                  *)
(***************************************************************************)
EXTENDS Execution_proofs

-----------------------------------------------------------------------------
(* Tasks for a human. *)

\* Steps that leave the tasks and the containers alone, and attach to nothing more.
Plain ==
    \/ EnterWork \/ EnterRefused \/ Unclaim \/ PlaceFails \/ Stamp \/ EnterEvaluation \/ InstallSlots
    \/ Settle \/ Finalize \/ Escalate \/ Retry \/ PreworkRetry \/ Rebuild \/ StartJob \/ Revoke

LEMMA PlainIs ==
    ASSUME TypeOK, Plain
    PROVE  /\ Fixed /\ SameTasks /\ box' = box
           /\ tip' = tip /\ draining' = draining /\ crashes' = crashes
           /\ \A x \in Left' : x.op \in {"attach", "recover"} => x \in After
           /\ \A x \in Left' : x.op # "place" \/ x \in After
<1>0. TodoTyped /\ KindTyped
  BY DEF TypeOK
<1>1. CASE EnterWork
  BY <1>1, EnterWorkIs DEF Calm
<1>2. CASE EnterRefused
  BY <1>2, EnterRefusedIs DEF Calm
<1>3. CASE Unclaim
  BY <1>3, UnclaimIs DEF Calm
<1>4. CASE PlaceFails
  BY <1>4, PlaceFailsIs DEF Calm
<1>5. CASE Stamp
  BY <1>5, StampIs
<1>6. CASE EnterEvaluation
  <2>1. CASE Left' = After
    BY <1>6, <2>1, EnterEvaluationIs DEF Calm
  <2>2. CASE Left' = {[op |-> "finalize", cycle |-> 0, n |-> 0, of |-> "none"]} \cup After
    BY <1>6, <2>2, EnterEvaluationIs DEF Calm
  <2>3. CASE 1 \in 1..Len(Stages) /\ Then(LaunchStage(1))
    <3>1. \A x \in Left' : \/ x.op = "launch"
                           \/ x = [op |-> "slots", cycle |-> 0, n |-> 1, of |-> "all"]
                           \/ x \in After
      BY <1>0, <2>3, StageLaunched
    <3> QED
      BY <1>6, <3>1, EnterEvaluationIs DEF Calm
  <2> QED
    BY <1>6, <2>1, <2>2, <2>3, EnterEvaluationIs
<1>7. CASE InstallSlots
  BY <1>7, InstallSlotsCalm DEF Calm
<1>8. CASE Settle
  <2>1. CASE Left' = After
    BY <1>8, <2>1, SettleIs DEF Calm
  <2>2. CASE slice.round.stage + 1 \in 1..Len(Stages) /\ Then(LaunchStage(slice.round.stage + 1))
    <3>1. PICK i \in 1..Len(Stages) : i = slice.round.stage + 1 /\ Then(LaunchStage(i))
      BY <2>2
    <3>2. \A x \in Left' : \/ x.op = "launch"
                           \/ x = [op |-> "slots", cycle |-> 0, n |-> i, of |-> "all"]
                           \/ x \in After
      BY <1>0, <3>1, StageLaunched
    <3> QED
      BY <1>8, <3>2, SettleIs DEF Calm
  <2>3. CASE \E why \in {"infra", "abort", "rework"} :
               Left' = {[op |-> "escalate", cycle |-> 0, n |-> 0, of |-> why]} \cup After
    BY <1>8, <2>3, SettleIs DEF Calm
  <2>4. CASE Left' = {[op |-> "finalize", cycle |-> 0, n |-> 0, of |-> "none"]} \cup After
    BY <1>8, <2>4, SettleIs DEF Calm
  <2>5. CASE Left' = {[op |-> "enter", cycle |-> slice.cycle + 1, n |-> 0, of |-> "none"]} \cup After
    BY <1>8, <2>5, SettleIs DEF Calm
  <2> QED
    BY <1>8, <2>1, <2>2, <2>3, <2>4, <2>5, SettleIs
<1>9. CASE Finalize
  BY <1>9, FinalizeIs DEF Calm
<1>10. CASE Escalate
  BY <1>10, EscalateIs DEF Calm
<1>11. CASE Retry
  <2>1. CASE Left' = {[op |-> "evaluate", cycle |-> 0, n |-> 0, of |-> "none"]} \cup After
    BY <1>11, <2>1, RetriedIs DEF Calm
  <2>2. CASE \E n \in Nat : Left' =
                {[op |-> "attempt", cycle |-> slice'.cycle, n |-> n, of |-> "none"]} \cup After
    BY <1>11, <2>2, RetriedIs DEF Calm
  <2> QED
    BY <1>11, <2>1, <2>2, RetriedIs
<1>12. CASE PreworkRetry
  BY <1>12, PreworkRetryIs DEF Calm
<1>13. CASE Rebuild
  BY <1>13, RebuildIs DEF Calm
<1>14. CASE StartJob
  BY <1>14, StartJobIs DEF Calm
<1>15. CASE Revoke
  BY <1>15, RevokeIs DEF Calm
<1> QED
  BY <1>1, <1>2, <1>3, <1>4, <1>5, <1>6, <1>7, <1>8, <1>9, <1>10, <1>11, <1>12, <1>13, <1>14,
     <1>15 DEF Plain

\* A task for a human has no container, and no restart looks for one.
HumanTask(t) == log[t].phase = "Evaluation" /\ EvType[log[t].about] = "human"
HumansWait ==
    /\ \A t \in Tasks : Pending(t) => box[t] = "none"
    /\ \A t \in Tasks : HumanTask(t) => log[t].st # "Running" /\ box[t] = "none"
    /\ \A x \in Left : x.op = "attach" => ~HumanTask(x.n)

LEMMA HumansStay ==
    ASSUME TypeOK, HumansWait, Tasks' = Tasks,
           \A t \in Tasks : /\ log'[t].phase = log[t].phase /\ log'[t].about = log[t].about
                            /\ log'[t].st = log[t].st \/ log'[t].st \in {"Done", "Failed"}
                            /\ box'[t] = box[t] \/ box[t] # "none",
           \A x \in Left' : x.op = "attach" => x \in Left
    PROVE  HumansWait'
<1>1. ASSUME NEW t \in Tasks', Pending(t)' PROVE box'[t] = "none"
  BY <1>1 DEF HumansWait, Pending
<1>2. ASSUME NEW t \in Tasks', HumanTask(t)' PROVE log'[t].st # "Running" /\ box'[t] = "none"
  BY <1>2 DEF HumansWait, HumanTask
<1>3. ASSUME NEW x \in Left', x.op = "attach" PROVE ~HumanTask(x.n)'
  <2>1. x \in Left /\ x.n \in Tasks /\ ~HumanTask(x.n)
    BY <1>3 DEF HumansWait, TypeOK, TodoTyped, ChoreTyped
  <2>2. PICK t \in Tasks : t = x.n
    BY <2>1
  <2> QED
    BY <2>1, <2>2 DEF HumanTask
<1> QED
  BY <1>1, <1>2, <1>3 DEF HumansWait

LEMMA HumansAdd ==
    ASSUME TypeOK, HumansWait, NEW r, Adds(r),
           r.phase = "Evaluation" /\ EvType[r.about] = "human" => r.st = "Pending",
           \A x \in Left' : x.op = "attach" => x \in Left
    PROVE  HumansWait'
<1>1. ASSUME NEW t \in Tasks', Pending(t)' PROVE box'[t] = "none"
  BY <1>1 DEF HumansWait, Pending, Adds
<1>2. ASSUME NEW t \in Tasks', HumanTask(t)' PROVE log'[t].st # "Running" /\ box'[t] = "none"
  BY <1>2 DEF HumansWait, HumanTask, Adds
<1>3. ASSUME NEW x \in Left', x.op = "attach" PROVE ~HumanTask(x.n)'
  <2>1. x \in Left /\ x.n \in Tasks /\ ~HumanTask(x.n)
    BY <1>3 DEF HumansWait, TypeOK, TodoTyped, ChoreTyped
  <2>2. PICK t \in Tasks : t = x.n
    BY <2>1
  <2> QED
    BY <2>1, <2>2 DEF HumanTask, Adds
<1> QED
  BY <1>1, <1>2, <1>3 DEF HumansWait

\* The end of a task, whoever finds it, leaves its nature and closes it.
LEMMA EndsKeep ==
    ASSUME TypeOK, NEW t \in Tasks, TaskEnds(t)
    PROVE  /\ Fixed /\ Tasks' = Tasks
           /\ \A u \in Tasks : /\ log'[u].phase = log[u].phase /\ log'[u].about = log[u].about
                               /\ log'[u].cycle = log[u].cycle /\ log'[u].tip = log[u].tip
                               /\ log'[u].st = log[u].st \/ (u = t /\ log'[u].st \in {"Done", "Failed"})
           /\ \A x \in Left' : x.op \in {"attach", "recover", "place", "sweep", "rebuild"} => x \in After
<1>1. \A u \in Tasks \ {t} : log'[u] = log[u]
  BY DEF TaskEnds
<1>2. Fixed /\ Tasks' = Tasks /\ Same(t, log'[t])
  BY DEF TaskEnds
<1>3. /\ log'[t].st = log[t].st \/ log'[t].st \in {"Done", "Failed"}
      /\ \A x \in Left' : x.op \in {"attach", "recover", "place", "sweep", "rebuild"} => x \in After
  <2>1. CASE TaskKept
    BY <2>1 DEF TaskKept
  <2>2. CASE WorkEnded(t)
    <3>1. log'[t].st \in {"Done", "Failed"}
      BY <2>2 DEF WorkEnded
    <3>2. CASE Left' = {[op |-> "evaluate", cycle |-> 0, n |-> 0, of |-> "none"]} \cup After
      BY <3>1, <3>2
    <3>3. CASE \E n \in Nat : Left' =
                 {[op |-> "attempt", cycle |-> log[t].cycle, n |-> n, of |-> "none"]} \cup After
      BY <3>1, <3>3
    <3>4. CASE \E why \in {"work", "loss"} :
                 Left' = {[op |-> "escalate", cycle |-> 0, n |-> t, of |-> why]} \cup After
      BY <3>1, <3>4
    <3> QED
      BY <2>2, <3>2, <3>3, <3>4 DEF WorkEnded
  <2>3. CASE SlotAgain(t)
    <3>1. log'[t].st \in {"Done", "Failed"}
      BY <2>3 DEF SlotAgain
    <3>2. \/ \E n \in Nat : Left' =
            {[op |-> "launch", cycle |-> 0, n |-> n, of |-> log[t].about],
             [op |-> "slots", cycle |-> 0, n |-> 0, of |-> log[t].about]} \cup After
          \/ Left' = {[op |-> "escalate", cycle |-> 0, n |-> t, of |-> "loss"]} \cup After
      BY <2>3 DEF SlotAgain
    <3> QED
      BY <3>1, <3>2
  <2>4. CASE SlotEnded(t)
    BY <2>4 DEF SlotEnded
  <2>5. CASE SlotNone(t)
    BY <2>5 DEF SlotNone
  <2> QED
    BY <2>1, <2>2, <2>3, <2>4, <2>5 DEF TaskEnds
<1>4. /\ log'[t].phase = log[t].phase /\ log'[t].about = log[t].about
      /\ log'[t].cycle = log[t].cycle /\ log'[t].tip = log[t].tip
  BY <1>2 DEF Same
<1> QED
  BY <1>1, <1>2, <1>3, <1>4

\* What an answer changes, of its own task.
LEMMA AnswerKeeps ==
    ASSUME NEW t \in Tasks, NEW st \in {"Done", "Failed"}, NEW v, Answered(t, st, v)
    PROVE  /\ Tasks' = Tasks
           /\ \A u \in Tasks : /\ log'[u].phase = log[u].phase /\ log'[u].about = log[u].about
                               /\ log'[u].cycle = log[u].cycle /\ log'[u].tip = log[u].tip
                               /\ log'[u].st = log[u].st \/ (u = t /\ log'[u].st \in {"Done", "Failed"})
BY DEF Answered

LEMMA HumansNext ==
    ASSUME TypeOK, HumansWait, [Next]_vars
    PROVE  HumansWait'
<1>0. /\ TodoTyped /\ KindTyped /\ LogTyped /\ After \subseteq Left /\ (Idle => Left = {} /\ After = {})
  BY AfterIs DEF TypeOK
<1>1. CASE Plain
  BY <1>0, <1>1, PlainIs, HumansStay DEF SameTasks, Alike
<1>2. CASE StartAttempt
  <2>1. CASE Calm /\ Left' = After
    BY <1>0, <2>1, HumansStay DEF Calm, SameTasks, Alike
  <2>2. CASE ~(Calm /\ Left' = After)
    <3>1. PICK r : /\ Adds(r) /\ r.phase = "Work"
                   /\ \A x \in Left' : x \in After \/ x.op = "unclaim" \/ x.op = "place"
      BY <1>2, <2>2, StartAttemptIs
    <3> QED
      BY <1>0, <3>1, HumansAdd
  <2> QED
    BY <2>1, <2>2
<1>3. CASE Place
  <2>1. PICK u \in Tasks : u = todo[1].n /\ log[u].st = "Running"
    <3>1. ~Idle /\ todo[1].op = "place" /\ todo[1] \in Left /\ todo[1].n \in Tasks
      BY <1>0, <1>3, PlaceIs, HeadIs
    <3>2. ChoreTyped(todo[1])
      BY <3>1 DEF TypeOK, TodoTyped
    <3> QED
      BY <3>1, <3>2 DEF ChoreTyped
  <2>2. SameTasks /\ \A t \in Tasks : t # u => box'[t] = box[t]
    BY <1>3, <2>1, PlaceIs
  <2>3. ~HumanTask(u) /\ ~Pending(u)
    BY <2>1 DEF HumansWait, Pending
  <2>4. \A x \in Left' : x.op = "attach" => x \in Left
    BY <1>0, <1>3, PlaceIs
  <2>5. ASSUME NEW t \in Tasks', Pending(t)' PROVE box'[t] = "none"
    BY <2>2, <2>3, <2>5 DEF HumansWait, Pending, SameTasks, Alike
  <2>6. ASSUME NEW t \in Tasks', HumanTask(t)' PROVE log'[t].st # "Running" /\ box'[t] = "none"
    BY <2>2, <2>3, <2>6 DEF HumansWait, HumanTask, SameTasks, Alike
  <2>7. ASSUME NEW x \in Left', x.op = "attach" PROVE ~HumanTask(x.n)'
    <3>1. x \in Left /\ x.n \in Tasks /\ ~HumanTask(x.n)
      BY <2>4, <2>7 DEF HumansWait, TypeOK, TodoTyped, ChoreTyped
    <3>2. PICK t \in Tasks : t = x.n
      BY <3>1
    <3> QED
      BY <2>2, <3>1, <3>2 DEF HumanTask, SameTasks, Alike
  <2> QED
    BY <2>5, <2>6, <2>7 DEF HumansWait
<1>4. CASE LaunchEvaluator
  <2>1. PICK r : /\ Adds(r) /\ r.about = todo[1].of
                 /\ \/ EvType[todo[1].of] = "human" /\ r.st = "Pending" /\ Left' = After
                    \/ /\ EvType[todo[1].of] # "human"
                       /\ Left' = {[op |-> "place", cycle |-> 0, n |-> Len(log) + 1, of |-> "none"]}
                                  \cup After
    BY <1>4, LaunchEvaluatorIs
  <2>2. \A x \in Left' : x.op = "attach" => x \in Left
    BY <1>0, <2>1
  <2>3. r.phase = "Evaluation" /\ EvType[r.about] = "human" => r.st = "Pending"
    BY <2>1
  <2> QED
    BY <2>1, <2>2, <2>3, HumansAdd
<1>5. CASE FillInbox
  <2>1. PICK r : Adds(r) /\ r.phase = "Escalation"
    BY <1>5, FillInboxIs
  <2> QED
    BY <1>0, <1>5, <2>1, FillInboxIs, HumansAdd
<1>6. CASE RevokeJob
  <2>1. Tasks' = Tasks /\ \A x \in Left' : x \in Left
    BY <1>0, <1>6, RevokeJobIs
  <2>2. \A t \in Tasks : box'[t] = box[t] \/ box[t] # "none"
    BY <1>6, RevokeJobIs
  <2>3. \A t \in Tasks : log'[t] = log[t] \/ log'[t] = [log[t] EXCEPT !.st = "Done", !.verdict = "closed"]
    BY <1>6, RevokeJobIs
  <2>4. ASSUME NEW t \in Tasks
        PROVE  /\ log'[t].phase = log[t].phase /\ log'[t].about = log[t].about
               /\ log'[t].st = log[t].st \/ log'[t].st \in {"Done", "Failed"}
    <3>1. log[t] \in TaskRecords
      BY <1>0, TasksAre
    <3> QED
      BY <2>3, <3>1 DEF TaskRecords
  <2> QED
    BY <2>1, <2>2, <2>4, HumansStay
<1>7. CASE Recover
  <2>0. SameTasks /\ box' = box
    BY <1>7, RecoverLeft DEF Calm
  <2>1. \A x \in Left' : x.op = "attach" =>
           x \in Left \/ \E t \in Tasks : t = x.n /\ (log[t].phase = "Work" \/ log[t].st = "Running")
    <3>1. CASE \E x : x.op # "attach" /\ Left' = {x} \cup After
      BY <1>0, <3>1
    <3>2. CASE \E t \in Tasks : log[t].phase = "Work" /\
                 Left' = {[op |-> "attach", cycle |-> 0, n |-> t, of |-> "none"]} \cup After
      BY <1>0, <3>2
    <3>3. CASE job = "Evaluation" /\ Stages # <<>> /\ Then(RecoverEvaluation(TopCycle))
      <4>1. PICK l : l = RecoverEvaluation(TopCycle) /\ TopCycle \in Nat
        BY <1>0, TopCycleIs
      <4>2. l \in Seq(Chores) /\ \A x \in ToSet(l) : x.op = "attach" =>
               \E t \in Tasks : t = x.n /\ log[t].st = "Running"
        <5>1. PICK evs : evs = Stages[RoundFromLog(TopCycle).stage]
          OBVIOUS
        <5>2. /\ l \in Seq(Chores)
              /\ \A x \in ToSet(l) :
                   \/ \E ev \in evs : x = [op |-> "launch", cycle |-> 0, n |-> 1, of |-> ev]
                   \/ x = [op |-> "rebuild", cycle |-> TopCycle, n |-> 0, of |-> "none"]
                   \/ \E t \in Tasks : /\ x = [op |-> "attach", cycle |-> 0, n |-> t, of |-> "none"]
                                       /\ log[t].st = "Running"
                   \/ x = [op |-> "settle", cycle |-> 0, n |-> 0, of |-> "none"]
          <6>1. /\ l \in Seq(Chores)
                /\ \A x \in ToSet(l) :
                     \/ \E ev \in evs :
                          /\ x = [op |-> "launch", cycle |-> 0, n |-> 1, of |-> ev]
                          /\ Latest(Lineage("Evaluation", TopCycle, ev)) = 0
                     \/ x = [op |-> "rebuild", cycle |-> TopCycle, n |-> 0, of |-> "none"]
                     \/ \E ev \in evs : \E t \in Tasks :
                          /\ x = [op |-> "attach", cycle |-> 0, n |-> t, of |-> "none"]
                          /\ t = Latest(Lineage("Evaluation", TopCycle, ev)) /\ log[t].st = "Running"
                          /\ log[t].phase = "Evaluation" /\ log[t].cycle = TopCycle
                          /\ log[t].about = ev
                     \/ x = [op |-> "settle", cycle |-> 0, n |-> 0, of |-> "none"]
            BY <1>0, <3>3, <4>1, <5>1, RecoverEvaluationIs
          <6> QED
            BY <6>1
        <5>3. ASSUME NEW x \in ToSet(l), x.op = "attach"
              PROVE  \E t \in Tasks : t = x.n /\ log[t].st = "Running"
          <6>1. CASE \E t \in Tasks : /\ x = [op |-> "attach", cycle |-> 0, n |-> t, of |-> "none"]
                                       /\ log[t].st = "Running"
            BY <6>1
          <6> QED
            BY <5>2, <5>3, <6>1
        <5> QED
          BY <5>2, <5>3
      <4>3. Left' = ToSet(l) \cup After
        BY <1>0, <3>3, <4>1, <4>2, ThenLeft
      <4> QED
        BY <1>0, <4>2, <4>3
    <3>4. \/ Left' = After
          \/ Left' = {[op |-> "inbox", cycle |-> 0, n |-> 0, of |-> "none"]} \cup After
          \/ \E t \in Tasks : log[t].phase = "Work" /\
                 Left' = {[op |-> "attach", cycle |-> 0, n |-> t, of |-> "none"]} \cup After
          \/ \E n \in Nat : Left' =
               {[op |-> "attempt", cycle |-> TopCycle, n |-> n, of |-> "none"]} \cup After
          \/ \E t \in Tasks : Left' =
               {[op |-> "escalate", cycle |-> 0, n |-> t, of |-> "work"]} \cup After
          \/ Left' = {[op |-> "evaluate", cycle |-> 0, n |-> 0, of |-> "none"]} \cup After
          \/ Left' = {[op |-> "finalize", cycle |-> 0, n |-> 0, of |-> "none"]} \cup After
          \/ job = "Evaluation" /\ Stages # <<>> /\ Then(RecoverEvaluation(TopCycle))
      BY <1>7, RecoverLeft
    <3>5. CASE Left' = After
      BY <1>0, <3>5
    <3>6. CASE Left' = {[op |-> "inbox", cycle |-> 0, n |-> 0, of |-> "none"]} \cup After
      BY <1>0, <3>6
    <3>7. CASE \E n \in Nat : Left' =
               {[op |-> "attempt", cycle |-> TopCycle, n |-> n, of |-> "none"]} \cup After
      BY <1>0, <3>7
    <3>8. CASE \E t \in Tasks : Left' =
               {[op |-> "escalate", cycle |-> 0, n |-> t, of |-> "work"]} \cup After
      BY <1>0, <3>8
    <3>9. CASE Left' = {[op |-> "evaluate", cycle |-> 0, n |-> 0, of |-> "none"]} \cup After
      BY <1>0, <3>9
    <3>10. CASE Left' = {[op |-> "finalize", cycle |-> 0, n |-> 0, of |-> "none"]} \cup After
      BY <1>0, <3>10
    <3> QED
      BY <3>2, <3>3, <3>4, <3>5, <3>6, <3>7, <3>8, <3>9, <3>10
  <2>2. ASSUME NEW x \in Left', x.op = "attach" PROVE ~HumanTask(x.n)'
    <3>1. CASE x \in Left
      <4>1. PICK t \in Tasks : t = x.n /\ ~HumanTask(t)
        BY <2>2, <3>1 DEF HumansWait, TypeOK, TodoTyped, ChoreTyped
      <4> QED
        BY <2>0, <4>1 DEF HumanTask, SameTasks, Alike
    <3>2. CASE x \notin Left
      <4>1. PICK t \in Tasks : t = x.n /\ (log[t].phase = "Work" \/ log[t].st = "Running")
        BY <2>1, <2>2, <3>2
      <4> QED
        BY <2>0, <4>1 DEF HumansWait, HumanTask, SameTasks, Alike
    <3> QED
      BY <3>1, <3>2
  <2>3. ASSUME NEW t \in Tasks', Pending(t)' PROVE box'[t] = "none"
    BY <2>0, <2>3 DEF HumansWait, Pending, SameTasks, Alike
  <2>4. ASSUME NEW t \in Tasks', HumanTask(t)' PROVE log'[t].st # "Running" /\ box'[t] = "none"
    BY <2>0, <2>4 DEF HumansWait, HumanTask, SameTasks, Alike
  <2> QED
    BY <2>2, <2>3, <2>4 DEF HumansWait
<1>8. CASE Attach
  <2>1. PICK t \in Tasks : t = todo[1].n /\ TaskEnds(t) /\ box' = box
    BY <1>8, AttachEnds
  <2> QED
    BY <1>0, <2>1, EndsKeep, HumansStay
<1>9. CASE Sweep
  <2>1. \A t \in Tasks : box'[t] = box[t] \/ box[t] # "none"
    BY <1>9, SweepIs
  <2> QED
    BY <1>9, <2>1, SweepIs, HumansStay DEF SameTasks, Alike
<1>10. CASE DeadlineScan
  <2>1. \A t \in Tasks : box'[t] = box[t] \/ box[t] # "none"
    BY <1>10, DeadlineScanIs
  <2>2. \A x \in Left' : x.op # "attach"
    BY <1>10, DeadlineScanIs
  <2>3. SameTasks
    BY <1>10, DeadlineScanIs
  <2> QED
    BY <2>1, <2>2, <2>3, HumansStay DEF SameTasks, Alike
<1>11. ASSUME NEW t \in Tasks, TimeoutScan(t) PROVE HumansWait'
  <2>1. TaskEnds(t) /\ \A u \in Tasks : box'[u] = box[u] \/ box[u] # "none"
    BY <1>11, TimeoutEnds
  <2> QED
    BY <1>0, <2>1, EndsKeep, HumansStay
<1>12. ASSUME NEW t \in Tasks, Exit(t) PROVE HumansWait'
  <2>1. TaskEnds(t) /\ box[t] \in Ended /\ \A u \in Tasks : box'[u] = IF u = t THEN "gone" ELSE box[u]
    BY <1>12, ExitEnds
  <2>2. \A u \in Tasks : box'[u] = box[u] \/ box[u] # "none"
    BY <2>1 DEF Ended
  <2> QED
    BY <1>0, <2>1, <2>2, EndsKeep, HumansStay
<1>13. ASSUME NEW t \in Tasks, ContainerStarted(t) PROVE HumansWait'
  BY <1>13, ContainerStartedIs, HumansStay DEF Still, SameTasks, Alike
<1>14. ASSUME NEW t \in Tasks, SubmitResult(t) PROVE HumansWait'
  BY <1>14, SubmitResultIs, HumansStay DEF Still, SameTasks, Alike
<1>15. ASSUME NEW t \in Tasks, SubmitEval(t) PROVE HumansWait'
  <2>1. box' = box /\ Left' = Left /\ \E v : Answered(t, "Done", v)
    BY <1>15, SubmitEvalIs
  <2> QED
    BY <2>1, AnswerKeeps, HumansStay
<1>16. ASSUME NEW t \in Tasks, ResolveEscalation(t) PROVE HumansWait'
  <2>1. box' = box /\ Answered(t, "Done", "acted")
    BY <1>16, ResolveEscalationIs
  <2>2. \A x \in Left' : x.op # "attach"
    BY <1>16, ResolveEscalationIs
  <2> QED
    BY <2>1, <2>2, AnswerKeeps, HumansStay
<1>17. ASSUME NEW t \in Tasks, ResolveWork(t) PROVE HumansWait'
  <2>1. box' = box /\ \E st \in {"Done", "Failed"} : \E v : Answered(t, st, v)
    BY <1>17, ResolveWorkIs
  <2>2. \A x \in Left' : x.op # "attach"
    BY <1>17, ResolveWorkIs
  <2> QED
    BY <2>1, <2>2, AnswerKeeps, HumansStay
<1>18. ASSUME NEW t \in Tasks, ResolveEval(t) PROVE HumansWait'
  <2>1. box' = box /\ \E v : Answered(t, "Done", v)
    BY <1>18, ResolveEvalIs
  <2>2. Left' = Left \/ Left' = {[op |-> "settle", cycle |-> 0, n |-> 0, of |-> "none"]} \cup After
    BY <1>18, ResolveEvalIs DEF SlotEnded
  <2>3. \A x \in Left' : x.op = "attach" => x \in Left
    BY <1>0, <2>2
  <2> QED
    BY <2>1, <2>3, AnswerKeeps, HumansStay
<1>19. CASE SetRequireApproval
  <2>1. box' = box /\ SameTasks /\ Left' = {}
    BY <1>19, ApprovalIs
  <2> QED
    BY <2>1, HumansStay DEF SameTasks, Alike
<1>20. CASE Restart
  <2>1. box' = box /\ SameTasks /\ \A x \in Left' : x.op # "attach"
    BY <1>20, RestartLeft
  <2> QED
    BY <2>1, HumansStay DEF SameTasks, Alike
<1>21. CASE Aside
  <2>1. SameTasks /\ Left' = Left /\ \A t \in Tasks : box'[t] = box[t] \/ box[t] # "none"
    BY <1>21, AsideIs
  <2> QED
    BY <2>1, HumansStay DEF SameTasks, Alike
<1> QED
  BY <1>1, <1>2, <1>3, <1>4, <1>5, <1>6, <1>7, <1>8, <1>9, <1>10, <1>11, <1>12, <1>13, <1>14,
     <1>15, <1>16, <1>17, <1>18, <1>19, <1>20, <1>21
     DEF Next, Handle, Scan, Report, Operate, Containers, Plain, Aside

-----------------------------------------------------------------------------
(* The order of the chores. *)

\* No list attaches twice to a task, and nothing is launched after a sign-off.
Ranks(l) ==
    \A i, j \in DOMAIN l : i < j =>
        /\ l[i].op = "attach" /\ l[j].op = "attach" => l[i].n # l[j].n
        /\ l[i].op = "launch" /\ l[i].of = Approval => l[j].op # "launch"
Ranked ==
    /\ Ranks(todo)
    /\ Has("recover") => \A x \in Left : x.op \in {"recover", "sweep"}

LEMMA RanksEmpty ==
    ASSUME NEW l, \A i \in DOMAIN l : l[i].op \notin {"attach", "launch"}
    PROVE  Ranks(l)
BY DEF Ranks

LEMMA RanksJoined ==
    ASSUME NEW a \in Seq(Chores), NEW b \in Seq(Chores), Ranks(a), Ranks(b),
           \A x \in ToSet(a), y \in ToSet(b) :
             ~(x.op = "attach" /\ y.op = "attach") /\ ~(x.op = "launch" /\ y.op = "launch")
    PROVE  Ranks(a \o b)
<1> HIDE DEF Chores
<1>1. /\ a \o b \in Seq(Chores) /\ Len(a \o b) = Len(a) + Len(b)
      /\ \A i \in 1..Len(a) + Len(b) :
           (a \o b)[i] = IF i <= Len(a) THEN a[i] ELSE b[i - Len(a)]
  BY ConcatProperties
<1>2. PICK l : l = a \o b
  OBVIOUS
<1>3. /\ DOMAIN a = 1..Len(a) /\ DOMAIN b = 1..Len(b) /\ DOMAIN l = 1..Len(l)
      /\ Len(a) \in Nat /\ Len(b) \in Nat /\ Len(l) = Len(a) + Len(b)
  BY <1>1, <1>2, LenProperties
<1>4. \A i \in DOMAIN l : \/ i \in DOMAIN a /\ l[i] = a[i]
                          \/ i > Len(a) /\ i - Len(a) \in DOMAIN b /\ l[i] = b[i - Len(a)]
  <2> SUFFICES ASSUME NEW i \in DOMAIN l
               PROVE  \/ i \in DOMAIN a /\ l[i] = a[i]
                      \/ i > Len(a) /\ i - Len(a) \in DOMAIN b /\ l[i] = b[i - Len(a)]
    OBVIOUS
  <2>1. CASE i <= Len(a)
    <3>1. i \in DOMAIN a /\ l[i] = a[i]
      BY <1>1, <1>2, <1>3, <2>1
    <3> QED
      BY <3>1
  <2>2. CASE ~(i <= Len(a))
    <3>1. i > Len(a) /\ i - Len(a) \in DOMAIN b
      BY <1>3, <2>2
    <3>2. l[i] = b[i - Len(a)]
      BY <1>1, <1>2, <1>3, <2>2
    <3> QED
      BY <3>1, <3>2
  <2> QED
    BY <2>1, <2>2
<1>5. ASSUME NEW i \in DOMAIN l, NEW j \in DOMAIN l, i < j
      PROVE  /\ l[i].op = "attach" /\ l[j].op = "attach" => l[i].n # l[j].n
             /\ l[i].op = "launch" /\ l[i].of = Approval => l[j].op # "launch"
  <2>1. CASE i \in DOMAIN a /\ l[i] = a[i] /\ j \in DOMAIN a /\ l[j] = a[j]
    BY <1>5, <2>1 DEF Ranks
  <2>2. CASE i \in DOMAIN a /\ l[i] = a[i] /\ j - Len(a) \in DOMAIN b /\ l[j] = b[j - Len(a)]
    <3>1. l[i] \in ToSet(a) /\ l[j] \in ToSet(b)
      BY <2>2 DEF ToSet
    <3> QED
      BY <3>1
  <2>3. CASE /\ i - Len(a) \in DOMAIN b /\ l[i] = b[i - Len(a)]
             /\ j - Len(a) \in DOMAIN b /\ l[j] = b[j - Len(a)]
    <3>1. i - Len(a) < j - Len(a)
      BY <1>3, <1>5
    <3>2. PICK p, q : p = i - Len(a) /\ q = j - Len(a)
      OBVIOUS
    <3>3. p \in DOMAIN b /\ q \in DOMAIN b /\ p < q /\ l[i] = b[p] /\ l[j] = b[q]
      BY <2>3, <3>1, <3>2
    <3> QED
      BY <3>3 DEF Ranks
  <2>4. ~(i > Len(a) /\ j \in DOMAIN a)
    BY <1>3, <1>5
  <2> QED
    BY <1>4, <2>1, <2>2, <2>3, <2>4
<1> QED
  BY <1>2, <1>5 DEF Ranks

LEMMA RankedThen ==
    ASSUME TodoTyped, Ranked, NEW c \in Seq(Chores), Then(c), Ranks(c),
           \A x \in ToSet(c), y \in After :
             ~(x.op = "attach" /\ y.op = "attach") /\ ~(x.op = "launch" /\ y.op = "launch"),
           \A x \in ToSet(c) : x.op # "recover"
    PROVE  Ranked'
<1>1. Left' = ToSet(c) \cup After /\ \A x \in After : x.op # "recover"
  BY ThenLeft, AfterIs
<1>2. ~Has("recover")'
  BY <1>1 DEF Has
<1>3. Ranks(todo')
  <2>1. /\ todo' \in Seq(Chores) /\ DOMAIN todo' = 1..Len(todo') /\ DOMAIN c = 1..Len(c)
        /\ Len(todo') \in Nat /\ Len(c) \in Nat /\ Len(c) <= Len(todo')
        /\ \A k \in 1..Len(c) : todo'[k] = c[k]
        /\ \A k \in Len(c) + 1..Len(todo') :
             /\ ~Idle /\ k - Len(c) + 1 \in 2..Len(todo)
             /\ todo'[k] = todo[k - Len(c) + 1]
    BY ThenIs
  <2>2. DOMAIN todo = 1..Len(todo) /\ Len(todo) \in Nat
    BY LenProperties DEF TodoTyped
  <2>3. ASSUME NEW i \in DOMAIN todo', NEW j \in DOMAIN todo', i < j
        PROVE  /\ todo'[i].op = "attach" /\ todo'[j].op = "attach" => todo'[i].n # todo'[j].n
               /\ todo'[i].op = "launch" /\ todo'[i].of = Approval => todo'[j].op # "launch"
    <3>1. CASE i <= Len(c) /\ j <= Len(c)
      <4>1. i \in DOMAIN c /\ j \in DOMAIN c /\ todo'[i] = c[i] /\ todo'[j] = c[j]
        BY <2>1, <3>1
      <4> QED
        BY <2>3, <4>1 DEF Ranks
    <3>2. CASE i <= Len(c) /\ j > Len(c)
      <4>1. i \in DOMAIN c /\ todo'[i] = c[i] /\ j \in Len(c) + 1..Len(todo')
        BY <2>1, <3>2
      <4>2. /\ ~Idle /\ j - Len(c) + 1 \in 2..Len(todo)
            /\ todo'[j] = todo[j - Len(c) + 1]
        BY <2>1, <4>1
      <4>3. todo'[i] \in ToSet(c)
        BY <4>1 DEF ToSet
      <4>4. todo'[j] \in After
        BY <4>2 DEF After, Rest
      <4> QED
        BY <4>3, <4>4
    <3>3. CASE i > Len(c) /\ j > Len(c)
      <4>1. i \in Len(c) + 1..Len(todo') /\ j \in Len(c) + 1..Len(todo')
        BY <2>1, <3>3
      <4>2. PICK p, q : p = i - Len(c) + 1 /\ q = j - Len(c) + 1
        OBVIOUS
      <4>3. p \in 2..Len(todo) /\ q \in 2..Len(todo) /\ todo'[i] = todo[p] /\ todo'[j] = todo[q]
        BY <2>1, <4>1, <4>2
      <4>4. p < q
        BY <2>1, <2>3, <4>2
      <4>5. p \in DOMAIN todo /\ q \in DOMAIN todo
        BY <2>2, <4>3
      <4> QED
        BY <4>3, <4>4, <4>5 DEF Ranked, Ranks
    <3>4. ~(i > Len(c) /\ j <= Len(c))
      BY <2>1, <2>3
    <3> QED
      BY <2>1, <3>1, <3>2, <3>3, <3>4
  <2> QED
    BY <2>3 DEF Ranks
<1> QED
  BY <1>2, <1>3 DEF Ranked

LEMMA RankedOne ==
    ASSUME TodoTyped, Ranked, NEW op \in Ops, NEW c \in Nat, NEW n \in Nat,
           NEW of \in Names \cup Reasons \cup {"none", "all"}, Then(Do(op, c, n, of)),
           op \notin {"launch", "recover"}, op = "attach" => \A y \in After : y.op # "attach"
    PROVE  Ranked'
<1>1. PICK x : x = [op |-> op, cycle |-> c, n |-> n, of |-> of]
  OBVIOUS
<1>2. PICK l : l = <<x>>
  OBVIOUS
<1>3. x \in Chores /\ x.op = op
  BY <1>1 DEF Chores
<1>4. l \in Seq(Chores) /\ ToSet(l) = {x} /\ DOMAIN l = 1..1
  BY <1>2, <1>3, Single
<1>5. Then(l)
  BY <1>1, <1>2 DEF Do
<1>6. Ranks(l)
  BY <1>4 DEF Ranks
<1>7. \A y \in ToSet(l) : y.op = op
  BY <1>3, <1>4
<1> QED
  BY <1>4, <1>5, <1>6, <1>7, RankedThen

LEMMA RankedNone ==
    ASSUME TodoTyped, Ranked, Then(<<>>)
    PROVE  Ranked'
<1>1. <<>> \in Seq(Chores) /\ ToSet(<<>>) = {} /\ Ranks(<<>>)
  BY NoChore DEF Ranks
<1> QED
  BY <1>1, RankedThen

\* Lists that come to nothing that is ranked.
LEMMA RankedFew ==
    ASSUME TodoTyped', \A x \in Left' : x.op \notin {"attach", "launch", "recover"}
    PROVE  Ranked'
<1>1. \A i \in DOMAIN todo' : todo'[i] \in Left'
  BY DEF Left
<1>2. Ranks(todo')
  BY <1>1, RanksEmpty
<1>3. ~Has("recover")'
  BY DEF Has
<1> QED
  BY <1>2, <1>3 DEF Ranked

LEMMA RankedSame ==
    ASSUME Ranked, todo' = todo
    PROVE  Ranked'
<1>1. Left' = Left
  BY DEF Left
<1> QED
  BY <1>1 DEF Ranked, Ranks, Has

\* The sign-off of an operator is a stage of its own.
LEMMA SignOffStage ==
    ASSUME KindTyped, NEW i \in 1..Len(Stages), Approval \in Stages[i]
    PROVE  Stages[i] = {Approval} /\ approval /\ i = Len(Stages)
<1>1. /\ Stages \in Seq(SUBSET Names) /\ kind.stages \in Seq(SUBSET Names)
      /\ Len(Stages) = Len(kind.stages) + (IF approval THEN 1 ELSE 0)
      /\ \A j \in 1..Len(kind.stages) : Stages[j] = kind.stages[j]
      /\ approval => Stages[Len(Stages)] = {Approval}
  BY StagesAre
<1>2. Approval \notin UNION {kind.stages[j] : j \in DOMAIN kind.stages}
  BY KindsAssumption DEF KindTyped, ValidJobType
<1>3. DOMAIN kind.stages = 1..Len(kind.stages) /\ Len(kind.stages) \in Nat
  BY <1>1, LenProperties
<1>4. i \notin 1..Len(kind.stages)
  BY <1>1, <1>2, <1>3
<1>5. approval /\ i = Len(Stages)
  <2>1. CASE approval
    <3>1. Len(Stages) = Len(kind.stages) + 1
      BY <1>1, <2>1
    <3> QED
      BY <1>3, <1>4, <2>1, <3>1
  <2>2. CASE ~approval
    <3>1. Len(Stages) = Len(kind.stages) + 0
      BY <1>1, <2>2
    <3> QED
      BY <1>3, <1>4, <3>1
  <2> QED
    BY <2>1, <2>2
<1> QED
  BY <1>1, <1>5

LEMMA LaunchesRanked ==
    ASSUME KindTyped, NEW i \in 1..Len(Stages), NEW evs \in SUBSET Stages[i], NEW n \in Nat
    PROVE  Ranks(Launches(evs, n))
<1> DEFINE m == Cardinality(evs)
           f == SetToSeq(evs)
           l == Launches(evs, n)
<1>1. IsFiniteSet(Stages[i]) /\ IsFiniteSet(evs)
  <2>1. IsFiniteSet(Stages[i])
    BY EvaluatorsAre
  <2> QED
    BY <2>1, FS_Subset
<1>2. m \in Nat /\ f \in [1..m -> evs]
  BY <1>1, ListOf
<1>3. l = [k \in 1..m |-> [op |-> "launch", cycle |-> 0, n |-> n, of |-> f[k]]]
  BY DEF Launches
<1>4. Approval \in evs => m <= 1
  <2> SUFFICES ASSUME Approval \in evs PROVE m <= 1
    OBVIOUS
  <2>1. evs \subseteq {Approval}
    BY SignOffStage
  <2>2. IsFiniteSet({Approval}) /\ Cardinality({Approval}) = 1
    BY FS_Singleton
  <2> QED
    BY <2>1, <2>2, FS_Subset
<1> HIDE DEF m, f, l
<1>5. DOMAIN l = 1..m
      /\ \A k \in 1..m : f[k] \in evs /\ l[k] = [op |-> "launch", cycle |-> 0, n |-> n, of |-> f[k]]
  BY <1>2, <1>3
<1>6. \A k \in 1..m : l[k].op = "launch" /\ (l[k].of = Approval => Approval \in evs)
  BY <1>5
<1>7. Ranks(l)
  <2> SUFFICES ASSUME NEW p \in 1..m, NEW q \in 1..m, p < q
               PROVE  l[p].op # "attach" /\ l[p].of # Approval
    BY <1>5 DEF Ranks
  <2>1. ~(m <= 1)
    BY <1>2
  <2> QED
    BY <1>4, <1>6, <2>1
<1> QED
  BY <1>7 DEF l

LEMMA AttachesRanked ==
    ASSUME NEW ts \in SUBSET Nat, IsFiniteSet(ts)
    PROVE  Ranks(Attaches(ts))
<1> DEFINE m == Cardinality(ts)
           f == SetToSeq(ts)
           l == Attaches(ts)
<1>1. m \in Nat /\ f \in [1..m -> ts] /\ IsInjective(f)
  <2>1. m \in Nat /\ ExistsBijection(1..m, ts)
    BY FS_CardinalityType
  <2>2. PICK g : g \in Bijection(1..m, ts)
    BY <2>1 DEF ExistsBijection
  <2>3. \E h \in [1..m -> ts] : IsInjective(h)
    BY <2>2 DEF Bijection, Injection
  <2>4. SetToSeq(ts) \in [1..m -> ts] /\ IsInjective(SetToSeq(ts))
    BY <2>3 DEF SetToSeq
  <2> QED
    BY <2>1, <2>4
<1>2. l = [k \in 1..m |-> [op |-> "attach", cycle |-> 0, n |-> f[k], of |-> "none"]]
  BY DEF Attaches
<1> HIDE DEF m, f, l
<1>3. DOMAIN l = 1..m
      /\ \A k \in 1..m : l[k] = [op |-> "attach", cycle |-> 0, n |-> f[k], of |-> "none"]
  BY <1>1, <1>2
<1>4. \A k \in 1..m : l[k].op = "attach" /\ l[k].n = f[k]
  BY <1>3
<1>5. \A p, q \in 1..m : p < q => f[p] # f[q]
  BY <1>1 DEF IsInjective
<1> QED
  BY <1>3, <1>4, <1>5 DEF Ranks, l

LEMMA StageRanked ==
    ASSUME KindTyped, NEW i \in 1..Len(Stages)
    PROVE  Ranks(LaunchStage(i))
<1>1. PICK a, b, x : /\ x = [op |-> "slots", cycle |-> 0, n |-> i, of |-> "all"]
                     /\ a = Launches(Stages[i], 1) /\ b = <<x>>
  OBVIOUS
<1>2. Stages[i] \in SUBSET Names /\ IsFiniteSet(Stages[i]) /\ Len(Stages) \in Nat
  BY EvaluatorsAre
<1>3. a \in Seq(Chores) /\ Ranks(a)
  BY <1>1, <1>2, LaunchesAre, LaunchesRanked
<1>4. b \in Seq(Chores) /\ ToSet(b) = {x} /\ Ranks(b)
  <2>1. x \in Chores /\ x.op = "slots"
    BY <1>1, <1>2 DEF Chores, Ops
  <2>2. DOMAIN b = 1..1 /\ b[1] = x
    BY <1>1
  <2> QED
    BY <1>1, <2>1, <2>2, Single DEF Ranks
<1>5. LaunchStage(i) = a \o b
  BY <1>1 DEF LaunchStage, Do
<1>6. \A y \in ToSet(b) : y.op = "slots"
  BY <1>1, <1>4
<1> QED
  BY <1>3, <1>4, <1>5, <1>6, RanksJoined

LEMMA RelaunchRanked ==
    ASSUME KindTyped, NEW ev \in Evaluators, NEW n \in Nat
    PROVE  Ranks(Relaunch(ev, n))
<1>1. PICK l : l = Relaunch(ev, n)
  OBVIOUS
<1>2. DOMAIN l = 1..2 /\ l[1].op = "launch" /\ l[2].op = "slots"
  BY <1>1 DEF Relaunch, Do
<1> QED
  BY <1>1, <1>2 DEF Ranks

LEMMA RecoveryRanked ==
    ASSUME KindTyped, LogTyped, Stages # <<>>, NEW c \in Nat
    PROVE  Ranks(RecoverEvaluation(c))
<1> DEFINE last(ev) == Latest(Lineage("Evaluation", c, ev))
           evs == Stages[RoundFromLog(c).stage]
           new == {ev \in evs : last(ev) = 0}
           live == {e \in evs : last(e) # 0 /\ log[last(e)].st = "Running"}
           running == {last(ev) : ev \in live}
           over == \A ev \in evs : last(ev) # 0 /\ log[last(ev)].st \in {"Done", "Failed"}
           q1 == Launches(new, 1)
           q2 == Do("rebuild", c, 0, "none")
           q3 == Attaches(running)
           q4 == IF over THEN Do("settle", 0, 0, "none") ELSE <<>>
<1>1. RecoverEvaluation(c) = q1 \o q2 \o q3 \o q4
  BY Zenon DEF RecoverEvaluation
<1>2. PICK i \in 1..Len(Stages) : i = RoundFromLog(c).stage
  BY RoundFromLogIs
<1>3. Stages[i] \subseteq Evaluators /\ Evaluators \subseteq Names /\ IsFiniteSet(Stages[i])
  BY EvaluatorsAre
<1>4. evs = Stages[i] /\ \A ev \in evs : last(ev) \in {0} \cup Tasks
  BY <1>2, LineageIs
<1> HIDE DEF last, evs
<1>5. new \in SUBSET Stages[i] /\ live \subseteq evs
  BY <1>4
<1>6. running \in SUBSET Nat /\ IsFiniteSet(running)
  <2>1. running \subseteq Tasks
    BY <1>4
  <2>2. Tasks = 1..Len(log) /\ Len(log) \in Nat
    BY TasksAre
  <2>3. PICK n \in Nat : n = Len(log)
    BY <2>2
  <2>4. IsFiniteSet(1..n) /\ 1..n \subseteq Nat
    BY FS_Interval
  <2> HIDE DEF running
  <2> QED
    BY <2>1, <2>2, <2>3, <2>4, FS_Subset
<1> HIDE DEF new, live, running, over
<1>7. q1 \in Seq(Chores) /\ Ranks(q1) /\ \A x \in ToSet(q1) : x.op = "launch"
  <2>1. new \in SUBSET Names /\ IsFiniteSet(new) /\ 1 \in Nat
    BY <1>3, <1>5, FS_Subset
  <2>2. q1 \in Seq(Chores) /\ \A x \in ToSet(q1) :
           \E ev \in new : x = [op |-> "launch", cycle |-> 0, n |-> 1, of |-> ev]
    BY <2>1, LaunchesAre
  <2>3. Ranks(q1)
    BY <1>5, <2>1, LaunchesRanked
  <2> QED
    BY <2>2, <2>3
<1>8. q2 \in Seq(Chores) /\ Ranks(q2) /\ \A x \in ToSet(q2) : x.op = "rebuild"
  <2>1. PICK x : x = [op |-> "rebuild", cycle |-> c, n |-> 0, of |-> "none"]
    OBVIOUS
  <2>2. q2 = <<x>> /\ x \in Chores /\ x.op = "rebuild"
    BY <2>1 DEF Do, Chores, Ops
  <2> HIDE DEF q2
  <2>3. q2 \in Seq(Chores) /\ ToSet(q2) = {x}
    BY <2>2, Single
  <2>4. DOMAIN q2 = 1..1
    BY <2>2
  <2> QED
    BY <2>2, <2>3, <2>4 DEF Ranks
<1>9. q3 \in Seq(Chores) /\ Ranks(q3) /\ \A x \in ToSet(q3) : x.op = "attach"
  <2>1. q3 \in Seq(Chores) /\ \A x \in ToSet(q3) :
          \E t \in running : x = [op |-> "attach", cycle |-> 0, n |-> t, of |-> "none"]
    BY <1>6, AttachesAre
  <2> QED
    BY <1>6, <2>1, AttachesRanked
<1>10. q4 \in Seq(Chores) /\ Ranks(q4) /\ \A x \in ToSet(q4) : x.op = "settle"
  <2>1. CASE over
    <3>1. PICK x : x = [op |-> "settle", cycle |-> 0, n |-> 0, of |-> "none"]
      OBVIOUS
    <3>2. q4 = <<x>> /\ x \in Chores /\ x.op = "settle"
      BY <2>1, <3>1 DEF Do, Chores, Ops
    <3> HIDE DEF q4
    <3>3. q4 \in Seq(Chores) /\ ToSet(q4) = {x}
      BY <3>2, Single
    <3>4. DOMAIN q4 = 1..1
      BY <3>2
    <3> QED
      BY <3>2, <3>3, <3>4 DEF Ranks
  <2>2. CASE ~over
    <3>1. q4 = <<>>
      BY <2>2
    <3> HIDE DEF q4
    <3> QED
      BY <3>1, NoChore DEF Ranks
  <2> QED
    BY <2>1, <2>2
<1> HIDE DEF q1, q2, q3, q4
<1>11. PICK a : a = q1 \o q2
  OBVIOUS
<1>12. /\ a \in Seq(Chores) /\ Ranks(a) /\ \A x \in ToSet(a) : x.op \in {"launch", "rebuild"}
  <2>1. a \in Seq(Chores) /\ \A x \in ToSet(a) : x \in ToSet(q1) \/ x \in ToSet(q2)
    BY <1>7, <1>8, <1>11, Joined
  <2>2. Ranks(a)
    BY <1>7, <1>8, <1>11, RanksJoined
  <2> QED
    BY <1>7, <1>8, <2>1, <2>2
<1>13. PICK b : b = a \o q3
  OBVIOUS
<1>14. /\ b \in Seq(Chores) /\ Ranks(b) /\ \A x \in ToSet(b) : x.op \in {"launch", "rebuild", "attach"}
  <2>1. b \in Seq(Chores) /\ \A x \in ToSet(b) : x \in ToSet(a) \/ x \in ToSet(q3)
    BY <1>9, <1>12, <1>13, Joined
  <2>2. Ranks(b)
    BY <1>9, <1>12, <1>13, RanksJoined
  <2> QED
    BY <1>9, <1>12, <2>1, <2>2
<1>15. Ranks(b \o q4)
  BY <1>10, <1>14, RanksJoined
<1> QED
  BY <1>1, <1>11, <1>13, <1>15

\* What a task that ends asks for.
LEMMA RankedAfterEnd ==
    ASSUME TypeOK, Ranked, NEW t \in Tasks, Handled(t),
           ~Busy
    PROVE  Ranked'
<1>1. TodoTyped /\ KindTyped /\ LogTyped /\ TaskTyped(log[t])
  BY DEF TypeOK, LogTyped
<1>2. log[t] \in TaskRecords /\ Tasks \subseteq Nat
  BY <1>1, TasksAre
<1>3. 0 \in Nat /\ "none" \in Names \cup Reasons \cup {"none", "all"} /\ log[t].cycle \in Nat /\ t \in Nat
      /\ \A why \in {"work", "loss"} : why \in Names \cup Reasons \cup {"none", "all"}
  BY <1>2 DEF TaskRecords, Reasons
<1>4. \A x \in After : x.op \in {"attach", "sweep"}
  BY <1>1, AfterIs
<1>5. CASE Then(<<>>)
  BY <1>1, <1>5, RankedNone
<1>6. CASE Then(Do("evaluate", 0, 0, "none"))
  <2>1. "evaluate" \in Ops
    BY DEF Ops
  <2> QED
    BY <1>1, <1>3, <1>6, <2>1, RankedOne
<1>7. CASE \E n \in Nat : Then(Do("attempt", log[t].cycle, n, "none"))
  <2>1. "attempt" \in Ops
    BY DEF Ops
  <2> QED
    BY <1>1, <1>3, <1>7, <2>1, RankedOne
<1>8. CASE \E why \in {"work", "loss"} : Then(Do("escalate", 0, t, why))
  <2>1. "escalate" \in Ops
    BY DEF Ops
  <2> QED
    BY <1>1, <1>3, <1>8, <2>1, RankedOne
<1>9. CASE Then(Do("settle", 0, 0, "none"))
  <2>1. "settle" \in Ops
    BY DEF Ops
  <2> QED
    BY <1>1, <1>3, <1>9, <2>1, RankedOne
<1>10. CASE log[t].phase = "Evaluation" /\ \E n \in Nat : Then(Relaunch(log[t].about, n))
  <2>1. PICK n \in Nat, ev \in Evaluators : ev = log[t].about /\ Then(Relaunch(ev, n))
    BY <1>1, <1>10 DEF TaskTyped
  <2>2. /\ Relaunch(ev, n) \in Seq(Chores) /\ DOMAIN Relaunch(ev, n) = 1..2
        /\ Relaunch(ev, n)[1] = [op |-> "launch", cycle |-> 0, n |-> n, of |-> ev]
        /\ Relaunch(ev, n)[2] = [op |-> "slots", cycle |-> 0, n |-> 0, of |-> ev]
    BY <1>1, RelaunchIs
  <2>3. PICK l : l = Relaunch(ev, n)
    OBVIOUS
  <2>4. l \in Seq(Chores) /\ \A x \in ToSet(l) : x.op \in {"launch", "slots"}
    BY <2>2, <2>3 DEF ToSet
  <2>5. Ranks(l)
    BY <1>1, <2>3, RelaunchRanked
  <2>6. \A x \in ToSet(l), y \in After :
           ~(x.op = "attach" /\ y.op = "attach") /\ ~(x.op = "launch" /\ y.op = "launch")
    BY <1>4, <2>4
  <2>7. \A x \in ToSet(l) : x.op # "recover"
    BY <2>4
  <2> QED
    BY <1>1, <2>1, <2>3, <2>4, <2>5, <2>6, <2>7, RankedThen
<1> QED
  BY <1>5, <1>6, <1>7, <1>8, <1>9, <1>10
     DEF Handled, WorkHandled, SlotHandled, SlotClosed, NobodyWaits, SlotIs

LEMMA RankedNext ==
    ASSUME TypeOK, Ranked, [Next]_vars
    PROVE  Ranked'
<1>0. /\ TodoTyped /\ KindTyped /\ LogTyped /\ SliceTyped
      /\ (Idle => Left = {} /\ After = {})
      /\ (~Busy => \A x \in After : x.op \in {"attach", "sweep"})
  BY AfterIs DEF TypeOK
<1>100. TodoTyped'
  BY NextTyped, StutterTyped DEF TypeOK
<1>101. /\ {"attempt", "inbox", "unclaim", "place", "stamp", "finalize", "escalate", "enter",
            "evaluate", "settle", "attach"} \subseteq Ops
        /\ {"none"} \cup Reasons \subseteq Names \cup Reasons \cup {"none", "all"}
        /\ 0 \in Nat /\ 1 \in Nat /\ Len(log) + 1 \in Nat
        /\ {"infra", "abort", "rework", "work"} \subseteq Reasons
  <2>1. Len(log) \in Nat
    BY <1>0, TasksAre
  <2> QED
    BY <2>1 DEF Ops, Reasons
<1>102. ASSUME NEW op \in Ops, op \notin {"launch", "recover", "attach"}, NEW c \in Nat, NEW n \in Nat,
               NEW of \in {"none"} \cup Reasons, Then(Do(op, c, n, of))
        PROVE  Ranked'
  BY <1>0, <1>101, <1>102, RankedOne
<1>103. ASSUME NEW i \in 1..Len(Stages), Then(LaunchStage(i)), ~Busy
        PROVE  Ranked'
  <2>1. LaunchStage(i) \in Seq(Chores) /\ \A x \in ToSet(LaunchStage(i)) : x.op \in {"launch", "slots"}
    <3>1. /\ LaunchStage(i) \in Seq(Chores)
          /\ \A x \in ToSet(LaunchStage(i)) :
               \/ \E ev \in Stages[i] : x = [op |-> "launch", cycle |-> 0, n |-> 1, of |-> ev]
               \/ x = [op |-> "slots", cycle |-> 0, n |-> i, of |-> "all"]
      BY <1>0, LaunchStageIs
    <3> QED
      BY <3>1
  <2>2. Ranks(LaunchStage(i))
    BY <1>0, StageRanked
  <2>3. PICK l : l = LaunchStage(i)
    OBVIOUS
  <2>4. \A x \in ToSet(l), y \in After :
           ~(x.op = "attach" /\ y.op = "attach") /\ ~(x.op = "launch" /\ y.op = "launch")
    BY <1>0, <1>103, <2>1, <2>3
  <2>5. \A x \in ToSet(l) : x.op # "recover"
    BY <2>1, <2>3
  <2> QED
    BY <1>0, <1>103, <2>1, <2>2, <2>3, <2>4, <2>5, RankedThen
<1>104. ASSUME Then(<<>>) PROVE Ranked'
  BY <1>0, <1>104, RankedNone
<1>1. CASE EnterWork
  <2>1. Head(todo).cycle \in Nat /\ Then(Do("attempt", Head(todo).cycle, 1, "none"))
    BY <1>1, InHand DEF EnterWork
  <2> QED
    BY <1>101, <1>102, <2>1
<1>2. CASE EnterRefused
  BY <1>2, <1>101, <1>102 DEF EnterRefused
<1>3. CASE StartAttempt
  <2>1. \/ Then(<<>>) \/ Then(Do("unclaim", 0, 0, "none"))
        \/ Then(Do("place", 0, Len(log) + 1, "none"))
    BY <1>3 DEF StartAttempt
  <2> QED
    BY <1>101, <1>102, <1>104, <2>1
<1>4. CASE Unclaim
  BY <1>4, <1>104 DEF Unclaim
<1>5. CASE Place
  <2>1. Then(<<>>) \/ Then(Do("stamp", 0, Head(todo).n, "none"))
    BY <1>5 DEF Place
  <2>2. Head(todo).n \in Nat
    BY <1>5, InHand DEF Place
  <2> QED
    BY <1>101, <1>102, <1>104, <2>1, <2>2
<1>6. CASE PlaceFails
  BY <1>6, <1>100, PlaceFailsIs, RankedFew
<1>7. CASE Stamp
  BY <1>7, <1>104 DEF Stamp
<1>8. CASE EnterEvaluation
  <2>1. Then(<<>>) \/ Then(Do("finalize", 0, 0, "none")) \/ (1 \in 1..Len(Stages) /\ Then(LaunchStage(1)))
    <3>1. CASE Stages = <<>> \/ draining
      BY <1>8, <3>1 DEF EnterEvaluation
    <3>2. CASE ~(Stages = <<>> \/ draining)
      <4>1. 1 \in 1..Len(Stages)
        BY <1>0, <3>2, StagesAre, EmptySeq
      <4> QED
        BY <1>8, <4>1 DEF EnterEvaluation
    <3> QED
      BY <3>1, <3>2
  <2>2. ~Busy
    BY <1>8, EnterEvaluationIs DEF Busy
  <2> QED
    BY <1>101, <1>102, <1>103, <1>104, <2>1, <2>2
<1>9. CASE LaunchEvaluator
  <2>1. Then(<<>>) \/ Then(Do("place", 0, Len(log) + 1, "none"))
    BY <1>9 DEF LaunchEvaluator
  <2> QED
    BY <1>101, <1>102, <1>104, <2>1
<1>10. CASE InstallSlots
  BY <1>10, <1>104 DEF InstallSlots
<1>11. CASE Settle
  <2>1. ~Busy /\ slice # None
    BY <1>11, SettleIs DEF Busy
  <2>2. slice.cycle + 1 \in Nat
    BY <1>0, <2>1, SliceIs
  <2>3. CASE \/ Then(<<>>)
             \/ slice.round.stage + 1 \in 1..Len(Stages) /\ Then(LaunchStage(slice.round.stage + 1))
    BY <1>103, <1>104, <2>1, <2>3
  <2>4. CASE Then(Reduce)
    BY <1>101, <1>102, <2>2, <2>4, ReduceIs
  <2>5. \/ Then(<<>>) \/ Then(Reduce)
        \/ slice.round.stage + 1 \in 1..Len(Stages) /\ Then(LaunchStage(slice.round.stage + 1))
    <3>1. CASE Settled /\ StagePassed /\ slice.round.stage < Len(Stages)
      <4>1. Rounding /\ slice.round.stage \in 1..Len(Stages) /\ Len(Stages) \in Nat
        BY <1>0, <3>1, EvaluatorsAre DEF Settled, SliceTyped
      <4>2. slice.round.stage + 1 \in 1..Len(Stages)
        BY <3>1, <4>1
      <4> QED
        BY <1>11, <3>1, <4>2 DEF Settle
    <3>2. CASE ~(Settled /\ StagePassed /\ slice.round.stage < Len(Stages))
      BY <1>11, <3>2 DEF Settle
    <3> QED
      BY <3>1, <3>2
  <2> QED
    BY <2>3, <2>4, <2>5
<1>12. CASE Finalize
  BY <1>12, <1>104 DEF Finalize
<1>13. CASE Escalate
  <2>1. Then(Do("inbox", 0, 0, "none")) \/ todo' = <<>>
    BY <1>13 DEF Escalate
  <2>2. todo' = <<>> => Left' = {}
    BY NothingLeft
  <2> QED
    BY <1>100, <1>101, <1>102, <2>1, <2>2, RankedFew
<1>14. CASE FillInbox
  BY <1>14, <1>104 DEF FillInbox
<1>15. CASE Retry
  <2>1. PICK c, n : /\ c \in Nat /\ n \in Nat
                    /\ \/ Then(Do("evaluate", 0, 0, "none"))
                       \/ Then(Do("attempt", c, n, "none"))
    <3>1. Ensured.cycle \in Nat
      BY <1>0, EnsuredIs
    <3>2. PICK m \in Nat : m = Max({0} \cup {log[t].attempt : t \in WorkTasks(Ensured.cycle)})
      <4>1. Max({0} \cup {log[t].attempt : t \in WorkTasks(Ensured.cycle)}) \in Nat
        BY <1>0, NextAttempt
      <4> QED
        BY <4>1
    <3>3. \/ Then(Do("evaluate", 0, 0, "none"))
          \/ Then(Do("attempt", Ensured.cycle, m + 1, "none"))
      BY <1>15, <3>2 DEF Retry
    <3> QED
      BY <3>1, <3>2, <3>3
  <2> QED
    BY <1>101, <1>102, <2>1
<1>16. CASE PreworkRetry
  <2>1. Then(<<>>) \/ Then(Do("inbox", 0, 0, "none"))
    BY <1>16 DEF PreworkRetry
  <2> QED
    BY <1>101, <1>102, <1>104, <2>1
<1>17. CASE RevokeJob
  <2>1. Then(<<>>) \/ todo' = todo
    BY <1>17 DEF RevokeJob
  <2> QED
    BY <1>104, <2>1, RankedSame
<1>18. CASE Recover
  <2>0. ~Busy /\ todo[1].op = "recover" /\ \A x \in After : x.op = "sweep"
    <3>1. ~Busy /\ ~Idle /\ todo[1].op = "recover"
      BY <1>18, RecoverLeft DEF Busy
    <3>2. Left = {todo[1]} \cup After /\ Has("recover")
      BY <1>0, <3>1, AfterIs DEF Has
    <3>3. \A x \in Left : x.op \in {"recover", "sweep"}
      BY <3>2 DEF Ranked
    <3> QED
      BY <1>0, <3>1, <3>2, <3>3
  <2>1. CASE job = "Evaluation" /\ Stages # <<>> /\ Then(RecoverEvaluation(TopCycle))
    <3>1. TopCycle \in Nat
      BY <1>0, TopCycleIs
    <3>2. PICK l : l = RecoverEvaluation(TopCycle)
      OBVIOUS
    <3>3. l \in Seq(Chores) /\ \A x \in ToSet(l) : x.op # "recover"
      <4>1. PICK evs : evs = Stages[RoundFromLog(TopCycle).stage]
        OBVIOUS
      <4>2. /\ l \in Seq(Chores)
            /\ \A x \in ToSet(l) :
                 \/ \E ev \in evs :
                      /\ x = [op |-> "launch", cycle |-> 0, n |-> 1, of |-> ev]
                      /\ Latest(Lineage("Evaluation", TopCycle, ev)) = 0
                 \/ x = [op |-> "rebuild", cycle |-> TopCycle, n |-> 0, of |-> "none"]
                 \/ \E ev \in evs : \E t \in Tasks :
                      /\ x = [op |-> "attach", cycle |-> 0, n |-> t, of |-> "none"]
                      /\ t = Latest(Lineage("Evaluation", TopCycle, ev)) /\ log[t].st = "Running"
                      /\ log[t].phase = "Evaluation" /\ log[t].cycle = TopCycle
                      /\ log[t].about = ev
                 \/ x = [op |-> "settle", cycle |-> 0, n |-> 0, of |-> "none"]
        BY <1>0, <2>1, <3>1, <3>2, <4>1, RecoverEvaluationIs
      <4> QED
        BY <4>2
    <3>4. Ranks(l)
      BY <1>0, <2>1, <3>1, <3>2, RecoveryRanked
    <3>5. \A x \in ToSet(l), y \in After :
             ~(x.op = "attach" /\ y.op = "attach") /\ ~(x.op = "launch" /\ y.op = "launch")
      BY <2>0
    <3> QED
      BY <1>0, <2>1, <3>2, <3>3, <3>4, <3>5, RankedThen
  <2>2. CASE \E t \in Tasks : Then(Do("attach", 0, t, "none"))
    <3>1. PICK t \in Tasks : Then(Do("attach", 0, t, "none"))
      BY <2>2
    <3>2. t \in Nat
      BY <1>0, TasksAre
    <3> QED
      BY <1>0, <1>101, <2>0, <3>1, <3>2, RankedOne
  <2>3. CASE \/ Then(<<>>) \/ Then(Do("inbox", 0, 0, "none")) \/ Then(Do("evaluate", 0, 0, "none"))
             \/ Then(Do("finalize", 0, 0, "none"))
    BY <1>101, <1>102, <1>104, <2>3
  <2>4. CASE \E n \in Nat : Then(Do("attempt", TopCycle, n, "none"))
    <3>1. TopCycle \in Nat
      BY <1>0, TopCycleIs
    <3> QED
      BY <1>101, <1>102, <2>4, <3>1
  <2>5. CASE \E t \in Tasks : Then(Do("escalate", 0, t, "work"))
    <3>1. PICK t \in Tasks : Then(Do("escalate", 0, t, "work"))
      BY <2>5
    <3>2. t \in Nat
      BY <1>0, TasksAre
    <3> QED
      BY <1>101, <1>102, <3>1, <3>2
  <2>6. \/ Then(<<>>) \/ Then(Do("inbox", 0, 0, "none"))
        \/ \E n \in Nat : Then(Do("attempt", TopCycle, n, "none"))
        \/ \E t \in Tasks : Then(Do("escalate", 0, t, "work"))
        \/ \E t \in Tasks : Then(Do("attach", 0, t, "none"))
        \/ Then(Do("evaluate", 0, 0, "none"))
        \/ Then(Do("finalize", 0, 0, "none"))
        \/ job = "Evaluation" /\ Stages # <<>> /\ Then(RecoverEvaluation(TopCycle))
    BY <1>18, RecoverIs
  <2> QED
    BY <2>1, <2>2, <2>3, <2>4, <2>5, <2>6
<1>19. CASE Attach
  <2>1. \E t \in Tasks : Handled(t)
    BY <1>19, AttachIs
  <2>2. ~Busy
    BY <1>19, AttachEnds DEF Busy
  <2> QED
    BY <2>1, <2>2, RankedAfterEnd
<1>20. CASE Rebuild
  BY <1>20, <1>104 DEF Rebuild
<1>21. CASE Sweep
  BY <1>21, <1>104 DEF Sweep
<1>22. ASSUME NEW t \in Tasks, NEW how, TaskExited(t, how), Idle PROVE Ranked'
  <2>1. Handled(t) /\ ~Busy
    BY <1>22, ExitHandled DEF Busy
  <2> QED
    BY <2>1, RankedAfterEnd
<1>23. ASSUME NEW t \in Tasks, TimeoutScan(t) PROVE Ranked'
  <2>1. Idle /\ TaskExited(t, "silent")
    BY <1>23 DEF TimeoutScan, Listening
  <2> QED
    BY <1>22, <2>1
<1>24. ASSUME NEW t \in Tasks, Exit(t) PROVE Ranked'
  <2>1. Idle /\ \E how : TaskExited(t, how)
    BY <1>24 DEF Exit, Listening
  <2> QED
    BY <1>22, <2>1
<1>25. CASE StartJob
  BY <1>25, <1>100, StartJobIs, RankedFew
<1>26. CASE DeadlineScan
  BY <1>26, <1>100, DeadlineScanIs, RankedFew
<1>27. ASSUME NEW t \in Tasks, ContainerStarted(t) \/ SubmitResult(t) \/ SubmitEval(t) PROVE Ranked'
  <2>1. Idle /\ Left' = Left
    BY <1>27, ContainerStartedIs, SubmitResultIs, SubmitEvalIs DEF Still
  <2> QED
    BY <1>0, <1>100, <2>1, RankedFew
<1>28. ASSUME NEW t \in Tasks, ResolveEscalation(t) PROVE Ranked'
  BY <1>28, <1>100, ResolveEscalationIs, RankedFew
<1>29. ASSUME NEW t \in Tasks, ResolveWork(t) PROVE Ranked'
  BY <1>29, <1>100, ResolveWorkIs, RankedFew
<1>30. ASSUME NEW t \in Tasks, ResolveEval(t) PROVE Ranked'
  <2>1. /\ Idle
        /\ Left' = Left \/ Left' = {[op |-> "settle", cycle |-> 0, n |-> 0, of |-> "none"]} \cup After
    BY <1>30, ResolveEvalIs DEF SlotEnded
  <2>2. \A x \in Left' : x.op = "settle"
    BY <1>0, <2>1
  <2> QED
    BY <1>100, <2>2, RankedFew
<1>31. CASE SetRequireApproval
  BY <1>31, <1>100, ApprovalIs, RankedFew
<1>32. CASE Revoke
  BY <1>32, <1>100, RevokeIs, RankedFew
<1>33. CASE Restart
  <2>1. \A x \in Left' : x.op \in {"recover", "sweep"}
    BY <1>33, RestartLeft
  <2>2. \A i \in DOMAIN todo' : todo'[i] \in Left'
    BY DEF Left
  <2>3. Ranks(todo')
    BY <2>1, <2>2, RanksEmpty
  <2> QED
    BY <2>1, <2>3 DEF Ranked
<1>34. CASE Aside
  BY <1>34, AsideIs, RankedSame
<1> QED
  BY <1>1, <1>2, <1>3, <1>4, <1>5, <1>6, <1>7, <1>8, <1>9, <1>10, <1>11, <1>12, <1>13, <1>14,
     <1>15, <1>16, <1>17, <1>18, <1>19, <1>20, <1>21, <1>23, <1>24, <1>25, <1>26, <1>27,
     <1>28, <1>29, <1>30, <1>31, <1>32, <1>33, <1>34
     DEF Next, Handle, Scan, Report, Operate, Containers, Aside

-----------------------------------------------------------------------------
(* One task that is open. *)

\* A task that waits for a human, or the work that runs.
Open(t) == Pending(t) \/ (log[t].phase = "Work" /\ log[t].st = "Running")

\* Chores that open a task, or lead to one.
Opens == {"enter", "attempt", "evaluate", "finalize", "launch", "escalate", "inbox", "retry", "prework"}
Opening(x) ==
    \/ x.op \in Opens
    \/ x.op = "attach" /\ log[x.n].phase = "Evaluation" /\ slice # None

\* An open task is the last of all, and nothing opens another.
Alone(t) ==
    /\ t = Len(log)
    /\ \A u \in Tasks : log[u].cycle <= log[t].cycle
    /\ log[t].phase = "Work" => log[t].about = "none" /\ job \in {"Work", "Revoked"}
    /\ log[t].phase = "Evaluation" => log[t].about = Approval /\ approval /\ job = "Evaluation"
    /\ log[t].phase = "Escalation" => job \in {"Escalated", "Stalled"}
    /\ log[t].phase # "Escalation" /\ slice # None /\ job # "Revoked" => log[t].cycle = slice.cycle
    /\ \A x \in Left : ~Opening(x)
OpenAlone == \A t \in Tasks : Open(t) => Alone(t)

\* The chores are of the cycle and the state the job is in.
ChoreKept(x) ==
    /\ x.op = "attempt" => job = "Work" /\ (slice # None => x.cycle = slice.cycle)
    /\ x.op = "enter" => \A t \in Tasks : log[t].cycle <= x.cycle
    /\ x.op = "escalate" => job \in {"Work", "Evaluation"}
    /\ x.op = "inbox" => job \in {"Escalated", "Stalled"}
    /\ x.op = "place" => \A t \in Tasks : ~Pending(t)
    /\ x.op = "attach" /\ log[x.n].phase = "Work" => log[x.n].st = "Running" /\ job = "Work"
CyclesKept ==
    /\ slice # None => \A t \in Tasks : log[t].cycle <= slice.cycle
    /\ \A x \in Left : ChoreKept(x)

\* The launches before a rebuild are of the stage it will find, and so are the
\* tasks a restart attaches to.
InStage(i) ==
    /\ \A x \in Left : x.op = "launch" => x.of \in Stages[i]
    /\ \A x \in Left : x.op = "attach" /\ log[x.n].phase = "Evaluation" =>
          /\ log[x.n].about \in Stages[i] /\ log[x.n].cycle = slice.cycle
          /\ log[x.n].st = "Running" /\ x.n = Latest(LineOf(log[x.n].about))
          /\ \A y \in Left : y.op = "launch" => y.of # log[x.n].about
    /\ \A j \in 1..Len(Stages) : \A ev \in Stages[j] : LineOf(ev) # {} => j <= i

\* What is open is of the stage, and an evaluator launched again is one of those.
OpensInStage ==
    Rounding => \A ev \in Evaluators :
        slice.round.slot[ev].out = "open" => ev \in Stages[slice.round.stage]
SlotsAgain ==
    \A x \in Left : x.op = "slots" =>
        IF x.of = "all" THEN \A ev \in Evaluators : slice.round.slot[ev].out # "open"
        ELSE /\ slice.round.slot[x.of].out = "open" /\ x.of # Approval
             /\ \A y \in Left : y.op = "attach" /\ log[y.n].phase = "Evaluation" =>
                   log[y.n].about # x.of
AttachesSlots ==
    \A x \in Left : x.op = "attach" /\ log[x.n].phase = "Evaluation" /\ slice # None =>
        \/ Has("rebuild")
        \/ Rounding /\ slice.round.slot[log[x.n].about] = [task |-> x.n, out |-> "open"]
\* No round is on when one begins, and no restart when its slice is replaced.
BeginsFree(x) ==
    /\ x.op = "enter" => slice # None \/ job = "Ready"
    /\ x.op = "retry" => \A y \in Left : y.op # "attach"
    /\ x.op = "evaluate" => job # "Evaluation"
RoundKept ==
    /\ OpensInStage /\ SlotsAgain /\ AttachesSlots
    /\ \A x \in Left : BeginsFree(x)
    /\ Has("rebuild") => \E i \in 1..Len(Stages) : InStage(i)

\* The round waits for the sign-off, or is going to.
SignedOff(t) ==
    \/ Has("recover") \/ Has("rebuild")
    \/ \E x \in Left : x.op = "slots" /\ x.of = "all" /\ x.n = Len(Stages)
    \/ /\ Rounding /\ slice.round.stage = Len(Stages)
       /\ slice.round.slot[Approval] = [task |-> t, out |-> "open"]
SignOffKept ==
    \A t \in Tasks : Pending(t) /\ log[t].phase = "Evaluation" => SignedOff(t)

Kept == TypeOK /\ RevokedKept /\ SlotsKept /\ HumansWait /\ Ranked
OneTask == OpenAlone /\ CyclesKept /\ RoundKept /\ SignOffKept

LEMMA OneInboxIs ==
    ASSUME TypeOK, OneInbox
    PROVE  /\ "deadline" \notin Faults
           /\ \A ev \in Evaluators : EvType[ev] = "human" => ev = Approval
<1>1. "deadline" \notin Faults
  BY DEF OneInbox
<1>2. ASSUME NEW ev \in Evaluators, EvType[ev] = "human" PROVE ev = Approval
  <2>1. PICK i \in DOMAIN Stages : ev \in Stages[i]
    BY DEF Evaluators
  <2>2. /\ Len(Stages) = Len(kind.stages) + (IF approval THEN 1 ELSE 0)
        /\ \A j \in 1..Len(kind.stages) : Stages[j] = kind.stages[j]
        /\ approval => Stages[Len(Stages)] = {Approval}
        /\ Len(kind.stages) \in Nat /\ DOMAIN kind.stages = 1..Len(kind.stages)
        /\ DOMAIN Stages = 1..Len(Stages)
    BY StagesAre, LenProperties DEF TypeOK
  <2>3. CASE i \in 1..Len(kind.stages)
    BY <1>2, <2>1, <2>2, <2>3 DEF OneInbox
  <2>4. CASE i \notin 1..Len(kind.stages)
    <3>1. CASE approval
      <4>1. i = Len(Stages)
        BY <2>1, <2>2, <2>4, <3>1
      <4>2. Stages[i] = {Approval}
        BY <2>2, <3>1, <4>1
      <4> QED
        BY <2>1, <4>2
    <3>2. CASE ~approval
      <4>1. Len(Stages) = Len(kind.stages) + 0
        BY <2>2, <3>2
      <4>2. DOMAIN Stages = 1..Len(Stages) /\ Len(kind.stages) \in Nat
        BY <2>2
      <4>3. i \in 1..Len(kind.stages)
        BY <2>1, <4>1, <4>2
      <4> QED
        BY <2>4, <4>3
    <3> QED
      BY <3>1, <3>2
  <2> QED
    BY <2>3, <2>4
<1> QED
  BY <1>1, <1>2

LEMMA OneInboxStays ==
    ASSUME kind' = kind
    PROVE  OneInbox' = OneInbox
BY DEF OneInbox, Faults

LEMMA NoOpen ==
    ASSUME OpenAlone, NEW x \in Left, Opening(x)
    PROVE  \A t \in Tasks : ~Open(t)
BY DEF OpenAlone, Alone

\* Nothing opens what was closed.
LEMMA OpenedBefore ==
    ASSUME NEW t \in Tasks, log'[t].phase = log[t].phase,
           log'[t].st = log[t].st \/ log'[t].st \in {"Done", "Failed"}, Open(t)'
    PROVE  Open(t) /\ log'[t].st = log[t].st
BY DEF Open, Pending

LEMMA OpenNone ==
    ASSUME \A t \in Tasks' : ~Open(t)'
    PROVE  OpenAlone'
BY DEF OpenAlone

LEMMA OpenHead ==
    ASSUME TodoTyped, OpenAlone, ~Idle, Opening(todo[1]), Tasks' = Tasks,
           \A t \in Tasks : /\ log'[t].phase = log[t].phase
                            /\ log'[t].st = log[t].st \/ log'[t].st \in {"Done", "Failed"}
    PROVE  OpenAlone' /\ \A t \in Tasks' : ~Open(t)'
<1>1. \A t \in Tasks : ~Open(t)
  <2>1. todo[1] \in Left
    BY HeadIs
  <2> QED
    BY <2>1, NoOpen
<1>2. \A t \in Tasks' : ~Open(t)'
  BY <1>1, OpenedBefore
<1> QED
  BY <1>2, OpenNone

LEMMA OpenStays ==
    ASSUME TypeOK, OpenAlone, Fixed, Tasks' = Tasks, Len(log') = Len(log),
           \A t \in Tasks : /\ log'[t].phase = log[t].phase /\ log'[t].about = log[t].about
                            /\ log'[t].cycle = log[t].cycle
                            /\ log'[t].st = log[t].st \/ log'[t].st \in {"Done", "Failed"},
           job' = job \/ (job' = "Revoked" /\ \A t \in Tasks : ~Pending(t)'),
           slice' # None => (slice # None /\ slice'.cycle = slice.cycle) \/ slice'.cycle = TopCycle,
           \A t \in Tasks : Open(t) => \A x \in Left' : ~Opening(x)'
    PROVE  OpenAlone'
<1> SUFFICES ASSUME NEW t \in Tasks, Open(t)' PROVE Alone(t)'
  BY DEF OpenAlone
<1>1. Open(t) /\ log'[t].st = log[t].st /\ (Pending(t) => Pending(t)')
  BY OpenedBefore DEF Pending
<1>2. Alone(t)
  BY <1>1 DEF OpenAlone
<1>3. log[t].phase \in {"Work", "Evaluation", "Escalation"}
  BY TasksAre DEF TypeOK, TaskRecords
<1>4. log[t].phase # "Work" => Pending(t)
  BY <1>1 DEF Open
<1>5. TopCycle = log[t].cycle
  <2>1. /\ TopCycle \in Nat \ {0} /\ log[t].cycle \in Nat \ {0} /\ log[t].cycle <= TopCycle
        /\ TopCycle = 1 \/ \E u \in Tasks : log[u].cycle = TopCycle
    BY TopCycleIs, TasksAre DEF TypeOK, TaskRecords
  <2>2. \A u \in Tasks : log[u].cycle <= log[t].cycle
    BY <1>2 DEF Alone
  <2> QED
    BY <2>1, <2>2
<1>6. t = Len(log') /\ \A u \in Tasks' : log'[u].cycle <= log'[t].cycle
  BY <1>2 DEF Alone
<1>7. /\ log'[t].phase = "Work" => log'[t].about = "none" /\ job' \in {"Work", "Revoked"}
      /\ log'[t].phase = "Evaluation" => log'[t].about = Approval /\ approval' /\ job' = "Evaluation"
      /\ log'[t].phase = "Escalation" => job' \in {"Escalated", "Stalled"}
  BY <1>1, <1>2, <1>4 DEF Alone, Fixed
<1>8. log'[t].phase # "Escalation" /\ slice' # None /\ job' # "Revoked" => log'[t].cycle = slice'.cycle
  BY <1>2, <1>5 DEF Alone
<1>9. \A x \in Left' : ~Opening(x)'
  BY <1>1
<1> QED
  BY <1>6, <1>7, <1>8, <1>9 DEF Alone

\* A new task, when there is no other.
LEMMA OpenAdds ==
    ASSUME LogTyped, \A t \in Tasks : ~Open(t), NEW r \in TaskRecords, Adds(r),
           \A t \in Tasks : log[t].cycle <= r.cycle, NEW new, new = Len(log) + 1,
           Open(new)' =>
             /\ r.phase = "Work" => r.about = "none" /\ job' \in {"Work", "Revoked"}
             /\ r.phase = "Evaluation" => r.about = Approval /\ approval' /\ job' = "Evaluation"
             /\ r.phase = "Escalation" => job' \in {"Escalated", "Stalled"}
             /\ r.phase # "Escalation" /\ slice' # None /\ job' # "Revoked" => r.cycle = slice'.cycle
             /\ \A x \in Left' : ~Opening(x)'
    PROVE  OpenAlone'
<1> SUFFICES ASSUME NEW t \in Tasks', Open(t)' PROVE Alone(t)'
  BY DEF OpenAlone
<1>1. t = new /\ log'[new] = r /\ Len(log') = new
  <2>1. ASSUME t \in Tasks PROVE FALSE
    <3>1. log'[t] = log[t]
      BY <2>1 DEF Adds
    <3>2. Open(t)
      BY <3>1 DEF Open, Pending
    <3> QED
      BY <2>1, <3>2
  <2> QED
    BY <2>1 DEF Adds
<1>2. \A u \in Tasks' : log'[u].cycle <= r.cycle
  <2>1. r.cycle \in Nat
    BY DEF TaskRecords
  <2>2. Tasks' = Tasks \cup {new} /\ \A u \in Tasks : log'[u] = log[u]
    BY DEF Adds
  <2>3. r.cycle <= r.cycle
    BY <2>1
  <2> QED
    BY <1>1, <2>2, <2>3
<1> QED
  BY <1>1, <1>2 DEF Alone

\* What is open after a step that does not touch the tasks.
LEMMA OpeningSame ==
    ASSUME TypeOK, NEW x \in Left, slice' # None => slice # None,
           \A t \in Tasks : log'[t].phase = log[t].phase, Opening(x)'
    PROVE  Opening(x)
<1>1. x.op = "attach" => x.n \in Tasks
  BY DEF TypeOK, TodoTyped, ChoreTyped
<1>2. CASE x.op \in Opens
  BY <1>2 DEF Opening
<1>3. CASE x.op = "attach" /\ log'[x.n].phase = "Evaluation" /\ slice' # None
  <2>1. PICK t \in Tasks : t = x.n
    BY <1>1, <1>3
  <2> QED
    BY <1>3, <2>1 DEF Opening
<1> QED
  BY <1>2, <1>3 DEF Opening

LEMMA OpenCalm ==
    ASSUME TypeOK, OpenAlone, Fixed, SameTasks, job' = job,
           slice' # None => slice # None /\ slice'.cycle = slice.cycle,
           \A x \in Left' : x \in Left \/ x.op \notin Opens \cup {"attach"}
    PROVE  OpenAlone'
<1>1. ASSUME NEW t \in Tasks, Open(t), NEW x \in Left' PROVE ~Opening(x)'
  <2>1. \A y \in Left : ~Opening(y)
    BY <1>1 DEF OpenAlone, Alone
  <2>2. CASE x \in Left
    <3>1. \A u \in Tasks : log'[u].phase = log[u].phase
      BY DEF SameTasks, Alike
    <3> QED
      BY <2>1, <2>2, <3>1, OpeningSame
  <2>3. CASE x.op \notin Opens \cup {"attach"}
    BY <2>3 DEF Opening
  <2> QED
    BY <2>2, <2>3
<1>2. \A t \in Tasks : /\ log'[t].phase = log[t].phase /\ log'[t].about = log[t].about
                       /\ log'[t].cycle = log[t].cycle
                       /\ log'[t].st = log[t].st \/ log'[t].st \in {"Done", "Failed"}
  BY DEF SameTasks, Alike
<1>3. Tasks' = Tasks /\ Len(log') = Len(log)
  BY DEF SameTasks
<1> QED
  BY <1>1, <1>2, <1>3, OpenStays

\* The only open task is closed.
LEMMA OpenClosed ==
    ASSUME OpenAlone, NEW t \in Tasks, Tasks' = Tasks, \A u \in Tasks : Open(u) => u = t,
           \A u \in Tasks : /\ log'[u].phase = log[u].phase
                            /\ log'[u].st = log[u].st \/ (u = t /\ log'[u].st \in {"Done", "Failed"}),
           log'[t].st \in {"Done", "Failed"}
    PROVE  OpenAlone' /\ \A u \in Tasks' : ~Open(u)'
<1>1. ASSUME NEW u \in Tasks', Open(u)' PROVE FALSE
  <2>1. u \in Tasks /\ Open(u) /\ log'[u].st = log[u].st
    BY <1>1, OpenedBefore
  <2>2. u = t
    BY <2>1
  <2> QED
    BY <1>1, <2>2 DEF Open, Pending
<1> QED
  BY <1>1, OpenNone

LEMMA OpenOnly ==
    ASSUME OpenAlone, NEW t \in Tasks, Open(t)
    PROVE  \A u \in Tasks : Open(u) => u = t
BY DEF OpenAlone, Alone

LEMMA OpenAnswered ==
    ASSUME OpenAlone, NEW t \in Tasks, Pending(t), NEW st \in {"Done", "Failed"}, NEW v,
           Answered(t, st, v)
    PROVE  OpenAlone' /\ \A u \in Tasks' : ~Open(u)'
<1>1. \A u \in Tasks : Open(u) => u = t
  BY OpenOnly DEF Open
<1>2. /\ Tasks' = Tasks /\ log'[t].st \in {"Done", "Failed"}
      /\ \A u \in Tasks : /\ log'[u].phase = log[u].phase
                          /\ log'[u].st = log[u].st \/ (u = t /\ log'[u].st \in {"Done", "Failed"})
  BY AnswerKeeps DEF Answered
<1> QED
  BY <1>1, <1>2, OpenClosed

\* A sign-off that is open is what the round of its stage waits for.
LEMMA SignOffWaits ==
    ASSUME Kept, OneTask, NEW t \in Tasks, Open(t), log[t].phase = "Evaluation",
           Quiet, ~Has("recover")
    PROVE  /\ Pending(t) /\ log[t].about = Approval /\ job = "Evaluation" /\ approval
           /\ Rounding /\ slice.round.stage = Len(Stages)
           /\ Len(Stages) \in 1..Len(Stages) /\ Stages[Len(Stages)] = {Approval}
           /\ slice.round.slot[Approval] = [task |-> t, out |-> "open"]
<1>1. Pending(t) /\ Alone(t) /\ SignedOff(t)
  BY DEF OneTask, OpenAlone, SignOffKept, Open
<1>2. log[t].about = Approval /\ job = "Evaluation" /\ approval
  BY <1>1 DEF Alone
<1>3. \A x \in Left : x.op \notin {"launch", "slots", "rebuild"}
  BY DEF Quiet, SlotOps
<1>4. /\ Rounding /\ slice.round.stage = Len(Stages)
      /\ slice.round.slot[Approval] = [task |-> t, out |-> "open"]
  BY <1>1, <1>3 DEF SignedOff, Has
<1>5. Stages[Len(Stages)] = {Approval}
  BY <1>2, StagesAre DEF Kept, TypeOK
<1>6. Len(Stages) \in 1..Len(Stages)
  BY <1>4 DEF Kept, TypeOK, SliceTyped
<1> QED
  BY <1>1, <1>2, <1>4, <1>5, <1>6

\* The end of a task, found by a report or by the clock.
LEMMA OpenEnds ==
    ASSUME Kept, OneTask, NEW t \in Tasks, TaskEnds(t), job' = job, Idle
    PROVE  OpenAlone'
<1>0. /\ Left = {} /\ After = {} /\ Quiet /\ ~Has("recover")
      /\ TypeOK /\ OpenAlone
  BY AfterIs DEF Kept, OneTask, TypeOK, Quiet, Has
<1>1. /\ Fixed /\ Tasks' = Tasks /\ Len(log') = Len(log)
      /\ \A u \in Tasks : /\ log'[u].phase = log[u].phase
                          /\ log'[u].st = log[u].st \/ (u = t /\ log'[u].st \in {"Done", "Failed"})
  BY <1>0, EndsKeep DEF TaskEnds
<1>2. CASE TaskKept
  <2>1. SameTasks /\ slice' = slice /\ Left' = {}
    BY <1>0, <1>2, LogIsSame DEF TaskKept
  <2> QED
    BY <1>0, <1>1, <2>1, OpenCalm
<1>3. CASE WorkEnded(t)
  <2>1. Open(t) /\ log'[t].st \in {"Done", "Failed"}
    BY <1>3 DEF WorkEnded, Open
  <2> QED
    BY <1>0, <1>1, <2>1, OpenOnly, OpenClosed
<1>4. CASE SlotAgain(t) \/ SlotEnded(t)
  <2>1. OpenSlot(t) /\ log'[t].st \in {"Done", "Failed"}
    BY <1>4 DEF SlotAgain, SlotEnded
  <2>2. /\ Rounding /\ log[t].phase = "Evaluation" /\ job = "Evaluation"
        /\ log[t].about \in Evaluators
        /\ slice.round.slot[log[t].about] = [task |-> t, out |-> "open"]
    BY <1>0, <2>1 DEF OpenSlot, TypeOK, SliceTyped, LogTyped, TaskTyped
  <2>3. log[t].about \in Stages[slice.round.stage]
    BY <2>2 DEF OneTask, RoundKept, OpensInStage
  <2>4. ASSUME NEW u \in Tasks, Open(u) PROVE u = t
    <3>1. log[u].phase = "Evaluation"
      <4>1. Alone(u)
        BY <1>0, <2>4 DEF OpenAlone
      <4>2. log[u].phase \in {"Work", "Evaluation", "Escalation"}
        BY <1>0, TasksAre DEF TypeOK, TaskRecords
      <4> QED
        BY <2>2, <4>1, <4>2 DEF Alone
    <3>2. /\ slice.round.stage = Len(Stages) /\ Stages[Len(Stages)] = {Approval}
          /\ slice.round.slot[Approval] = [task |-> u, out |-> "open"]
      BY <1>0, <2>4, <3>1, SignOffWaits
    <3>3. log[t].about = Approval
      BY <2>3, <3>2
    <3> QED
      BY <2>2, <3>2, <3>3
  <2> QED
    BY <1>0, <1>1, <2>1, <2>4, OpenClosed
<1>5. ~SlotNone(t)
  BY DEF SlotNone
<1> QED
  BY <1>2, <1>3, <1>4, <1>5 DEF TaskEnds

\* What a restart finds of an evaluation.
LEMMA RecoveryLeft ==
    ASSUME TypeOK, Stages # <<>>, Then(RecoverEvaluation(TopCycle)),
           NEW i, i = RoundFromLog(TopCycle).stage
    PROVE  /\ i \in 1..Len(Stages)
           /\ \A x \in Left' :
                \/ /\ x.op = "launch" /\ x.of \in Stages[i]
                   /\ Latest(Lineage("Evaluation", TopCycle, x.of)) = 0
                \/ x.op = "rebuild" \/ x.op = "settle"
                \/ \E t \in Tasks :
                     /\ x.op = "attach" /\ x.n = t /\ log[t].about \in Stages[i]
                     /\ t = Latest(Lineage("Evaluation", TopCycle, log[t].about))
                     /\ log[t].st = "Running" /\ log[t].phase = "Evaluation"
                     /\ log[t].cycle = TopCycle
                \/ x \in After
           /\ Has("rebuild")'
           /\ \A j \in 1..Len(Stages) : \A ev \in Stages[j] :
                Latest(Lineage("Evaluation", TopCycle, ev)) # 0 => j <= i
<1>1. PICK l : l = RecoverEvaluation(TopCycle)
  OBVIOUS
<1>2. KindTyped /\ LogTyped /\ TodoTyped /\ TopCycle \in Nat
  BY TopCycleIs DEF TypeOK
<1>3. PICK evs : evs = Stages[i]
  OBVIOUS
<1>4. PICK c \in Nat : c = TopCycle
  BY <1>2
<1>5. /\ l \in Seq(Chores)
      /\ \A x \in ToSet(l) :
           \/ \E ev \in evs : /\ x = [op |-> "launch", cycle |-> 0, n |-> 1, of |-> ev]
                              /\ Latest(Lineage("Evaluation", c, ev)) = 0
           \/ x = [op |-> "rebuild", cycle |-> c, n |-> 0, of |-> "none"]
           \/ \E ev \in evs : \E t \in Tasks :
                /\ x = [op |-> "attach", cycle |-> 0, n |-> t, of |-> "none"]
                /\ t = Latest(Lineage("Evaluation", c, ev)) /\ log[t].st = "Running"
                /\ log[t].phase = "Evaluation" /\ log[t].cycle = c /\ log[t].about = ev
           \/ x = [op |-> "settle", cycle |-> 0, n |-> 0, of |-> "none"]
      /\ [op |-> "rebuild", cycle |-> c, n |-> 0, of |-> "none"] \in ToSet(l)
  BY <1>1, <1>2, <1>3, <1>4, RecoverEvaluationIs
<1>6. Left' = ToSet(l) \cup After
  BY <1>1, <1>2, <1>5, ThenLeft
<1>7. /\ i \in 1..Len(Stages)
      /\ \A j \in 1..Len(Stages) : \A ev \in Stages[j] :
                Latest(Lineage("Evaluation", TopCycle, ev)) # 0 => j <= i
  BY <1>2, RoundFromLogIs
<1>8. Has("rebuild")'
  BY <1>5, <1>6 DEF Has
<1>9. ASSUME NEW x \in ToSet(l)
      PROVE  \/ /\ x.op = "launch" /\ x.of \in Stages[i]
                /\ Latest(Lineage("Evaluation", TopCycle, x.of)) = 0
             \/ x.op = "rebuild" \/ x.op = "settle"
             \/ \E t \in Tasks :
                  /\ x.op = "attach" /\ x.n = t /\ log[t].about \in Stages[i]
                  /\ t = Latest(Lineage("Evaluation", TopCycle, log[t].about))
                  /\ log[t].st = "Running" /\ log[t].phase = "Evaluation"
                  /\ log[t].cycle = TopCycle
  <2>1. CASE \E ev \in evs : /\ x = [op |-> "launch", cycle |-> 0, n |-> 1, of |-> ev]
                             /\ Latest(Lineage("Evaluation", c, ev)) = 0
    BY <1>3, <1>4, <2>1
  <2>2. CASE \E ev \in evs : \E t \in Tasks :
                /\ x = [op |-> "attach", cycle |-> 0, n |-> t, of |-> "none"]
                /\ t = Latest(Lineage("Evaluation", c, ev)) /\ log[t].st = "Running"
                /\ log[t].phase = "Evaluation" /\ log[t].cycle = c /\ log[t].about = ev
    BY <1>3, <1>4, <2>2
  <2>3. CASE \/ x = [op |-> "rebuild", cycle |-> c, n |-> 0, of |-> "none"]
             \/ x = [op |-> "settle", cycle |-> 0, n |-> 0, of |-> "none"]
    BY <2>3
  <2> QED
    BY <1>5, <2>1, <2>2, <2>3
<1> QED
  BY <1>6, <1>7, <1>8, <1>9

\* After a chore that launches nothing comes at most the rest of a restart.
LEMMA AfterHead ==
    ASSUME TypeOK, ~Idle, ~Busy
    PROVE  \A x \in After : x \in Left /\ x.op \in {"attach", "sweep"}
BY AfterIs DEF TypeOK

\* No restart attaches to an evaluator of a job that is not evaluated.
LEMMA NotAttached ==
    ASSUME Kept, OneTask, ~Busy, ~Idle, todo[1].op \notin {"launch", "slots", "rebuild"},
           job # "Evaluation", job' = job, slice' = slice,
           \A t \in Tasks : log'[t].phase = log[t].phase
    PROVE  \A x \in After : ~Opening(x)'
<1>0. TypeOK /\ \A x \in After : x \in Left /\ x.op \in {"attach", "sweep"}
  BY AfterHead DEF Kept
<1>1. ~Has("rebuild") /\ ~Rounding
  <2>1. Left = {todo[1]} \cup After
    BY <1>0, AfterIs DEF TypeOK
  <2> QED
    BY <1>0, <2>1 DEF Has, TypeOK, SliceTyped
<1> SUFFICES ASSUME NEW x \in After, Opening(x)' PROVE FALSE
  OBVIOUS
<1>2. Opening(x)
  BY <1>0, OpeningSame
<1>3. x.op = "attach" /\ log[x.n].phase = "Evaluation" /\ slice # None
  BY <1>0, <1>2 DEF Opening, Opens
<1> QED
  BY <1>0, <1>1, <1>3 DEF OneTask, RoundKept, AttachesSlots

LEMMA OpenAttempt ==
    ASSUME Kept, OneTask, StartAttempt
    PROVE  OpenAlone'
<1>0. /\ TypeOK /\ OpenAlone /\ LogTyped /\ After \subseteq Left /\ ~Busy /\ ~Idle
      /\ todo[1].op = "attempt" /\ todo[1] \in Left /\ Fixed /\ job' = job /\ slice' = slice
  <2>1. TypeOK /\ OpenAlone /\ LogTyped
    BY DEF Kept, OneTask, TypeOK
  <2>2. ~Busy /\ ~Idle /\ todo[1].op = "attempt" /\ Fixed /\ job' = job /\ slice' = slice
    BY <2>1, StartAttemptIs DEF Busy
  <2> QED
    BY <2>1, <2>2, AfterIs, HeadIs DEF TypeOK
<1>1. ChoreKept(todo[1])
  BY <1>0 DEF OneTask, CyclesKept
<1>2. CASE Calm /\ Left' = After
  BY <1>0, <1>2, OpenCalm DEF Calm
<1>3. CASE ~(Calm /\ Left' = After)
  <2>1. slice # None
    BY <1>0, <1>3, StartAttemptIs
  <2>2. PICK r \in TaskRecords :
          /\ Adds(r) /\ r.phase = "Work" /\ r.about = "none" /\ r.cycle = todo[1].cycle
          /\ \A x \in Left' : x \in After \/ x.op = "unclaim" \/ x.op = "place"
    BY <1>0, <1>3, StartAttemptIs
  <2>3. job = "Work" /\ r.cycle = slice.cycle /\ \A t \in Tasks : log[t].cycle <= r.cycle
    BY <1>0, <1>1, <2>1, <2>2 DEF ChoreKept, OneTask, CyclesKept
  <2>4. \A t \in Tasks : ~Open(t)
    BY <1>0, NoOpen DEF Opening, Opens
  <2>5. \A x \in After : ~Opening(x)'
    <3>1. \A t \in Tasks : log'[t].phase = log[t].phase
      BY <2>2 DEF Adds
    <3> QED
      BY <1>0, <2>3, <3>1, NotAttached
  <2>6. \A x \in Left' : ~Opening(x)'
    BY <2>2, <2>5 DEF Opening, Opens
  <2>7. PICK new : new = Len(log) + 1
    OBVIOUS
  <2> QED
    BY <1>0, <2>2, <2>3, <2>4, <2>6, <2>7, OpenAdds
<1> QED
  BY <1>2, <1>3

LEMMA OpenInbox ==
    ASSUME Kept, OneTask, FillInbox
    PROVE  OpenAlone'
<1>0. /\ TypeOK /\ OpenAlone /\ LogTyped /\ ~Busy /\ ~Idle
      /\ todo[1].op = "inbox" /\ todo[1] \in Left /\ Fixed /\ job' = job /\ slice' = slice
      /\ Left' = After
  <2>1. TypeOK /\ OpenAlone /\ LogTyped
    BY DEF Kept, OneTask, TypeOK
  <2>2. /\ ~Busy /\ ~Idle /\ todo[1].op = "inbox" /\ Fixed /\ job' = job /\ slice' = slice
        /\ Left' = After
    BY <2>1, FillInboxIs DEF Busy
  <2> QED
    BY <2>1, <2>2, HeadIs DEF TypeOK
<1>1. job \in {"Escalated", "Stalled"}
  BY <1>0 DEF OneTask, CyclesKept, ChoreKept
<1>2. PICK r \in TaskRecords : Adds(r) /\ r.phase = "Escalation" /\ r.cycle = TopCycle
  BY <1>0, FillInboxIs
<1>3. \A t \in Tasks : log[t].cycle <= r.cycle
  BY <1>0, <1>2, TopCycleIs
<1>4. \A t \in Tasks : ~Open(t)
  BY <1>0, NoOpen DEF Opening, Opens
<1>5. \A x \in Left' : ~Opening(x)'
  <2>1. \A t \in Tasks : log'[t].phase = log[t].phase
    BY <1>2 DEF Adds
  <2> QED
    BY <1>0, <1>1, <2>1, NotAttached
<1>6. PICK new : new = Len(log) + 1
  OBVIOUS
<1> QED
  BY <1>0, <1>1, <1>2, <1>3, <1>4, <1>5, <1>6, OpenAdds

\* The sign-off is alone in its stage, so nothing is launched or attached to after it.
LEMMA SignOffAlone ==
    ASSUME Kept, OneTask, ~Idle, todo[1].op = "launch", todo[1].of = Approval
    PROVE  \A x \in After : ~Opening(x)
<1>0. /\ TypeOK /\ KindTyped /\ TodoTyped /\ Left = {todo[1]} \cup After /\ After \subseteq Left
      /\ todo[1] \in Left
      /\ \A x \in After : x.op \in {"launch", "slots", "rebuild", "settle", "attach", "sweep"}
  BY AfterIs DEF Kept, TypeOK
<1> SUFFICES ASSUME NEW x \in After, Opening(x) PROVE FALSE
  OBVIOUS
<1>1. CASE x.op = "launch"
  <2>1. PICK k \in 2..Len(todo) : x = todo[k]
    BY DEF After, Rest
  <2>2. Len(todo) \in Nat \ {0} /\ DOMAIN todo = 1..Len(todo)
    BY <1>0, HeadIs
  <2>3. 1 \in DOMAIN todo /\ k \in DOMAIN todo /\ 1 < k
    BY <2>1, <2>2
  <2>4. todo[k].op # "launch"
    BY <2>3 DEF Kept, Ranked, Ranks
  <2> QED
    BY <1>1, <2>1, <2>4
<1>2. CASE x.op = "attach" /\ log[x.n].phase = "Evaluation" /\ slice # None
  <2>0. x \in Left
    BY <1>0
  <2>1. CASE Has("rebuild")
    <3>1. PICK i \in 1..Len(Stages) : InStage(i)
      BY <2>1 DEF OneTask, RoundKept
    <3>2. Approval \in Stages[i]
      BY <1>0, <3>1 DEF InStage
    <3>3. Stages[i] = {Approval}
      BY <1>0, <3>2, SignOffStage
    <3>4. log[x.n].about \in Stages[i] /\ \A y \in Left : y.op = "launch" => y.of # log[x.n].about
      BY <1>2, <2>0, <3>1 DEF InStage
    <3> QED
      BY <1>0, <3>3, <3>4
  <2>2. CASE ~Has("rebuild")
    <3>1. Rounding /\ slice.round.slot[log[x.n].about] = [task |-> x.n, out |-> "open"]
      BY <1>2, <2>0, <2>2 DEF OneTask, RoundKept, AttachesSlots
    <3>2. log[x.n].about \in Evaluators
      <4>1. PICK t \in Tasks : t = x.n
        BY <1>0, <1>2, <2>0 DEF TodoTyped, ChoreTyped
      <4> QED
        BY <1>0, <1>2, <4>1 DEF TypeOK, LogTyped, TaskTyped
    <3>3. Stale(Approval)
      BY <1>0 DEF Kept, SlotsKept, LaunchesCovered
    <3>4. PICK y \in Left : y.op = "slots" /\ Approval \in Covers(y)
      BY <2>2, <3>3 DEF Stale, Has
    <3>5. IF y.of = "all" THEN \A ev \in Evaluators : slice.round.slot[ev].out # "open"
          ELSE y.of # Approval
      BY <3>4 DEF OneTask, RoundKept, SlotsAgain
    <3>6. CASE y.of = "all"
      BY <3>1, <3>2, <3>5, <3>6
    <3>7. CASE y.of # "all"
      BY <3>4, <3>5, <3>7 DEF Covers
    <3> QED
      BY <3>6, <3>7
  <2> QED
    BY <2>1, <2>2
<1> QED
  BY <1>0, <1>1, <1>2 DEF Opening, Opens

LEMMA OpenLaunch ==
    ASSUME Kept, OneTask, OneInbox, LaunchEvaluator
    PROVE  OpenAlone'
<1>0. /\ TypeOK /\ OpenAlone /\ LogTyped /\ After \subseteq Left /\ ~Idle
      /\ todo[1].op = "launch" /\ todo[1] \in Left /\ Fixed /\ job = "Evaluation" /\ job' = job
      /\ slice' = slice /\ slice # None /\ todo[1].of \in Evaluators
  <2>1. TypeOK /\ OpenAlone /\ LogTyped
    BY DEF Kept, OneTask, TypeOK
  <2>2. /\ ~Idle /\ todo[1].op = "launch" /\ Fixed /\ job = "Evaluation" /\ job' = job
        /\ slice' = slice /\ slice # None /\ todo[1].of \in Evaluators
    BY <2>1, LaunchEvaluatorIs
  <2> QED
    BY <2>1, <2>2, AfterIs, HeadIs DEF TypeOK
<1>1. PICK r \in TaskRecords :
        /\ Adds(r) /\ r.phase = "Evaluation" /\ r.about = todo[1].of /\ r.cycle = slice.cycle
        /\ \/ EvType[todo[1].of] = "human" /\ r.st = "Pending" /\ Left' = After
           \/ EvType[todo[1].of] # "human" /\ r.st = "Running"
  BY <1>0, LaunchEvaluatorIs
<1>2. \A t \in Tasks : log[t].cycle <= r.cycle
  BY <1>0, <1>1 DEF OneTask, CyclesKept
<1>3. \A t \in Tasks : ~Open(t)
  BY <1>0, NoOpen DEF Opening, Opens
<1>4. PICK new : new = Len(log) + 1
  OBVIOUS
<1>5. CASE r.st = "Running"
  <2>1. ~Open(new)'
    BY <1>1, <1>4, <1>5 DEF Open, Pending, Adds
  <2> QED
    BY <1>0, <1>1, <1>2, <1>3, <1>4, <2>1, OpenAdds
<1>6. CASE r.st # "Running"
  <2>1. todo[1].of = Approval /\ Left' = After
    BY <1>0, <1>1, <1>6, OneInboxIs
  <2>2. approval'
    <3>1. PICK i \in 1..Len(Stages) : Approval \in Stages[i]
      BY <1>0, <2>1, EvaluatorsAre DEF Evaluators, TypeOK
    <3> QED
      BY <1>0, <3>1, SignOffStage DEF Fixed, TypeOK
  <2>3. \A x \in After : ~Opening(x)
    BY <1>0, <2>1, SignOffAlone
  <2>4. \A x \in Left' : ~Opening(x)'
    <3>1. \A t \in Tasks : log'[t].phase = log[t].phase
      BY <1>1 DEF Adds
    <3> QED
      BY <1>0, <2>1, <2>3, <3>1, OpeningSame
  <2> QED
    BY <1>0, <1>1, <1>2, <1>3, <1>4, <2>1, <2>2, <2>4, OpenAdds
<1> QED
  BY <1>5, <1>6

\* A restart does nothing else until it has seen what there is to recover.
LEMMA RecoverFirst ==
    ASSUME Kept, ~Idle, todo[1].op = "recover"
    PROVE  ~Busy /\ \A x \in After : x.op = "sweep"
<1>1. TodoTyped /\ Left = {todo[1]} \cup After /\ (~Busy => \A x \in After : x.op \in {"attach", "sweep"})
  BY AfterIs DEF Kept, TypeOK
<1>2. ~Busy /\ Has("recover")
  BY <1>1 DEF Busy, Has
<1> QED
  BY <1>1, <1>2 DEF Kept, Ranked

LEMMA OpenRecover ==
    ASSUME Kept, OneTask, Recover
    PROVE  OpenAlone'
<1>0. TypeOK /\ OpenAlone /\ KindTyped /\ LogTyped /\ TodoTyped /\ After \subseteq Left
  BY AfterIs DEF Kept, OneTask, TypeOK
<1>1. /\ ~Idle /\ todo[1].op = "recover" /\ Fixed /\ SameTasks /\ job' = job
      /\ slice' # None => slice'.cycle = TopCycle
  BY <1>0, RecoverLeft DEF Calm
<1>2. \A x \in After : x.op = "sweep"
  BY <1>1, RecoverFirst
<1>3. \A t \in Tasks : log[t].phase \in {"Work", "Evaluation", "Escalation"}
  BY <1>0, TasksAre DEF TaskRecords
<1>4. ASSUME NEW t \in Tasks, Open(t), NEW x \in Left', Opening(x)' PROVE FALSE
  <2>1. Alone(t)
    BY <1>0, <1>4 DEF OpenAlone
  <2>2. x.op # "sweep"
    BY <1>4 DEF Opening, Opens
  <2>3. log[t].cycle = TopCycle
    <3>1. /\ TopCycle \in Nat \ {0} /\ log[t].cycle \in Nat \ {0} /\ log[t].cycle <= TopCycle
          /\ TopCycle = 1 \/ \E u \in Tasks : log[u].cycle = TopCycle
      BY <1>0, TopCycleIs, TasksAre DEF TaskRecords
    <3>2. \A u \in Tasks : log[u].cycle <= log[t].cycle
      BY <2>1 DEF Alone
    <3> QED
      BY <3>1, <3>2
  <2>4. CASE Left' = After
    BY <1>2, <1>4, <2>2, <2>4
  <2>5. CASE /\ job \in {"Escalated", "Stalled"}
             /\ ~\E u \in Tasks : log[u].phase = "Escalation" /\ Pending(u)
    BY <1>3, <1>4, <2>1, <2>5 DEF Alone, Open
  <2>6. CASE \E u \in Tasks : /\ log[u].phase = "Work"
                              /\ Left' = {[op |-> "attach", cycle |-> 0, n |-> u, of |-> "none"]} \cup After
    <3>1. PICK u \in Tasks : /\ log[u].phase = "Work"
                             /\ Left' = {[op |-> "attach", cycle |-> 0, n |-> u, of |-> "none"]} \cup After
      BY <2>6
    <3>2. x.op = "attach" /\ x.n = u
      BY <1>2, <1>4, <2>2, <3>1
    <3>3. log'[x.n].phase = "Work"
      BY <1>1, <3>1, <3>2 DEF SameTasks, Alike
    <3> QED
      BY <1>4, <3>2, <3>3 DEF Opening, Opens
  <2>7. CASE /\ job = "Work"
             /\ Latest(WorkTasks(TopCycle)) # 0 =>
                  log[Latest(WorkTasks(TopCycle))].st \in {"Done", "Failed"}
    <3>1. log[t].phase = "Work" /\ log[t].about = "none"
      BY <1>3, <2>1, <2>7 DEF Alone
    <3>2. t \in WorkTasks(TopCycle)
      BY <2>3, <3>1 DEF WorkTasks, Lineage
    <3>3. Latest(WorkTasks(TopCycle)) = t
      <4>1. /\ Latest(WorkTasks(TopCycle)) \in Tasks /\ t <= Latest(WorkTasks(TopCycle))
        BY <1>0, <3>2, LineageIs DEF WorkTasks
      <4>2. t = Len(log) /\ Tasks = 1..Len(log) /\ Len(log) \in Nat
        BY <1>0, <2>1, TasksAre DEF Alone
      <4> QED
        BY <4>1, <4>2
    <3>4. t # 0
      BY <1>0, TasksAre
    <3> QED
      BY <1>4, <2>7, <3>3, <3>4 DEF Open, Pending
  <2>8. CASE job = "Evaluation"
    <3>1. log[t].phase = "Evaluation" /\ log[t].about = Approval /\ approval /\ Pending(t)
      BY <1>3, <1>4, <2>1, <2>8 DEF Alone, Open
    <3>2. /\ Stages[Len(Stages)] = {Approval} /\ Len(Stages) = Len(kind.stages) + 1
          /\ Len(kind.stages) \in Nat
      <4>1. /\ Stages[Len(Stages)] = {Approval}
            /\ Len(Stages) = Len(kind.stages) + (IF approval THEN 1 ELSE 0)
            /\ kind.stages \in Seq(SUBSET Names)
        BY <1>0, <3>1, StagesAre
      <4> QED
        BY <3>1, <4>1, LenProperties
    <3>3. Stages # <<>> /\ Len(Stages) \in 1..Len(Stages)
      BY <3>2
    <3>4. CASE Then(RecoverEvaluation(TopCycle))
      <4>1. PICK i : i = RoundFromLog(TopCycle).stage
        OBVIOUS
      <4>2. /\ i \in 1..Len(Stages)
            /\ \A y \in Left' :
                \/ /\ y.op = "launch" /\ y.of \in Stages[i]
                   /\ Latest(Lineage("Evaluation", TopCycle, y.of)) = 0
                \/ y.op = "rebuild" \/ y.op = "settle"
                \/ \E u \in Tasks :
                     /\ y.op = "attach" /\ y.n = u /\ log[u].about \in Stages[i]
                     /\ u = Latest(Lineage("Evaluation", TopCycle, log[u].about))
                     /\ log[u].st = "Running" /\ log[u].phase = "Evaluation"
                     /\ log[u].cycle = TopCycle
                \/ y \in After
            /\ \A j \in 1..Len(Stages) : \A ev \in Stages[j] :
                 Latest(Lineage("Evaluation", TopCycle, ev)) # 0 => j <= i
        BY <1>0, <3>3, <3>4, <4>1, RecoveryLeft
      <4>3. Latest(Lineage("Evaluation", TopCycle, Approval)) = t /\ t # 0
        <5>1. t \in Lineage("Evaluation", TopCycle, Approval)
          BY <2>3, <3>1 DEF Lineage
        <5>2. /\ Latest(Lineage("Evaluation", TopCycle, Approval)) \in Tasks
              /\ t <= Latest(Lineage("Evaluation", TopCycle, Approval))
          BY <1>0, <5>1, LineageIs
        <5>3. t = Len(log) /\ Tasks = 1..Len(log) /\ Len(log) \in Nat
          BY <1>0, <2>1, TasksAre DEF Alone
        <5> QED
          BY <5>2, <5>3
      <4>4. Len(Stages) <= i
        BY <3>2, <3>3, <4>2, <4>3
      <4>5. Stages[i] = {Approval}
        <5>1. i = Len(Stages)
          BY <3>3, <4>2, <4>4
        <5> QED
          BY <3>2, <5>1
      <4>6. CASE /\ x.op = "launch" /\ x.of \in Stages[i]
                 /\ Latest(Lineage("Evaluation", TopCycle, x.of)) = 0
        <5>1. x.of = Approval
          BY <4>5, <4>6
        <5> QED
          BY <4>3, <4>6, <5>1
      <4>7. CASE x.op = "rebuild" \/ x.op = "settle"
        BY <1>4, <4>7 DEF Opening, Opens
      <4>8. CASE \E u \in Tasks :
                     /\ log[u].about \in Stages[i] /\ log[u].st = "Running"
                     /\ u = Latest(Lineage("Evaluation", TopCycle, log[u].about))
        <5>1. PICK u \in Tasks :
                     /\ log[u].about \in Stages[i] /\ log[u].st = "Running"
                     /\ u = Latest(Lineage("Evaluation", TopCycle, log[u].about))
          BY <4>8
        <5>2. u = t
          BY <4>3, <4>5, <5>1
        <5> QED
          BY <3>1, <5>1, <5>2 DEF Pending
      <4> QED
        BY <1>2, <1>4, <2>2, <4>2, <4>6, <4>7, <4>8
    <3>5. Left' = After \/ Then(RecoverEvaluation(TopCycle))
      BY <1>0, <2>8, <3>3, RecoverLeft
    <3> QED
      BY <2>4, <3>4, <3>5
  <2>9. \/ Left' = After
        \/ /\ job \in {"Escalated", "Stalled"}
           /\ ~\E u \in Tasks : log[u].phase = "Escalation" /\ Pending(u)
        \/ \E u \in Tasks : /\ log[u].phase = "Work"
                            /\ Left' = {[op |-> "attach", cycle |-> 0, n |-> u, of |-> "none"]} \cup After
        \/ /\ job = "Work"
           /\ Latest(WorkTasks(TopCycle)) # 0 =>
                log[Latest(WorkTasks(TopCycle))].st \in {"Done", "Failed"}
        \/ job = "Evaluation"
    BY <1>0, RecoverLeft
  <2> QED
    BY <2>4, <2>5, <2>6, <2>7, <2>8, <2>9
<1>5. /\ Tasks' = Tasks /\ Len(log') = Len(log)
      /\ \A t \in Tasks : /\ log'[t].phase = log[t].phase /\ log'[t].about = log[t].about
                          /\ log'[t].cycle = log[t].cycle /\ log'[t].st = log[t].st
  BY <1>1 DEF SameTasks, Alike
<1>6. \A t \in Tasks : Open(t) => \A x \in Left' : ~Opening(x)'
  BY <1>4
<1> QED
  BY <1>0, <1>1, <1>5, <1>6, OpenStays

LEMMA OpenAttach ==
    ASSUME Kept, OneTask, Attach
    PROVE  OpenAlone'
<1>0. TypeOK /\ OpenAlone /\ TodoTyped /\ After \subseteq Left
  BY AfterIs DEF Kept, OneTask, TypeOK
<1>1. PICK t \in Tasks : t = todo[1].n /\ log[t].phase # "Escalation" /\ TaskEnds(t)
  BY <1>0, AttachEnds
<1>2. ~Idle /\ todo[1].op = "attach" /\ job' = job /\ todo[1] \in Left
  BY <1>0, AttachEnds, HeadIs DEF Unmoved
<1>3. /\ Fixed /\ Tasks' = Tasks /\ Len(log') = Len(log)
      /\ \A u \in Tasks : /\ log'[u].phase = log[u].phase
                          /\ log'[u].st = log[u].st \/ (u = t /\ log'[u].st \in {"Done", "Failed"})
  BY <1>0, <1>1, EndsKeep DEF TaskEnds
<1>4. CASE TaskKept
  <2>1. SameTasks /\ slice' = slice /\ Left' = After
    BY <1>4, LogIsSame DEF TaskKept
  <2> QED
    BY <1>0, <1>2, <1>3, <2>1, OpenCalm
<1>5. CASE ~TaskKept /\ log[t].phase = "Evaluation"
  <2>1. slice # None
    BY <1>1, <1>5 DEF TaskEnds, WorkEnded, SlotAgain, SlotEnded, SlotNone
  <2>2. Opening(todo[1])
    BY <1>1, <1>2, <1>5, <2>1 DEF Opening
  <2> QED
    BY <1>0, <1>2, <1>3, <2>2, OpenHead
<1>6. CASE ~TaskKept /\ log[t].phase # "Evaluation"
  <2>1. log[t].phase = "Work"
    BY <1>0, <1>1, <1>6, TasksAre DEF TypeOK, TaskRecords
  <2>2. Open(t)
    <3>1. log[t].st = "Running"
      BY <1>1, <1>2, <2>1 DEF OneTask, CyclesKept, ChoreKept
    <3> QED
      BY <2>1, <3>1 DEF Open
  <2>3. WorkEnded(t)
    BY <1>1, <1>6 DEF TaskEnds, SlotAgain, SlotEnded, SlotNone, OpenSlot
  <2>4. log'[t].st \in {"Done", "Failed"}
    BY <2>3 DEF WorkEnded
  <2> QED
    BY <1>0, <1>3, <2>2, <2>4, OpenOnly, OpenClosed
<1> QED
  BY <1>4, <1>5, <1>6

LEMMA OpenSettle ==
    ASSUME Kept, OneTask, Settle
    PROVE  OpenAlone'
<1>0. TypeOK /\ OpenAlone /\ TodoTyped /\ After \subseteq Left
  BY AfterIs DEF Kept, OneTask, TypeOK
<1>1. /\ ~Idle /\ todo[1].op = "settle" /\ Fixed /\ SameTasks /\ job = "Evaluation" /\ job' = job
      /\ (slice' = slice /\ Left' = After) \/ Settled
  BY <1>0, SettleIs DEF Calm
<1>2. CASE slice' = slice /\ Left' = After
  BY <1>0, <1>1, <1>2, OpenCalm
<1>3. CASE Settled
  <2>0. Quiet /\ ~Has("recover")
    <3>1. ~Busy /\ Left = {todo[1]} \cup After
      BY <1>0, <1>1, AfterIs DEF Busy
    <3>2. \A x \in After : x.op \in {"attach", "sweep"}
      BY <1>0, <1>1, <3>1, AfterIs
    <3> QED
      BY <1>1, <3>1, <3>2 DEF Quiet, SlotOps, Has
  <2>1. ASSUME NEW t \in Tasks, Open(t) PROVE FALSE
    <3>1. log[t].phase = "Evaluation"
      <4>1. Alone(t)
        BY <1>0, <2>1 DEF OpenAlone
      <4>2. log[t].phase \in {"Work", "Evaluation", "Escalation"}
        BY <1>0, TasksAre DEF TypeOK, TaskRecords
      <4> QED
        BY <1>1, <4>1, <4>2 DEF Alone
    <3>2. /\ slice.round.stage = Len(Stages) /\ Stages[Len(Stages)] = {Approval}
          /\ slice.round.slot[Approval] = [task |-> t, out |-> "open"]
      BY <2>0, <2>1, <3>1, SignOffWaits
    <3>3. "open" \in Outs(Stages[slice.round.stage])
      BY <3>2 DEF Outs
    <3> QED
      BY <1>3, <3>3 DEF Settled
  <2>2. \A t \in Tasks' : ~Open(t)'
    <3>1. \A t \in Tasks : log'[t].phase = log[t].phase /\ log'[t].st = log[t].st
      BY <1>1 DEF SameTasks, Alike
    <3> QED
      BY <1>1, <2>1, <3>1 DEF Open, Pending, SameTasks
  <2> QED
    BY <2>2, OpenNone
<1> QED
  BY <1>1, <1>2, <1>3

LEMMA OpenNext ==
    ASSUME Kept, OneTask, OneInbox, [Next]_vars
    PROVE  OpenAlone'
<1>0. /\ TypeOK /\ OpenAlone /\ TodoTyped /\ KindTyped /\ LogTyped /\ After \subseteq Left
      /\ (Idle => Left = {} /\ After = {})
  BY AfterIs DEF Kept, OneTask, TypeOK
<1>1. ASSUME Fixed, SameTasks, job' = job, slice' = slice, Left' \subseteq Left PROVE OpenAlone'
  BY <1>0, <1>1, OpenCalm
<1>2. ASSUME Plain, ~Idle, todo[1].op \in Opens PROVE OpenAlone'
  <2>1. SameTasks /\ Opening(todo[1])
    BY <1>0, <1>2, PlainIs DEF Opening
  <2>2. \A t \in Tasks : /\ log'[t].phase = log[t].phase
                         /\ log'[t].st = log[t].st \/ log'[t].st \in {"Done", "Failed"}
    BY <2>1 DEF SameTasks, Alike
  <2>3. Tasks' = Tasks
    BY <2>1 DEF SameTasks
  <2> QED
    BY <1>0, <1>2, <2>1, <2>2, <2>3, OpenHead
<1>3. CASE EnterWork \/ EnterRefused \/ EnterEvaluation \/ Finalize \/ Escalate \/ Retry \/ PreworkRetry
  <2>1. ~Idle /\ todo[1].op \in Opens
    BY <1>0, <1>3, EnterWorkIs, EnterRefusedIs, EnterEvaluationIs, FinalizeIs, EscalateIs, RetriedIs,
       PreworkRetryIs DEF Opens
  <2> QED
    BY <1>2, <1>3, <2>1 DEF Plain
<1>4. CASE Unclaim
  BY <1>0, <1>1, <1>4, UnclaimIs DEF Calm
<1>5. CASE PlaceFails
  BY <1>0, <1>1, <1>5, PlaceFailsIs DEF Calm
<1>6. CASE Stamp
  BY <1>0, <1>1, <1>6, StampIs
<1>7. CASE InstallSlots
  <2>1. Fixed /\ SameTasks /\ job' = job /\ Left' = After
    BY <1>0, <1>7, InstallSlotsCalm DEF Calm
  <2>2. slice # None /\ slice'.cycle = slice.cycle
    BY <1>0, <1>7, InstallSlotsIs DEF Rounding
  <2> QED
    BY <1>0, <2>1, <2>2, OpenCalm
<1>8. CASE Settle
  BY <1>8, OpenSettle
<1>9. CASE Rebuild
  BY <1>0, <1>9, RebuildIs, OpenCalm DEF Calm
<1>10. CASE StartJob
  <2>1. SameTasks /\ job = "Ready"
    BY <1>0, <1>10, StartJobIs DEF Calm
  <2>2. \A t \in Tasks : ~Open(t)
    <3>1. \A t \in Tasks : log[t].phase = "Escalation"
      BY <1>0, <2>1 DEF TypeOK, Unstarted
    <3> QED
      BY <1>0, <2>1, <3>1 DEF OpenAlone, Alone
  <2>3. \A t \in Tasks' : ~Open(t)'
    <3>1. \A t \in Tasks : log'[t].phase = log[t].phase /\ log'[t].st = log[t].st
      BY <2>1 DEF SameTasks, Alike
    <3> QED
      BY <2>1, <2>2, <3>1 DEF Open, Pending, SameTasks
  <2> QED
    BY <2>3, OpenNone
<1>11. CASE Revoke
  <2>1. Fixed /\ SameTasks /\ job' = job /\ slice' = slice
    BY <1>0, <1>11, RevokeIs DEF Calm
  <2>2. \A x \in Left' : x.op \notin Opens \cup {"attach"}
    BY <1>0, <1>11, RevokeIs DEF Opens
  <2> QED
    BY <1>0, <2>1, <2>2, OpenCalm
<1>12. CASE StartAttempt
  BY <1>12, OpenAttempt
<1>13. CASE Place
  <2>1. Fixed /\ SameTasks /\ job' = job /\ slice' = slice
    BY <1>0, <1>13, PlaceIs
  <2>2. \A x \in Left' : x \in Left \/ x.op \notin Opens \cup {"attach"}
    BY <1>0, <1>13, PlaceIs DEF Opens
  <2> QED
    BY <1>0, <2>1, <2>2, OpenCalm
<1>14. CASE LaunchEvaluator
  BY <1>14, OpenLaunch
<1>15. CASE FillInbox
  BY <1>15, OpenInbox
<1>16. CASE RevokeJob
  <2>0. /\ ~Idle /\ Fixed /\ slice' = None /\ Tasks' = Tasks /\ Len(log') = Len(log)
        /\ Left' \subseteq Left
        /\ \/ /\ job' = job
              /\ \A t \in Tasks : log'[t] = IF Pending(t)
                      THEN [log[t] EXCEPT !.st = "Done", !.verdict = "closed"] ELSE log[t]
           \/ job' = "Revoked" /\ log' = log /\ \A t \in Tasks : ~Pending(t)
    BY <1>0, <1>16, RevokeJobIs
  <2>1. ASSUME NEW t \in Tasks
        PROVE  /\ log'[t].phase = log[t].phase /\ log'[t].about = log[t].about
               /\ log'[t].cycle = log[t].cycle
               /\ log'[t].st = log[t].st \/ log'[t].st \in {"Done", "Failed"}
    <3>1. log[t] \in TaskRecords
      BY <1>0, TasksAre
    <3>2. CASE log'[t] = [log[t] EXCEPT !.st = "Done", !.verdict = "closed"]
      BY <3>1, <3>2 DEF TaskRecords
    <3>3. CASE log'[t] = log[t]
      BY <3>3
    <3> QED
      BY <2>0, <3>2, <3>3
  <2>2. job' = job \/ (job' = "Revoked" /\ \A t \in Tasks : ~Pending(t)')
    BY <2>0 DEF Pending
  <2>3. ASSUME NEW t \in Tasks, Open(t), NEW x \in Left' PROVE ~Opening(x)'
    <3>1. x \in Left /\ ~Opening(x)
      BY <1>0, <2>0, <2>3 DEF OpenAlone, Alone
    <3>2. \A u \in Tasks : log'[u].phase = log[u].phase
      BY <2>1
    <3>3. slice' # None => slice # None
      BY <2>0
    <3>4. Opening(x)' => Opening(x)
      BY <1>0, <3>1, <3>2, <3>3, OpeningSame
    <3> QED
      BY <3>1, <3>4
  <2> QED
    BY <1>0, <2>0, <2>1, <2>2, <2>3, OpenStays
<1>17. CASE Recover
  BY <1>17, OpenRecover
<1>18. CASE Attach
  BY <1>18, OpenAttach
<1>19. CASE Sweep
  BY <1>0, <1>1, <1>19, SweepIs
<1>20. ~DeadlineScan
  BY <1>0, OneInboxIs, DeadlineScanIs
<1>21. ASSUME NEW t \in Tasks, TimeoutScan(t) PROVE OpenAlone'
  BY <1>0, <1>21, TimeoutEnds, OpenEnds DEF Unmoved
<1>22. ASSUME NEW t \in Tasks, Exit(t) PROVE OpenAlone'
  BY <1>0, <1>22, ExitEnds, OpenEnds DEF Unmoved
<1>23. ASSUME NEW t \in Tasks, ContainerStarted(t) PROVE OpenAlone'
  BY <1>0, <1>1, <1>23, ContainerStartedIs DEF Still, Unmoved
<1>24. ASSUME NEW t \in Tasks, SubmitResult(t) PROVE OpenAlone'
  BY <1>0, <1>24, SubmitResultIs, OpenCalm DEF Still, Unmoved
<1>25. ASSUME NEW t \in Tasks, SubmitEval(t) PROVE OpenAlone'
  <2>1. Idle /\ Fixed /\ job' = job /\ Left' = Left /\ slice' = slice
    BY <1>0, <1>25, SubmitEvalIs DEF Unmoved
  <2>2. PICK v : Answered(t, "Done", v)
    BY <1>0, <1>25, SubmitEvalIs
  <2>3. /\ Tasks' = Tasks /\ Len(log') = Len(log)
        /\ \A u \in Tasks : /\ log'[u].phase = log[u].phase /\ log'[u].about = log[u].about
                            /\ log'[u].cycle = log[u].cycle
                            /\ log'[u].st = log[u].st \/ log'[u].st \in {"Done", "Failed"}
    BY <2>2, AnswerKeeps DEF Answered
  <2>4. \A u \in Tasks : Open(u) => \A x \in Left' : ~Opening(x)'
    BY <1>0, <2>1
  <2> QED
    BY <1>0, <2>1, <2>3, <2>4, OpenStays
<1>26. ASSUME NEW t \in Tasks, ResolveEscalation(t) PROVE OpenAlone'
  BY <1>0, <1>26, ResolveEscalationIs, OpenAnswered
<1>27. ASSUME NEW t \in Tasks, ResolveWork(t) PROVE OpenAlone'
  <2>1. Pending(t) /\ \E st \in {"Done", "Failed"} : \E v : Answered(t, st, v)
    BY <1>0, <1>27, ResolveWorkIs
  <2> QED
    BY <1>0, <2>1, OpenAnswered
<1>28. ASSUME NEW t \in Tasks, ResolveEval(t) PROVE OpenAlone'
  <2>1. Pending(t) /\ \E v : Answered(t, "Done", v)
    BY <1>0, <1>28, ResolveEvalIs
  <2> QED
    BY <1>0, <2>1, OpenAnswered
<1>29. CASE SetRequireApproval
  <2>1. Idle /\ Left' = {} /\ job \in {"Ready", "Stalled"} /\ job' = job /\ slice' = None /\ log' = log
    BY <1>0, <1>29, ApprovalIs DEF Unmoved
  <2>2. \A t \in Tasks : log[t].phase = "Escalation"
    BY <1>0, <2>1 DEF TypeOK, Unstarted
  <2>3. ASSUME NEW t \in Tasks, Open(t)' PROVE Alone(t)'
    <3>1. Open(t)
      BY <2>1, <2>3 DEF Open, Pending
    <3>2. Alone(t)
      BY <1>0, <3>1 DEF OpenAlone
    <3>3. \A u \in Tasks' : log'[u].cycle <= log'[t].cycle
      BY <2>1, <3>2 DEF Alone, Tasks
    <3>4. t = Len(log') /\ log'[t].phase = "Escalation" /\ job' \in {"Escalated", "Stalled"}
      BY <2>1, <2>2, <3>2 DEF Alone
    <3>5. \A x \in Left' : ~Opening(x)'
      BY <2>1
    <3> QED
      BY <3>3, <3>4, <3>5 DEF Alone
  <2>4. Tasks' = Tasks
    BY <2>1 DEF Tasks
  <2> QED
    BY <2>3, <2>4 DEF OpenAlone
<1>30. CASE Restart
  <2>1. Fixed /\ SameTasks /\ job' = job /\ slice' = None
    BY <1>0, <1>30, RestartLeft
  <2>2. \A x \in Left' : x.op \notin Opens \cup {"attach"}
    BY <1>0, <1>30, RestartLeft DEF Opens
  <2> QED
    BY <1>0, <2>1, <2>2, OpenCalm
<1>31. CASE Aside
  <2>1. Fixed /\ SameTasks /\ job' = job /\ slice' = slice /\ Left' = Left
    BY <1>0, <1>31, AsideIs
  <2> QED
    BY <1>1, <2>1
<1> QED
  BY <1>3, <1>4, <1>5, <1>6, <1>7, <1>8, <1>9, <1>10, <1>11, <1>12, <1>13, <1>14, <1>15, <1>16,
     <1>17, <1>18, <1>19, <1>20, <1>21, <1>22, <1>23, <1>24, <1>25, <1>26, <1>27, <1>28, <1>29,
     <1>30, <1>31
     DEF Next, Handle, Scan, Report, Operate, Containers, Aside

-----------------------------------------------------------------------------
(* The cycles, and what the chores are for. *)

LEMMA KeptIs ==
    ASSUME Kept, OneTask
    PROVE  /\ TypeOK /\ KindTyped /\ JobTyped /\ LogTyped /\ SliceTyped /\ Unstarted /\ TodoTyped
           /\ OpenAlone /\ CyclesKept /\ RoundKept /\ SignOffKept
           /\ After \subseteq Left /\ (Idle => Left = {} /\ After = {})
           /\ (~Idle => todo[1] \in Left /\ Left = {todo[1]} \cup After)
           /\ (~Busy => \A x \in After : x.op \in {"attach", "sweep"})
           /\ \A x \in After : x.op \in {"launch", "slots", "rebuild", "settle", "attach", "sweep"}
BY AfterIs DEF Kept, OneTask, TypeOK

LEMMA CyclesStay ==
    ASSUME TypeOK, CyclesKept, Tasks' = Tasks, \A t \in Tasks : log'[t].cycle = log[t].cycle,
           slice' # None => (slice # None /\ slice'.cycle = slice.cycle) \/ slice'.cycle = TopCycle
    PROVE  slice' # None => \A t \in Tasks' : log'[t].cycle <= slice'.cycle
<1>1. \A t \in Tasks : log[t].cycle <= TopCycle
  BY TopCycleIs DEF TypeOK
<1> QED
  BY <1>1 DEF CyclesKept

LEMMA CyclesAdd ==
    ASSUME TypeOK, CyclesKept, NEW r \in TaskRecords, Adds(r), slice' = slice,
           slice # None => r.cycle <= slice.cycle
    PROVE  slice' # None => \A t \in Tasks' : log'[t].cycle <= slice'.cycle
BY DEF CyclesKept, Adds

\* The attempt a restart attaches to is the only task it attaches to.
LEMMA WorkAttached ==
    ASSUME Kept, OneTask, NEW x \in After, x.op = "attach", log[x.n].phase = "Work"
    PROVE  /\ ~Idle /\ job = "Work" /\ log[x.n].st = "Running"
           /\ \/ todo[1].op \in {"place", "stamp", "unclaim"}
              \/ todo[1].op = "attach" /\ log[todo[1].n].phase = "Evaluation" /\ slice = None
<1>0. /\ TypeOK /\ TodoTyped /\ LogTyped /\ After \subseteq Left /\ ~Idle
      /\ Left = {todo[1]} \cup After /\ todo[1] \in Left /\ todo[1] \in Chores
  BY AfterIs DEF Kept, TypeOK
<1>1. job = "Work" /\ log[x.n].st = "Running" /\ ChoreTyped(x)
  BY <1>0 DEF OneTask, CyclesKept, ChoreKept, TodoTyped
<1>2. PICK t \in Tasks : t = x.n
  BY <1>1 DEF ChoreTyped
<1>3. Open(t) /\ log[t].phase = "Work"
  BY <1>1, <1>2 DEF Open
<1>4. Alone(t)
  BY <1>2, <1>3 DEF OneTask, OpenAlone
<1>5. ~Opening(todo[1])
  BY <1>0, <1>4 DEF Alone
<1>6. ChoreTyped(todo[1]) /\ ChoreKept(todo[1]) /\ todo[1].op \in Ops
  BY <1>0 DEF TodoTyped, OneTask, CyclesKept, Chores
<1>7. todo[1].op \notin {"launch", "slots", "rebuild", "settle"}
  BY <1>1, <1>6 DEF ChoreTyped
<1>8. todo[1].op # "sweep"
  BY <1>0, AfterIs DEF Before
<1>9. todo[1].op # "revoke" /\ todo[1].op # "recover"
  <2>1. Has("revoke") => \A y \in Left : y.op = "revoke"
    BY DEF Kept, RevokedKept
  <2>2. Has("recover") => \A y \in Left : y.op \in {"recover", "sweep"}
    BY DEF Kept, Ranked
  <2> QED
    BY <1>0, <2>1, <2>2 DEF Has
<1>10. todo[1].op = "attach" => log[todo[1].n].phase = "Evaluation"
  <2> SUFFICES ASSUME todo[1].op = "attach", log[todo[1].n].phase # "Evaluation" PROVE FALSE
    OBVIOUS
  <2>1. PICK u \in Tasks : u = todo[1].n /\ log[u].phase # "Escalation"
    BY <1>6 DEF ChoreTyped
  <2>2. log[u].phase = "Work"
    BY <1>0, <2>1, TasksAre DEF TaskRecords
  <2>3. Open(u)
    BY <1>6, <2>1, <2>2 DEF ChoreKept, Open
  <2>4. u = t
    BY <1>2, <1>3, <2>3, OpenOnly DEF OneTask
  <2>5. PICK k \in 2..Len(todo) : x = todo[k]
    BY <1>0 DEF After, Rest
  <2>6. Len(todo) \in Nat \ {0} /\ DOMAIN todo = 1..Len(todo)
    BY <1>0, HeadIs
  <2>7. 1 \in DOMAIN todo /\ k \in DOMAIN todo /\ 1 < k
    BY <2>5, <2>6
  <2>8. todo[1].n # todo[k].n
    BY <2>5, <2>7 DEF Kept, Ranked, Ranks
  <2> QED
    BY <1>2, <2>1, <2>4, <2>5, <2>8
<1>11. todo[1].op \in Opens \cup {"place", "stamp", "unclaim", "attach"}
  BY <1>6, <1>7, <1>8, <1>9 DEF Ops, Opens
<1> QED
  BY <1>0, <1>1, <1>5, <1>10, <1>11 DEF Opening

\* What is left of the handler is for the state the job stays in.
LEMMA ChoreSame ==
    ASSUME TypeOK, NEW x \in Left, ChoreKept(x), SameTasks, job' = job,
           slice' # None => slice # None /\ slice'.cycle = slice.cycle
    PROVE  ChoreKept(x)'
<1>1. x.op = "attempt" => job' = "Work" /\ (slice' # None => x.cycle = slice'.cycle)
  BY DEF ChoreKept
<1>2. x.op = "enter" => \A t \in Tasks' : log'[t].cycle <= x.cycle
  BY DEF ChoreKept, SameTasks, Alike
<1>3. /\ x.op = "escalate" => job' \in {"Work", "Evaluation"}
      /\ x.op = "inbox" => job' \in {"Escalated", "Stalled"}
  BY DEF ChoreKept
<1>4. x.op = "place" => \A t \in Tasks' : ~Pending(t)'
  BY DEF ChoreKept, SameTasks, Alike, Pending
<1>5. x.op = "attach" /\ log'[x.n].phase = "Work" => log'[x.n].st = "Running" /\ job' = "Work"
  <2>1. x.op = "attach" => x.n \in Tasks
    BY DEF TypeOK, TodoTyped, ChoreTyped
  <2> SUFFICES ASSUME x.op = "attach", log'[x.n].phase = "Work"
               PROVE  log'[x.n].st = "Running" /\ job' = "Work"
    OBVIOUS
  <2>2. PICK t \in Tasks : t = x.n
    BY <2>1
  <2> QED
    BY <2>2 DEF ChoreKept, SameTasks, Alike
<1> QED
  BY <1>1, <1>2, <1>3, <1>4, <1>5 DEF ChoreKept

\* A chore that is for no state of the job, or for no task.
FreeOps == {"stamp", "unclaim", "evaluate", "launch", "slots", "settle", "finalize", "retry",
            "prework", "revoke", "recover", "rebuild", "sweep"}

LEMMA ChoreFree ==
    ASSUME NEW x, x.op \in FreeOps
    PROVE  ChoreKept(x)'
BY DEF ChoreKept, FreeOps

LEMMA AfterKept ==
    ASSUME Kept, OneTask, \A t \in Tasks : log'[t].phase = log[t].phase,
           \/ Idle \/ todo[1].op \notin {"place", "stamp", "unclaim", "attach"}
           \/ todo[1].op = "attach" /\ (log[todo[1].n].phase = "Work" \/ slice # None)
    PROVE  \A x \in After : ChoreKept(x)'
<1> SUFFICES ASSUME NEW x \in After PROVE ChoreKept(x)'
  OBVIOUS
<1>1. x \in Left /\ x.op \in {"launch", "slots", "rebuild", "settle", "attach", "sweep"}
  BY KeptIs
<1>2. CASE x.op # "attach"
  BY <1>1, <1>2, ChoreFree DEF FreeOps
<1>3. CASE x.op = "attach"
  <2>1. PICK t \in Tasks : t = x.n
    BY <1>1, <1>3 DEF Kept, TypeOK, TodoTyped, ChoreTyped
  <2>2. log[t].phase # "Work"
    BY <1>3, <2>1, WorkAttached
  <2>3. log'[x.n].phase # "Work"
    BY <2>1, <2>2
  <2> QED
    BY <1>3, <2>3 DEF ChoreKept
<1> QED
  BY <1>2, <1>3

\* The end of a task goes on with a chore of its own cycle.
LEMMA CyclesEnd ==
    ASSUME Kept, OneTask, NEW t \in Tasks, TaskEnds(t), job' = job, job # "Revoked",
           Idle \/ (todo[1].op = "attach" /\ todo[1].n = t)
    PROVE  CyclesKept'
<1>0. TypeOK /\ OpenAlone /\ CyclesKept /\ After \subseteq Left /\ (Idle => After = {})
  BY KeptIs
<1>1. /\ Tasks' = Tasks /\ Len(log') = Len(log)
      /\ \A u \in Tasks : log'[u].phase = log[u].phase /\ log'[u].cycle = log[u].cycle
  BY <1>0, EndsKeep DEF TaskEnds
<1>2. slice' # None => slice # None /\ slice'.cycle = slice.cycle
  BY DEF TaskEnds, TaskKept, WorkEnded, SlotAgain, SlotEnded, SlotNone
<1>3. slice' # None => \A u \in Tasks' : log'[u].cycle <= slice'.cycle
  BY <1>0, <1>1, <1>2, CyclesStay
<1>4. CASE TaskKept
  <2>1. SameTasks /\ Left' = After
    BY <1>4, LogIsSame DEF TaskKept
  <2>2. \A x \in Left' : ChoreKept(x)'
    BY <1>0, <1>2, <2>1, ChoreSame DEF CyclesKept
  <2> QED
    BY <1>3, <2>2 DEF CyclesKept
<1>5. CASE ~TaskKept
  <2>1. slice # None /\ (WorkEnded(t) \/ SlotAgain(t) \/ SlotEnded(t) \/ SlotNone(t))
    BY <1>5 DEF TaskEnds, WorkEnded, SlotAgain, SlotEnded, SlotNone
  <2>2. \A x \in After : ChoreKept(x)'
    BY <1>0, <1>1, <2>1, AfterKept
  <2>3. CASE WorkEnded(t)
    <3>1. Open(t) /\ log[t].phase = "Work"
      <4>1. log[t].phase = "Work" /\ (Idle => log[t].st = "Running")
        BY <2>3 DEF WorkEnded
      <4>2. ~Idle => log[t].st = "Running"
        <5>1. ~Idle => todo[1] \in Left
          BY KeptIs
        <5> QED
          BY <1>0, <4>1, <5>1 DEF CyclesKept, ChoreKept
      <4> QED
        BY <4>1, <4>2 DEF Open
    <3>2. job = "Work" /\ slice' = slice /\ log[t].cycle = slice.cycle
      BY <1>0, <2>1, <2>3, <3>1 DEF OpenAlone, Alone, WorkEnded
    <3>3. ASSUME NEW x \in Left', x \notin After PROVE ChoreKept(x)'
      <4>1. CASE Left' = {[op |-> "evaluate", cycle |-> 0, n |-> 0, of |-> "none"]} \cup After
        BY <3>3, <4>1, ChoreFree DEF FreeOps
      <4>2. CASE \E n \in Nat : Left' =
               {[op |-> "attempt", cycle |-> log[t].cycle, n |-> n, of |-> "none"]} \cup After
        <5>1. x.op = "attempt" /\ x.cycle = log[t].cycle
          BY <3>3, <4>2
        <5> QED
          BY <3>2, <5>1 DEF ChoreKept
      <4>3. CASE \E why \in {"work", "loss"} : Left' =
               {[op |-> "escalate", cycle |-> 0, n |-> t, of |-> why]} \cup After
        <5>1. x.op = "escalate"
          BY <3>3, <4>3
        <5> QED
          BY <3>2, <5>1 DEF ChoreKept
      <4> QED
        BY <2>3, <4>1, <4>2, <4>3 DEF WorkEnded
    <3> QED
      BY <1>3, <2>2, <3>3 DEF CyclesKept
  <2>4. CASE SlotAgain(t)
    <3>1. job = "Evaluation"
      BY <1>0, <2>4 DEF SlotAgain, TypeOK, SliceTyped
    <3>2. ASSUME NEW x \in Left', x \notin After PROVE ChoreKept(x)'
      <4>1. CASE Left' = {[op |-> "escalate", cycle |-> 0, n |-> t, of |-> "loss"]} \cup After
        <5>1. x.op = "escalate"
          BY <3>2, <4>1
        <5> QED
          BY <3>1, <5>1 DEF ChoreKept
      <4>2. CASE \E n \in Nat : Left' =
            {[op |-> "launch", cycle |-> 0, n |-> n, of |-> log[t].about],
             [op |-> "slots", cycle |-> 0, n |-> 0, of |-> log[t].about]} \cup After
        <5>1. x.op \in {"launch", "slots"}
          BY <3>2, <4>2
        <5> QED
          BY <5>1, ChoreFree DEF FreeOps
      <4> QED
        BY <2>4, <4>1, <4>2 DEF SlotAgain
    <3> QED
      BY <1>3, <2>2, <3>2 DEF CyclesKept
  <2>5. CASE SlotEnded(t)
    <3>1. Left' = {[op |-> "settle", cycle |-> 0, n |-> 0, of |-> "none"]} \cup After
      BY <2>5 DEF SlotEnded
    <3>2. \A x \in Left' : ChoreKept(x)'
      BY <2>2, <3>1, ChoreFree DEF FreeOps
    <3> QED
      BY <1>3, <3>2 DEF CyclesKept
  <2>6. CASE SlotNone(t)
    BY <1>3, <2>2, <2>6 DEF CyclesKept, SlotNone
  <2> QED
    BY <2>1, <2>3, <2>4, <2>5, <2>6
<1> QED
  BY <1>4, <1>5

LEMMA CyclesRecover ==
    ASSUME Kept, OneTask, Recover
    PROVE  CyclesKept'
<1>0. TypeOK /\ CyclesKept /\ KindTyped /\ LogTyped /\ TodoTyped
  BY KeptIs
<1>1. /\ ~Idle /\ todo[1].op = "recover" /\ SameTasks /\ job' = job
      /\ slice' # None => slice'.cycle = TopCycle
  BY <1>0, RecoverLeft DEF Calm
<1>2. Tasks' = Tasks /\ \A t \in Tasks : log'[t].cycle = log[t].cycle /\ log'[t].phase = log[t].phase
                                         /\ log'[t].st = log[t].st
  BY <1>1 DEF SameTasks, Alike
<1>3. slice' # None => \A t \in Tasks' : log'[t].cycle <= slice'.cycle
  BY <1>0, <1>1, <1>2, CyclesStay
<1>4. \A x \in After : ChoreKept(x)'
  BY <1>1, RecoverFirst, ChoreFree DEF FreeOps
<1>5. ASSUME NEW x \in Left', x \notin After PROVE ChoreKept(x)'
  <2>1. ASSUME x.op \in FreeOps PROVE ChoreKept(x)'
    BY <2>1, ChoreFree
  <2>2. CASE /\ job \in {"Escalated", "Stalled"}
             /\ Left' = {[op |-> "inbox", cycle |-> 0, n |-> 0, of |-> "none"]} \cup After
    <3>1. x.op = "inbox"
      BY <1>5, <2>2
    <3> QED
      BY <1>1, <2>2, <3>1 DEF ChoreKept
  <2>3. CASE /\ job = "Work"
             /\ \E t \in Tasks :
                  /\ log[t].st = "Running"
                  /\ Left' = {[op |-> "attach", cycle |-> 0, n |-> t, of |-> "none"]} \cup After
    <3>1. PICK t \in Tasks : log[t].st = "Running" /\ x.op = "attach" /\ x.n = t
      BY <1>5, <2>3
    <3> QED
      BY <1>1, <1>2, <2>3, <3>1 DEF ChoreKept
  <2>4. CASE /\ job = "Work"
             /\ \E n \in Nat : Left' =
                  {[op |-> "attempt", cycle |-> TopCycle, n |-> n, of |-> "none"]} \cup After
    <3>1. x.op = "attempt" /\ x.cycle = TopCycle
      BY <1>5, <2>4
    <3> QED
      BY <1>1, <2>4, <3>1 DEF ChoreKept
  <2>5. CASE /\ job = "Work"
             /\ \E t \in Tasks : Left' =
                  {[op |-> "escalate", cycle |-> 0, n |-> t, of |-> "work"]} \cup After
    <3>1. x.op = "escalate"
      BY <1>5, <2>5
    <3> QED
      BY <1>1, <2>5, <3>1 DEF ChoreKept
  <2>6. CASE \/ Left' = {[op |-> "evaluate", cycle |-> 0, n |-> 0, of |-> "none"]} \cup After
             \/ Left' = {[op |-> "finalize", cycle |-> 0, n |-> 0, of |-> "none"]} \cup After
    <3>1. x.op \in {"evaluate", "finalize"}
      BY <1>5, <2>6
    <3> QED
      BY <2>1, <3>1 DEF FreeOps
  <2>7. CASE job = "Evaluation" /\ Stages # <<>> /\ Then(RecoverEvaluation(TopCycle))
    <3>1. PICK i : i = RoundFromLog(TopCycle).stage
      OBVIOUS
    <3>2. \/ x.op = "launch" \/ x.op = "rebuild" \/ x.op = "settle"
          \/ \E t \in Tasks : x.op = "attach" /\ x.n = t /\ log[t].phase = "Evaluation"
          \/ x \in After
      BY <1>0, <2>7, <3>1, RecoveryLeft
    <3>3. CASE x.op = "launch" \/ x.op = "rebuild" \/ x.op = "settle"
      BY <2>1, <3>3 DEF FreeOps
    <3>4. CASE \E t \in Tasks : x.op = "attach" /\ x.n = t /\ log[t].phase = "Evaluation"
      BY <1>2, <3>4 DEF ChoreKept
    <3> QED
      BY <1>5, <3>2, <3>3, <3>4
  <2>8. \/ Left' = After
        \/ /\ job \in {"Escalated", "Stalled"}
           /\ Left' = {[op |-> "inbox", cycle |-> 0, n |-> 0, of |-> "none"]} \cup After
        \/ /\ job = "Work"
           /\ \E t \in Tasks :
                  /\ log[t].st = "Running"
                  /\ Left' = {[op |-> "attach", cycle |-> 0, n |-> t, of |-> "none"]} \cup After
        \/ /\ job = "Work"
           /\ \E n \in Nat : Left' =
                  {[op |-> "attempt", cycle |-> TopCycle, n |-> n, of |-> "none"]} \cup After
        \/ /\ job = "Work"
           /\ \E t \in Tasks : Left' =
                  {[op |-> "escalate", cycle |-> 0, n |-> t, of |-> "work"]} \cup After
        \/ Left' = {[op |-> "evaluate", cycle |-> 0, n |-> 0, of |-> "none"]} \cup After
        \/ Left' = {[op |-> "finalize", cycle |-> 0, n |-> 0, of |-> "none"]} \cup After
        \/ job = "Evaluation" /\ Stages # <<>> /\ Then(RecoverEvaluation(TopCycle))
    BY <1>0, RecoverLeft
  <2> QED
    BY <1>5, <2>2, <2>3, <2>4, <2>5, <2>6, <2>7, <2>8
<1> QED
  BY <1>3, <1>4, <1>5 DEF CyclesKept

LEMMA CyclesNext ==
    ASSUME Kept, OneTask, OneInbox, [Next]_vars
    PROVE  CyclesKept'
<1>0. /\ TypeOK /\ KindTyped /\ LogTyped /\ TodoTyped /\ CyclesKept /\ OpenAlone
      /\ After \subseteq Left /\ (Idle => Left = {} /\ After = {})
      /\ (~Idle => todo[1] \in Left)
  BY KeptIs
<1>1. ASSUME Fixed, SameTasks, job' = job, slice' # None => slice # None /\ slice'.cycle = slice.cycle,
             \A x \in Left' : x \in Left \/ x.op \in FreeOps
      PROVE  CyclesKept'
  <2>1. Tasks' = Tasks /\ \A t \in Tasks : log'[t].cycle = log[t].cycle
    BY <1>1 DEF SameTasks, Alike
  <2>2. slice' # None => \A t \in Tasks' : log'[t].cycle <= slice'.cycle
    BY <1>0, <1>1, <2>1, CyclesStay
  <2>3. \A x \in Left' : ChoreKept(x)'
    BY <1>0, <1>1, ChoreSame, ChoreFree DEF CyclesKept
  <2> QED
    BY <2>2, <2>3 DEF CyclesKept
<1>2. ASSUME SameTasks, ~Idle, todo[1].op \notin {"place", "stamp", "unclaim", "attach"},
             slice' # None => (slice # None /\ slice'.cycle = slice.cycle) \/ slice'.cycle = TopCycle,
             \A x \in Left' : x \in After \/ ChoreKept(x)'
      PROVE  CyclesKept'
  <2>1. Tasks' = Tasks /\ \A t \in Tasks : log'[t].cycle = log[t].cycle /\ log'[t].phase = log[t].phase
    BY <1>2 DEF SameTasks, Alike
  <2>2. slice' # None => \A t \in Tasks' : log'[t].cycle <= slice'.cycle
    BY <1>0, <1>2, <2>1, CyclesStay
  <2>3. \A x \in After : ChoreKept(x)'
    BY <1>2, <2>1, AfterKept
  <2> QED
    BY <1>2, <2>2, <2>3 DEF CyclesKept
<1>3. CASE EnterWork
  <2>1. /\ ~Idle /\ todo[1].op = "enter" /\ SameTasks
        /\ job' = "Work" /\ slice' # None /\ slice'.cycle = todo[1].cycle
        /\ Left' = {[op |-> "attempt", cycle |-> todo[1].cycle, n |-> 1, of |-> "none"]} \cup After
    BY <1>0, <1>3, EnterWorkIs DEF Calm
  <2>2. Tasks' = Tasks /\ \A t \in Tasks : log'[t].cycle = log[t].cycle /\ log'[t].phase = log[t].phase
    BY <2>1 DEF SameTasks, Alike
  <2>3. \A t \in Tasks' : log'[t].cycle <= slice'.cycle
    BY <1>0, <2>1, <2>2 DEF CyclesKept, ChoreKept
  <2>4. \A x \in After : ChoreKept(x)'
    BY <2>1, <2>2, AfterKept
  <2>5. ASSUME NEW x \in Left', x \notin After PROVE ChoreKept(x)'
    <3>1. x.op = "attempt" /\ x.cycle = slice'.cycle
      BY <2>1, <2>5
    <3> QED
      BY <2>1, <3>1 DEF ChoreKept
  <2> QED
    BY <2>3, <2>4, <2>5 DEF CyclesKept
<1>4. CASE EnterRefused
  <2>1. /\ ~Idle /\ todo[1].op = "enter" /\ SameTasks /\ job' \in {"Escalated", "Stalled"}
        /\ slice' = slice
        /\ Left' = {[op |-> "inbox", cycle |-> 0, n |-> 0, of |-> "none"]} \cup After
    BY <1>0, <1>4, EnterRefusedIs DEF Calm
  <2>2. \A x \in Left' : x \in After \/ ChoreKept(x)'
    BY <2>1 DEF ChoreKept
  <2> QED
    BY <1>2, <2>1, <2>2
<1>5. CASE StartAttempt
  <2>1. ~Idle /\ todo[1].op = "attempt" /\ job' = job /\ slice' = slice /\ Fixed
    BY <1>0, <1>5, StartAttemptIs
  <2>2. CASE Calm /\ Left' = After
    BY <1>0, <1>1, <2>1, <2>2 DEF Calm
  <2>3. CASE ~(Calm /\ Left' = After)
    <3>1. PICK r \in TaskRecords :
            /\ Adds(r) /\ r.cycle = todo[1].cycle
            /\ \A x \in Left' : x \in After \/ x.op = "unclaim" \/ x.op = "place"
            /\ (\E x \in Left' : x.op = "place") => r.st = "Running"
      BY <1>0, <1>5, <2>3, StartAttemptIs
    <3>2. slice # None /\ r.cycle = slice.cycle
      <4>1. slice # None
        BY <1>0, <1>5, <2>3, StartAttemptIs
      <4> QED
        BY <1>0, <2>1, <3>1, <4>1 DEF CyclesKept, ChoreKept
    <3>3. slice' # None => \A t \in Tasks' : log'[t].cycle <= slice'.cycle
      <4>1. r.cycle <= slice.cycle
        BY <3>2 DEF TaskRecords
      <4> QED
        BY <1>0, <2>1, <3>1, <4>1, CyclesAdd
    <3>4. \A x \in After : ChoreKept(x)'
      <4>1. \A t \in Tasks : log'[t].phase = log[t].phase
        BY <3>1 DEF Adds
      <4> QED
        BY <2>1, <4>1, AfterKept
    <3>5. ASSUME NEW x \in Left', x.op = "place" PROVE ChoreKept(x)'
      <4>1. \A t \in Tasks : ~Open(t)
        BY <1>0, <2>1, NoOpen DEF Opening, Opens
      <4>2. \A t \in Tasks' : ~Pending(t)'
        <5>1. r.st = "Running"
          BY <3>1, <3>5
        <5> QED
          BY <3>1, <4>1, <5>1 DEF Open, Pending, Adds
      <4> QED
        BY <3>5, <4>2 DEF ChoreKept
    <3>6. ASSUME NEW x \in Left', x.op = "unclaim" PROVE ChoreKept(x)'
      BY <3>6, ChoreFree DEF FreeOps
    <3> QED
      BY <3>1, <3>3, <3>4, <3>5, <3>6 DEF CyclesKept
  <2> QED
    BY <2>2, <2>3
<1>6. CASE Unclaim
  BY <1>0, <1>1, <1>6, UnclaimIs DEF Calm
<1>7. CASE Place
  <2>1. Fixed /\ SameTasks /\ job' = job /\ slice' = slice /\ \A x \in Left' : x \in After \/ x.op = "stamp"
    BY <1>0, <1>7, PlaceIs
  <2> QED
    BY <1>0, <1>1, <2>1 DEF FreeOps
<1>8. CASE PlaceFails
  BY <1>0, <1>1, <1>8, PlaceFailsIs DEF Calm
<1>9. CASE Stamp
  BY <1>0, <1>1, <1>9, StampIs
<1>10. CASE EnterEvaluation
  <2>1. /\ ~Idle /\ todo[1].op = "evaluate" /\ SameTasks /\ slice # None
        /\ slice' # None => slice'.cycle = slice.cycle
    BY <1>0, <1>10, EnterEvaluationIs DEF Calm
  <2>2. CASE Left' = After
    BY <1>2, <2>1, <2>2
  <2>3. CASE Left' = {[op |-> "finalize", cycle |-> 0, n |-> 0, of |-> "none"]} \cup After
    <3>1. \A x \in Left' : x \in After \/ x.op = "finalize"
      BY <2>3
    <3>2. \A x \in Left' : x \in After \/ ChoreKept(x)'
      BY <3>1, ChoreFree DEF FreeOps
    <3> QED
      BY <1>2, <2>1, <3>2
  <2>4. CASE 1 \in 1..Len(Stages) /\ Then(LaunchStage(1))
    <3>1. \A x \in Left' : \/ x.op = "launch"
                           \/ x = [op |-> "slots", cycle |-> 0, n |-> 1, of |-> "all"]
                           \/ x \in After
      BY <1>0, <2>4, StageLaunched
    <3>2. \A x \in Left' : x \in After \/ ChoreKept(x)'
      BY <3>1, ChoreFree DEF FreeOps
    <3> QED
      BY <1>2, <2>1, <3>2
  <2> QED
    BY <1>0, <1>10, <2>2, <2>3, <2>4, EnterEvaluationIs
<1>11. CASE LaunchEvaluator
  <2>1. ~Idle /\ todo[1].op = "launch" /\ slice' = slice /\ slice # None
    BY <1>0, <1>11, LaunchEvaluatorIs
  <2>2. PICK r \in TaskRecords :
        /\ Adds(r) /\ r.cycle = slice.cycle
        /\ \/ Left' = After
           \/ /\ r.st = "Running"
              /\ Left' = {[op |-> "place", cycle |-> 0, n |-> Len(log) + 1, of |-> "none"]} \cup After
    BY <1>0, <1>11, LaunchEvaluatorIs
  <2>3. slice' # None => \A t \in Tasks' : log'[t].cycle <= slice'.cycle
    <3>1. r.cycle <= slice.cycle
      BY <2>2 DEF TaskRecords
    <3> QED
      BY <1>0, <2>1, <2>2, <3>1, CyclesAdd
  <2>4. \A x \in After : ChoreKept(x)'
    <3>1. \A t \in Tasks : log'[t].phase = log[t].phase
      BY <2>2 DEF Adds
    <3> QED
      BY <2>1, <3>1, AfterKept
  <2>5. ASSUME NEW x \in Left', x \notin After PROVE ChoreKept(x)'
    <3>1. x.op = "place" /\ r.st = "Running"
      BY <2>2, <2>5
    <3>2. \A t \in Tasks : ~Open(t)
      BY <1>0, <2>1, NoOpen DEF Opening, Opens
    <3>3. \A t \in Tasks' : ~Pending(t)'
      BY <2>2, <3>1, <3>2 DEF Open, Pending, Adds
    <3> QED
      BY <3>1, <3>3 DEF ChoreKept
  <2> QED
    BY <2>3, <2>4, <2>5 DEF CyclesKept
<1>12. CASE InstallSlots
  <2>1. Fixed /\ SameTasks /\ job' = job /\ Left' = After
    BY <1>0, <1>12, InstallSlotsCalm DEF Calm
  <2>2. slice # None /\ slice'.cycle = slice.cycle
    BY <1>0, <1>12, InstallSlotsIs DEF Rounding
  <2> QED
    BY <1>0, <1>1, <2>1, <2>2
<1>13. CASE Settle
  <2>1. /\ ~Idle /\ todo[1].op = "settle" /\ SameTasks /\ job' = job /\ job = "Evaluation"
        /\ slice # None /\ slice' # None /\ slice'.cycle = slice.cycle
    BY <1>0, <1>13, SettleIs DEF Calm
  <2>2. CASE Left' = After
    BY <1>2, <2>1, <2>2
  <2>3. CASE slice.round.stage + 1 \in 1..Len(Stages) /\ Then(LaunchStage(slice.round.stage + 1))
    <3>0. PICK i \in 1..Len(Stages) : i = slice.round.stage + 1 /\ Then(LaunchStage(i))
      BY <2>3
    <3>1. \A x \in Left' : \/ x.op = "launch"
                           \/ x = [op |-> "slots", cycle |-> 0, n |-> i, of |-> "all"]
                           \/ x \in After
      BY <1>0, <3>0, StageLaunched
    <3>2. \A x \in Left' : x \in After \/ ChoreKept(x)'
      BY <3>1, ChoreFree DEF FreeOps
    <3> QED
      BY <1>2, <2>1, <3>2
  <2>4. CASE \E why \in {"infra", "abort", "rework"} :
               Left' = {[op |-> "escalate", cycle |-> 0, n |-> 0, of |-> why]} \cup After
    <3>1. \A x \in Left' : x \in After \/ x.op = "escalate"
      BY <2>4
    <3>2. \A x \in Left' : x \in After \/ ChoreKept(x)'
      BY <2>1, <3>1 DEF ChoreKept
    <3> QED
      BY <1>2, <2>1, <3>2
  <2>5. CASE Left' = {[op |-> "finalize", cycle |-> 0, n |-> 0, of |-> "none"]} \cup After
    <3>1. \A x \in Left' : x \in After \/ x.op = "finalize"
      BY <2>5
    <3>2. \A x \in Left' : x \in After \/ ChoreKept(x)'
      BY <3>1, ChoreFree DEF FreeOps
    <3> QED
      BY <1>2, <2>1, <3>2
  <2>6. CASE Left' = {[op |-> "enter", cycle |-> slice.cycle + 1, n |-> 0, of |-> "none"]} \cup After
    <3>1. \A x \in Left' : x \in After \/ (x.op = "enter" /\ x.cycle = slice.cycle + 1)
      BY <2>6
    <3>2. \A t \in Tasks' : log'[t].cycle <= slice.cycle + 1
      <4>1. slice.cycle \in Nat
        BY <1>0, <2>1, SliceIs DEF TypeOK
      <4>2. \A t \in Tasks : log[t].cycle \in Nat /\ log[t].cycle <= slice.cycle
        BY <1>0, <2>1, TasksAre DEF CyclesKept, TaskRecords
      <4>3. \A t \in Tasks : log[t].cycle <= slice.cycle + 1
        BY <4>1, <4>2
      <4> QED
        BY <2>1, <4>3 DEF SameTasks, Alike
    <3>3. \A x \in Left' : x \in After \/ ChoreKept(x)'
      BY <3>1, <3>2 DEF ChoreKept
    <3> QED
      BY <1>2, <2>1, <3>3
  <2> QED
    BY <1>0, <1>13, <2>2, <2>3, <2>4, <2>5, <2>6, SettleIs
<1>14. CASE Finalize
  <2>1. ~Idle /\ todo[1].op = "finalize" /\ SameTasks /\ slice' = slice /\ Left' = After
    BY <1>0, <1>14, FinalizeIs DEF Calm
  <2> QED
    BY <1>2, <2>1
<1>15. CASE Escalate
  <2>1. ~Idle /\ todo[1].op = "escalate" /\ SameTasks /\ slice' = None
    BY <1>0, <1>15, EscalateIs DEF Calm
  <2>2. \A x \in Left' : x \in After \/ (x.op = "inbox" /\ job' = "Escalated")
    BY <1>0, <1>15, EscalateIs
  <2>3. \A x \in Left' : x \in After \/ ChoreKept(x)'
    BY <2>2 DEF ChoreKept
  <2> QED
    BY <1>2, <2>1, <2>3
<1>16. CASE FillInbox
  <2>1. ~Idle /\ todo[1].op = "inbox" /\ slice' = slice /\ Left' = After
    BY <1>0, <1>16, FillInboxIs
  <2>2. PICK r \in TaskRecords : Adds(r) /\ r.cycle = TopCycle
    BY <1>0, <1>16, FillInboxIs
  <2>3. slice # None => r.cycle <= slice.cycle
    <3>1. TopCycle \in Nat /\ (TopCycle = 1 \/ \E t \in Tasks : log[t].cycle = TopCycle)
      BY <1>0, TopCycleIs
    <3>2. slice # None => slice.cycle \in Nat /\ slice.cycle # 0
      BY <1>0, SliceIs DEF TypeOK, SliceTyped
    <3> QED
      BY <1>0, <2>2, <3>1, <3>2 DEF CyclesKept
  <2>4. slice' # None => \A t \in Tasks' : log'[t].cycle <= slice'.cycle
    BY <1>0, <2>1, <2>2, <2>3, CyclesAdd
  <2>5. \A x \in After : ChoreKept(x)'
    <3>1. \A t \in Tasks : log'[t].phase = log[t].phase
      BY <2>2 DEF Adds
    <3> QED
      BY <2>1, <3>1, AfterKept
  <2> QED
    BY <2>1, <2>4, <2>5 DEF CyclesKept
<1>17. CASE Retry
  <2>1. ~Idle /\ todo[1].op = "retry" /\ SameTasks /\ slice' # None /\ slice' = Ensured
    BY <1>0, <1>17, RetriedIs DEF Calm
  <2>2. (slice # None /\ slice'.cycle = slice.cycle) \/ slice'.cycle = TopCycle
    BY <1>0, <2>1, EnsuredIs DEF TypeOK
  <2>3. CASE Left' = {[op |-> "evaluate", cycle |-> 0, n |-> 0, of |-> "none"]} \cup After
    <3>1. \A x \in Left' : x \in After \/ x.op = "evaluate"
      BY <2>3
    <3>2. \A x \in Left' : x \in After \/ ChoreKept(x)'
      BY <3>1, ChoreFree DEF FreeOps
    <3> QED
      BY <1>2, <2>1, <2>2, <3>2
  <2>4. CASE /\ job' = "Work"
             /\ \E n \in Nat : Left' =
                  {[op |-> "attempt", cycle |-> slice'.cycle, n |-> n, of |-> "none"]} \cup After
    <3>1. \A x \in Left' : x \in After \/ (x.op = "attempt" /\ x.cycle = slice'.cycle)
      BY <2>4
    <3>2. \A x \in Left' : x \in After \/ ChoreKept(x)'
      BY <2>4, <3>1 DEF ChoreKept
    <3> QED
      BY <1>2, <2>1, <2>2, <3>2
  <2> QED
    BY <1>0, <1>17, <2>3, <2>4, RetriedIs
<1>18. CASE PreworkRetry
  <2>1. ~Idle /\ todo[1].op = "prework" /\ SameTasks /\ slice' = slice /\ job = "Stalled"
    BY <1>0, <1>18, PreworkRetryIs DEF Calm
  <2>2. \A x \in Left' : x \in After \/ (x.op = "inbox" /\ job' = job)
    BY <1>0, <1>18, PreworkRetryIs
  <2>3. \A x \in Left' : x \in After \/ ChoreKept(x)'
    BY <2>1, <2>2 DEF ChoreKept
  <2> QED
    BY <1>2, <2>1, <2>3
<1>19. CASE RevokeJob
  <2>1. ~Idle /\ todo[1].op = "revoke" /\ slice' = None /\ Left' \subseteq Left
    BY <1>0, <1>19, RevokeJobIs
  <2>2. \A x \in Left : x.op = "revoke"
    BY <1>0, <2>1 DEF Kept, RevokedKept, Has
  <2>3. \A x \in Left' : ChoreKept(x)'
    BY <2>1, <2>2, ChoreFree DEF FreeOps
  <2> QED
    BY <2>1, <2>3 DEF CyclesKept
<1>20. CASE Recover
  BY <1>20, CyclesRecover
<1>21. CASE Attach
  <2>1. PICK t \in Tasks : t = todo[1].n /\ log[t].phase # "Escalation" /\ TaskEnds(t)
    BY <1>0, <1>21, AttachEnds
  <2>2. ~Idle /\ todo[1].op = "attach" /\ job' = job
    BY <1>0, <1>21, AttachEnds DEF Unmoved
  <2>3. job # "Revoked"
    BY <1>0, <2>2, NotRevoked DEF Kept
  <2> QED
    BY <2>1, <2>2, <2>3, CyclesEnd
<1>22. CASE Rebuild
  BY <1>0, <1>1, <1>22, RebuildIs DEF Calm
<1>23. CASE Sweep
  BY <1>0, <1>1, <1>23, SweepIs
<1>24. CASE StartJob
  <2>1. /\ SameTasks /\ job = "Ready" /\ slice' = None
        /\ Left' = {[op |-> "enter", cycle |-> 1, n |-> 0, of |-> "none"]}
    BY <1>0, <1>24, StartJobIs DEF Calm
  <2>2. \A t \in Tasks : log[t].cycle = 1
    BY <1>0, <2>1 DEF TypeOK, Unstarted
  <2>3. \A t \in Tasks' : log'[t].cycle <= 1
    BY <2>1, <2>2 DEF SameTasks, Alike
  <2>4. \A x \in Left' : ChoreKept(x)'
    <3>1. \A x \in Left' : x.op = "enter" /\ x.cycle = 1
      BY <2>1
    <3> QED
      BY <2>3, <3>1 DEF ChoreKept
  <2> QED
    BY <2>1, <2>4 DEF CyclesKept
<1>25. CASE Revoke
  <2>1. Fixed /\ SameTasks /\ job' = job /\ slice' = slice /\ \A x \in Left' : x.op = "revoke"
    BY <1>0, <1>25, RevokeIs DEF Calm
  <2> QED
    BY <1>0, <1>1, <2>1 DEF FreeOps
<1>26. ~DeadlineScan
  BY <1>0, OneInboxIs, DeadlineScanIs
<1>27. ASSUME NEW t \in Tasks, TimeoutScan(t) PROVE CyclesKept'
  BY <1>0, <1>27, TimeoutEnds, CyclesEnd DEF Unmoved
<1>28. ASSUME NEW t \in Tasks, Exit(t) PROVE CyclesKept'
  BY <1>0, <1>28, ExitEnds, CyclesEnd DEF Unmoved
<1>29. ASSUME NEW t \in Tasks, ContainerStarted(t) PROVE CyclesKept'
  BY <1>0, <1>1, <1>29, ContainerStartedIs DEF Still, Unmoved
<1>30. ASSUME NEW t \in Tasks, SubmitResult(t) PROVE CyclesKept'
  BY <1>0, <1>1, <1>30, SubmitResultIs DEF Still, Unmoved
<1>31. ASSUME Tasks' = Tasks, \A t \in Tasks : log'[t].cycle = log[t].cycle,
              slice' # None => (slice # None /\ slice'.cycle = slice.cycle) \/ slice'.cycle = TopCycle,
              \A x \in Left' : x.op \in FreeOps
       PROVE  CyclesKept'
  <2>1. slice' # None => \A t \in Tasks' : log'[t].cycle <= slice'.cycle
    BY <1>0, <1>31, CyclesStay
  <2> QED
    BY <1>31, <2>1, ChoreFree DEF CyclesKept
<1>32. ASSUME NEW t \in Tasks, SubmitEval(t) PROVE CyclesKept'
  <2>1. Idle /\ Left' = {} /\ slice' = slice /\ \E v : Answered(t, "Done", v)
    BY <1>0, <1>32, SubmitEvalIs
  <2> QED
    BY <1>31, <2>1, AnswerKeeps
<1>33. ASSUME NEW t \in Tasks, ResolveEscalation(t) PROVE CyclesKept'
  <2>1. Tasks' = Tasks /\ \A u \in Tasks : log'[u].cycle = log[u].cycle
    BY <1>0, <1>33, ResolveEscalationIs, AnswerKeeps
  <2>2. \A x \in Left' : x.op \in FreeOps
    BY <1>0, <1>33, ResolveEscalationIs DEF FreeOps
  <2>3. slice' # None => (slice # None /\ slice'.cycle = slice.cycle) \/ slice'.cycle = TopCycle
    BY <1>0, <1>33, ResolveEscalationIs
  <2> QED
    BY <1>31, <2>1, <2>2, <2>3
<1>34. ASSUME NEW t \in Tasks, ResolveWork(t) PROVE CyclesKept'
  <2>0. /\ Pending(t) /\ job = "Work" /\ job' = job /\ slice' # None
        /\ slice # None => slice' = slice
        /\ slice = None => slice'.cycle = TopCycle
        /\ Idle
    BY <1>0, <1>34, ResolveWorkIs DEF Unmoved
  <2>1. Tasks' = Tasks /\ \A u \in Tasks : log'[u].cycle = log[u].cycle
    <3>1. \E st \in {"Done", "Failed"} : \E v : Answered(t, st, v)
      BY <1>0, <1>34, ResolveWorkIs
    <3> QED
      BY <3>1, AnswerKeeps
  <2>2. slice' # None => \A u \in Tasks' : log'[u].cycle <= slice'.cycle
    BY <1>0, <2>0, <2>1, CyclesStay
  <2>3. log[t].cycle = slice'.cycle
    <3>1. Alone(t)
      BY <1>0, <2>0 DEF OpenAlone, Open
    <3>2. log[t].phase = "Work"
      <4>1. log[t].phase \in {"Work", "Evaluation", "Escalation"}
        BY <1>0, TasksAre DEF TaskRecords
      <4> QED
        BY <2>0, <3>1, <4>1 DEF Alone
    <3>3. CASE slice # None
      BY <2>0, <3>1, <3>2, <3>3 DEF Alone
    <3>4. CASE slice = None
      <4>1. /\ TopCycle \in Nat \ {0} /\ log[t].cycle \in Nat \ {0} /\ log[t].cycle <= TopCycle
            /\ TopCycle = 1 \/ \E u \in Tasks : log[u].cycle = TopCycle
        BY <1>0, TopCycleIs, TasksAre DEF TaskRecords
      <4>2. \A u \in Tasks : log[u].cycle <= log[t].cycle
        BY <3>1 DEF Alone
      <4>3. log[t].cycle = TopCycle
        BY <4>1, <4>2
      <4> QED
        BY <2>0, <3>4, <4>3
    <3> QED
      BY <3>3, <3>4
  <2>4. ASSUME NEW x \in Left' PROVE ChoreKept(x)'
    <3>1. \/ x.op = "evaluate"
          \/ x.op = "attempt" /\ x.cycle = log[t].cycle
          \/ x.op = "escalate"
      <4>1. \/ Left' = {[op |-> "evaluate", cycle |-> 0, n |-> 0, of |-> "none"]}
            \/ \E n \in Nat : Left' =
                 {[op |-> "attempt", cycle |-> log[t].cycle, n |-> n, of |-> "none"]}
            \/ Left' = {[op |-> "escalate", cycle |-> 0, n |-> t, of |-> "work"]}
        BY <1>0, <1>34, ResolveWorkIs
      <4>2. CASE Left' = {[op |-> "evaluate", cycle |-> 0, n |-> 0, of |-> "none"]}
        BY <2>4, <4>2
      <4>3. CASE \E n \in Nat : Left' =
                 {[op |-> "attempt", cycle |-> log[t].cycle, n |-> n, of |-> "none"]}
        BY <2>4, <4>3
      <4>4. CASE Left' = {[op |-> "escalate", cycle |-> 0, n |-> t, of |-> "work"]}
        BY <2>4, <4>4
      <4> QED
        BY <4>1, <4>2, <4>3, <4>4
    <3> QED
      BY <2>0, <2>3, <3>1 DEF ChoreKept
  <2> QED
    BY <2>2, <2>4 DEF CyclesKept
<1>35. ASSUME NEW t \in Tasks, ResolveEval(t) PROVE CyclesKept'
  <2>1. Idle /\ \E v : Answered(t, "Done", v)
    BY <1>0, <1>35, ResolveEvalIs
  <2>2. \/ Left' = Left /\ slice' = slice
        \/ Left' = {[op |-> "settle", cycle |-> 0, n |-> 0, of |-> "none"]} \cup After
           /\ slice # None /\ slice'.cycle = slice.cycle
    BY <1>0, <1>35, ResolveEvalIs DEF SlotEnded
  <2>3. \A x \in Left' : x.op = "settle"
    BY <1>0, <2>1, <2>2
  <2>4. Tasks' = Tasks /\ \A u \in Tasks : log'[u].cycle = log[u].cycle
    BY <2>1, AnswerKeeps
  <2> QED
    BY <1>31, <2>2, <2>3, <2>4 DEF FreeOps
<1>36. CASE SetRequireApproval
  <2>1. Left' = {} /\ slice' = None /\ SameTasks
    BY <1>0, <1>36, ApprovalIs
  <2> QED
    BY <1>31, <2>1 DEF SameTasks, Alike
<1>37. CASE Restart
  <2>1. SameTasks /\ slice' = None /\ \A x \in Left' : x.op \in {"recover", "sweep"}
    BY <1>0, <1>37, RestartLeft
  <2> QED
    BY <1>31, <2>1 DEF SameTasks, Alike, FreeOps
<1>38. CASE Aside
  <2>1. Fixed /\ SameTasks /\ job' = job /\ slice' = slice /\ Left' = Left
    BY <1>0, <1>38, AsideIs
  <2> QED
    BY <1>1, <2>1
<1> QED
  BY <1>3, <1>4, <1>5, <1>6, <1>7, <1>8, <1>9, <1>10, <1>11, <1>12, <1>13, <1>14, <1>15, <1>16,
     <1>17, <1>18, <1>19, <1>20, <1>21, <1>22, <1>23, <1>24, <1>25, <1>26, <1>27, <1>28, <1>29,
     <1>30, <1>32, <1>33, <1>34, <1>35, <1>36, <1>37, <1>38
     DEF Next, Handle, Scan, Report, Operate, Containers, Aside

-----------------------------------------------------------------------------
(* What a round waits for. *)

\* The round a restart reads is at the first stage, or at one that has a task.
LEMMA RoundFromLogStage ==
    ASSUME KindTyped, LogTyped, Stages # <<>>, NEW c \in Nat
    PROVE  \/ RoundFromLog(c).stage = 1
           \/ \E ev \in Stages[RoundFromLog(c).stage] : Latest(Lineage("Evaluation", c, ev)) # 0
<1> DEFINE begun == {i \in DOMAIN Stages : \E ev \in Stages[i] : Latest(Lineage("Evaluation", c, ev)) # 0}
<1>1. RoundFromLog(c).stage = Max({1} \cup begun)
  BY Zenon DEF RoundFromLog
<1>2. Len(Stages) \in Nat /\ DOMAIN Stages = 1..Len(Stages) /\ Len(Stages) >= 1
  <2>1. Stages \in Seq(SUBSET Names)
    BY StagesAre
  <2>2. Len(Stages) # 0
    BY <2>1, EmptySeq
  <2> QED
    BY <2>2, EvaluatorsAre
<1>3. Max({1} \cup begun) \in {1} \cup begun
  <2>1. {1} \cup begun \in SUBSET Nat /\ {1} \cup begun # {}
        /\ (\A x \in {1} \cup begun : x <= Len(Stages))
    BY <1>2
  <2>2. PICK S : S = {1} \cup begun
    OBVIOUS
  <2>3. Max(S) \in S
    BY <1>2, <2>1, <2>2, Greatest
  <2> QED
    BY <2>2, <2>3
<1> QED
  BY <1>1, <1>3

LEMMA NoRebuild ==
    ASSUME TodoTyped, ~Busy, Idle \/ todo[1].op # "rebuild"
    PROVE  ~Has("rebuild") /\ \A x \in After : x.op \in {"attach", "sweep"}
<1>1. /\ (Idle => Left = {} /\ After = {}) /\ (~Idle => Left = {todo[1]} \cup After)
      /\ \A x \in After : x.op \in {"attach", "sweep"}
  BY AfterIs
<1> QED
  BY <1>1 DEF Has

\* Between two rounds a restart attaches to no evaluator.
LEMMA NoEvaluator ==
    ASSUME RoundKept, ~Has("rebuild"), slice # None, ~Rounding
    PROVE  \A x \in Left : x.op = "attach" => log[x.n].phase # "Evaluation"
BY DEF RoundKept, AttachesSlots

\* When a stage is settled, nothing in the round is open.
LEMMA NothingOpen ==
    ASSUME TypeOK, RoundKept, Settled, ~Has("rebuild")
    PROVE  /\ \A ev \in Evaluators : slice.round.slot[ev].out # "open"
           /\ \A x \in Left : x.op = "attach" => log[x.n].phase # "Evaluation"
<1>1. Rounding /\ "open" \notin Outs(Stages[slice.round.stage]) /\ OpensInStage
  BY DEF Settled, RoundKept
<1>2. \A ev \in Evaluators : slice.round.slot[ev].out # "open"
  BY <1>1 DEF OpensInStage, Outs
<1>3. ASSUME NEW x \in Left, x.op = "attach", log[x.n].phase = "Evaluation" PROVE FALSE
  <2>1. slice.round.slot[log[x.n].about] = [task |-> x.n, out |-> "open"]
    BY <1>1, <1>3 DEF RoundKept, AttachesSlots, Rounding
  <2>2. log[x.n].about \in Evaluators
    <3>1. x.n \in Tasks
      BY <1>3 DEF TypeOK, TodoTyped, ChoreTyped
    <3> QED
      BY <1>3, <3>1 DEF TypeOK, LogTyped, TaskTyped
  <2> QED
    BY <1>2, <2>1, <2>2
<1> QED
  BY <1>2, <1>3

LEMMA BeginsAfter ==
    ASSUME TodoTyped, \A x \in Left' : x \in After \/ x.op \notin {"enter", "retry", "evaluate"}
    PROVE  \A x \in Left' : BeginsFree(x)'
<1>1. \A x \in After : x.op \notin {"enter", "retry", "evaluate"}
  BY AfterIs
<1> QED
  BY <1>1 DEF BeginsFree

\* A step that leaves the round as it is.
LEMMA RoundStays ==
    ASSUME TypeOK, RoundKept, Fixed, ~Has("rebuild"),
           \A t \in Tasks : log'[t].phase = log[t].phase /\ log'[t].about = log[t].about,
           slice' # None => slice # None, slice'.round = slice.round,
           \A x \in Left' : x \in Left \/ x.op \notin {"slots", "attach", "rebuild"},
           \A x \in Left' : BeginsFree(x)'
    PROVE  RoundKept'
<1>1. OpensInStage'
  BY DEF RoundKept, OpensInStage, Fixed, Rounding
<1>2. \A x \in Left : x.op = "attach" => x.n \in Tasks
  BY DEF TypeOK, TodoTyped, ChoreTyped
<1>3. SlotsAgain'
  <2> SUFFICES ASSUME NEW x \in Left', x.op = "slots"
               PROVE  IF x.of = "all" THEN \A ev \in Evaluators' : slice'.round.slot[ev].out # "open"
                      ELSE /\ slice'.round.slot[x.of].out = "open" /\ x.of # Approval
                           /\ \A y \in Left' : y.op = "attach" /\ log'[y.n].phase = "Evaluation" =>
                                 log'[y.n].about # x.of
    BY DEF SlotsAgain
  <2>1. x \in Left
    OBVIOUS
  <2>2. IF x.of = "all" THEN \A ev \in Evaluators : slice.round.slot[ev].out # "open"
        ELSE /\ slice.round.slot[x.of].out = "open" /\ x.of # Approval
             /\ \A y \in Left : y.op = "attach" /\ log[y.n].phase = "Evaluation" =>
                   log[y.n].about # x.of
    BY <2>1 DEF RoundKept, SlotsAgain
  <2>3. \A y \in Left' : y.op = "attach" => y \in Left /\ log'[y.n].phase = log[y.n].phase
                                            /\ log'[y.n].about = log[y.n].about
    BY <1>2
  <2>4. Evaluators' = Evaluators
    BY DEF Fixed
  <2> QED
    BY <2>2, <2>3, <2>4
<1>4. AttachesSlots'
  <2> SUFFICES ASSUME NEW x \in Left', x.op = "attach", log'[x.n].phase = "Evaluation", slice' # None
               PROVE  Rounding' /\ slice'.round.slot[log'[x.n].about] = [task |-> x.n, out |-> "open"]
    BY DEF AttachesSlots
  <2>1. x \in Left /\ log'[x.n].phase = log[x.n].phase /\ log'[x.n].about = log[x.n].about
    BY <1>2
  <2>2. Rounding /\ slice.round.slot[log[x.n].about] = [task |-> x.n, out |-> "open"]
    BY <2>1 DEF RoundKept, AttachesSlots
  <2> QED
    BY <2>1, <2>2 DEF Rounding
<1>5. ~Has("rebuild")'
  BY DEF Has
<1> QED
  BY <1>1, <1>3, <1>4, <1>5 DEF RoundKept

\* No round is on after the step.
LEMMA RoundNone ==
    ASSUME ~Rounding', \A x \in Left' : x.op \notin {"slots", "rebuild"},
           \A x \in Left' : slice' # None /\ x.op = "attach" => log'[x.n].phase # "Evaluation",
           \A x \in Left' : BeginsFree(x)'
    PROVE  RoundKept'
BY DEF RoundKept, OpensInStage, SlotsAgain, AttachesSlots, Has

\* Nothing is open when a stage is launched.
LEMMA RoundLaunched ==
    ASSUME TypeOK, Fixed, NEW i \in 1..Len(Stages), Then(LaunchStage(i)),
           \A x \in After : x.op \in {"attach", "sweep"},
           \A x \in After : x.op = "attach" => log'[x.n].phase # "Evaluation",
           \A ev \in Evaluators : slice'.round.slot[ev].out # "open"
    PROVE  RoundKept'
<1>1. \A x \in Left' : \/ x.op = "launch"
                       \/ x = [op |-> "slots", cycle |-> 0, n |-> i, of |-> "all"]
                       \/ x \in After
  BY StageLaunched DEF TypeOK
<1>2. \A x \in Left' : \/ x.op = "launch" \/ (x.op = "slots" /\ x.of = "all")
                       \/ x.op \in {"attach", "sweep"} /\ x \in After
  BY <1>1
<1>3. Evaluators' = Evaluators
  BY DEF Fixed
<1>4. OpensInStage' /\ SlotsAgain'
  BY <1>2, <1>3 DEF OpensInStage, SlotsAgain
<1>5. AttachesSlots' /\ ~Has("rebuild")' /\ \A x \in Left' : BeginsFree(x)'
  BY <1>2 DEF AttachesSlots, Has, BeginsFree
<1> QED
  BY <1>4, <1>5 DEF RoundKept

LEMMA OtherAttaches ==
    ASSUME TodoTyped, Ranked, ~Idle, todo[1].op = "attach"
    PROVE  \A y \in After : y.op = "attach" => y.n # todo[1].n
<1> SUFFICES ASSUME NEW y \in After, y.op = "attach" PROVE y.n # todo[1].n
  OBVIOUS
<1>1. PICK k \in 2..Len(todo) : y = todo[k]
  BY DEF After, Rest
<1>2. DOMAIN todo = 1..Len(todo) /\ Len(todo) \in Nat
  BY HeadIs
<1>3. 1 \in DOMAIN todo /\ k \in DOMAIN todo /\ 1 < k
  BY <1>1, <1>2
<1> QED
  BY <1>1, <1>3 DEF Ranked, Ranks

\* An evaluator gives its verdict: its slot is closed.
LEMMA RoundClosed ==
    ASSUME TypeOK, RoundKept, Ranked, NEW t \in Tasks, TaskEnds(t), SlotEnded(t),
           Idle \/ (todo[1].op = "attach" /\ todo[1].n = t)
    PROVE  RoundKept'
<1>0. /\ (Idle => After = {}) /\ After \subseteq Left /\ TodoTyped /\ ~Busy
      /\ \A x \in After : x.op \in {"attach", "sweep"}
  BY AfterIs DEF TypeOK, Busy
<1>1. ~Has("rebuild")
  BY <1>0, NoRebuild
<1>2. /\ Fixed /\ Rounding /\ Rounding' /\ slice # None /\ log[t].phase = "Evaluation"
      /\ slice.round.slot[log[t].about] = [task |-> t, out |-> "open"]
      /\ slice'.round.stage = slice.round.stage
      /\ \A ev \in Evaluators \ {log[t].about} : slice'.round.slot[ev] = slice.round.slot[ev]
      /\ Left' = {[op |-> "settle", cycle |-> 0, n |-> 0, of |-> "none"]} \cup After
  BY DEF TaskEnds, SlotEnded, OpenSlot
<1>3. /\ slice'.round.slot[log[t].about].out # "open"
  <2>1. PICK out \in {"infra", "pass", "fail", "abort"} :
          slice'.round.slot[log[t].about] = [task |-> t, out |-> out]
    BY DEF SlotEnded
  <2> QED
    BY <2>1
<1>4. OpensInStage'
  BY <1>2, <1>3 DEF RoundKept, OpensInStage, Fixed
<1>5. \A x \in Left' : x.op = "settle" \/ x \in After
  BY <1>2
<1>6. SlotsAgain' /\ ~Has("rebuild")' /\ \A x \in Left' : BeginsFree(x)'
  BY <1>0, <1>5 DEF SlotsAgain, Has, BeginsFree
<1>7. AttachesSlots'
  <2> SUFFICES ASSUME NEW x \in Left', x.op = "attach", log'[x.n].phase = "Evaluation"
               PROVE  slice'.round.slot[log'[x.n].about] = [task |-> x.n, out |-> "open"]
    BY <1>2 DEF AttachesSlots
  <2>1. x \in After /\ x \in Left /\ ~Idle
    BY <1>0, <1>5
  <2>2. x.n \in Tasks /\ x.n # t
    BY <1>0, <2>1, OtherAttaches DEF TypeOK, TodoTyped, ChoreTyped
  <2>3. log'[x.n] = log[x.n]
    BY <2>2 DEF TaskEnds
  <2>4. slice.round.slot[log[x.n].about] = [task |-> x.n, out |-> "open"]
    BY <1>1, <1>2, <2>1, <2>3 DEF RoundKept, AttachesSlots
  <2>5. log[x.n].about \in Evaluators
    BY <2>2, <2>3 DEF TypeOK, LogTyped, TaskTyped
  <2>6. log[x.n].about # log[t].about
    BY <1>2, <2>2, <2>4
  <2> QED
    BY <1>2, <2>3, <2>4, <2>5, <2>6
<1> QED
  BY <1>4, <1>6, <1>7 DEF RoundKept

\* An evaluator is launched again: its slot is open, and nobody else attaches to it.
LEMMA RoundAgain ==
    ASSUME TypeOK, RoundKept, Ranked, HumansWait, NEW t \in Tasks, TaskEnds(t), SlotAgain(t),
           ~HumanTask(t), Idle \/ (todo[1].op = "attach" /\ todo[1].n = t)
    PROVE  RoundKept'
<1>0. /\ (Idle => After = {}) /\ After \subseteq Left /\ TodoTyped /\ ~Busy
      /\ (~Idle => todo[1] \in Left)
      /\ \A x \in After : x.op \in {"attach", "sweep"}
  BY AfterIs DEF TypeOK, Busy
<1>1. ~Has("rebuild")
  BY <1>0, NoRebuild
<1>2. /\ Fixed /\ Rounding /\ slice # None /\ slice' = slice /\ log[t].phase = "Evaluation"
      /\ \A u \in Tasks : log'[u].phase = log[u].phase /\ log'[u].about = log[u].about
  BY EndsKeep DEF SlotAgain, TaskEnds
<1>3. slice.round.slot[log[t].about] = [task |-> t, out |-> "open"]
  <2>1. CASE Idle
    BY <2>1 DEF SlotAgain, OpenSlot
  <2>2. CASE ~Idle
    BY <1>0, <1>1, <1>2, <2>2 DEF RoundKept, AttachesSlots
  <2> QED
    BY <2>1, <2>2
<1>4. log[t].about # Approval
  <2>1. EvType[Approval] = "human"
    BY KindsAssumption DEF TypeOK, KindTyped
  <2> QED
    BY <1>2, <2>1 DEF HumanTask
<1>5. CASE Left' = {[op |-> "escalate", cycle |-> 0, n |-> t, of |-> "loss"]} \cup After
  <2>1. \A x \in Left' : x \in After \/ x.op = "escalate"
    BY <1>5
  <2>2. \A x \in Left' : BeginsFree(x)'
    BY <1>0, <2>1, BeginsAfter
  <2> QED
    BY <1>0, <1>1, <1>2, <2>1, <2>2, RoundStays
<1>6. CASE \E n \in Nat : Left' =
            {[op |-> "launch", cycle |-> 0, n |-> n, of |-> log[t].about],
             [op |-> "slots", cycle |-> 0, n |-> 0, of |-> log[t].about]} \cup After
  <2>1. \A x \in Left' : \/ x.op = "launch" \/ (x.op = "slots" /\ x.of = log[t].about)
                         \/ x \in After
    BY <1>6
  <2>2. \A x \in Left' : BeginsFree(x)'
    BY <1>0, <2>1, BeginsAfter
  <2>3. ~Has("rebuild")'
    BY <1>0, <2>1 DEF Has
  <2>4. OpensInStage'
    BY <1>2 DEF RoundKept, OpensInStage, Fixed, Rounding
  <2>5. ASSUME NEW y \in Left', y.op = "attach", log'[y.n].phase = "Evaluation"
        PROVE  /\ log'[y.n].about = log[y.n].about /\ log[y.n].about # log[t].about
               /\ slice.round.slot[log[y.n].about] = [task |-> y.n, out |-> "open"]
    <3>1. y \in After /\ y \in Left /\ ~Idle
      BY <1>0, <2>1, <2>5
    <3>2. y.n \in Tasks /\ y.n # t
      BY <1>0, <2>5, <3>1, OtherAttaches DEF TypeOK, TodoTyped, ChoreTyped
    <3>3. log'[y.n] = log[y.n]
      BY <3>2 DEF TaskEnds
    <3>4. slice.round.slot[log[y.n].about] = [task |-> y.n, out |-> "open"]
      BY <1>1, <1>2, <2>5, <3>1, <3>3 DEF RoundKept, AttachesSlots
    <3>5. log[y.n].about # log[t].about
      BY <1>3, <3>2, <3>4
    <3> QED
      BY <3>3, <3>4, <3>5
  <2>6. SlotsAgain'
    <3> SUFFICES ASSUME NEW x \in Left', x.op = "slots"
                 PROVE  /\ x.of # "all" /\ slice'.round.slot[x.of].out = "open" /\ x.of # Approval
                        /\ \A y \in Left' : y.op = "attach" /\ log'[y.n].phase = "Evaluation" =>
                              log'[y.n].about # x.of
      BY DEF SlotsAgain
    <3>1. x.of = log[t].about
      BY <1>0, <2>1
    <3>2. log[t].about # "all"
      <4>1. log[t].about \in Evaluators
        BY <1>2 DEF TypeOK, LogTyped, TaskTyped
      <4> QED
        BY <4>1, EvaluatorsAre DEF TypeOK
    <3>3. slice'.round.slot[x.of].out = "open"
      BY <1>2, <1>3, <3>1
    <3>4. \A y \in Left' : y.op = "attach" /\ log'[y.n].phase = "Evaluation" =>
                              log'[y.n].about # x.of
      BY <2>5, <3>1
    <3> QED
      BY <1>4, <3>1, <3>2, <3>3, <3>4
  <2>7. AttachesSlots'
    BY <1>2, <2>5 DEF AttachesSlots, Rounding
  <2> QED
    BY <2>2, <2>3, <2>4, <2>6, <2>7 DEF RoundKept
<1> QED
  BY <1>5, <1>6 DEF SlotAgain

LEMMA RoundEnd ==
    ASSUME Kept, OneTask, NEW t \in Tasks, TaskEnds(t), job' = job, job # "Revoked",
           ~HumanTask(t), Idle \/ (todo[1].op = "attach" /\ todo[1].n = t)
    PROVE  RoundKept'
<1>0. /\ TypeOK /\ TodoTyped /\ RoundKept /\ (Idle => After = {}) /\ After \subseteq Left
      /\ OpenAlone /\ CyclesKept /\ (~Idle => todo[1] \in Left) /\ ~Busy
  BY KeptIs DEF Busy
<1>1. ~Has("rebuild") /\ Ranked /\ HumansWait
  BY <1>0, NoRebuild DEF Kept
<1>2. Fixed /\ \A u \in Tasks : log'[u].phase = log[u].phase /\ log'[u].about = log[u].about
  BY <1>0, EndsKeep DEF TaskEnds
<1>3. CASE TaskKept \/ SlotNone(t)
  <2>1. slice' = slice /\ Left' = After
    BY <1>3 DEF TaskKept, SlotNone
  <2>2. \A x \in Left' : BeginsFree(x)'
    BY <1>0, <2>1, BeginsAfter
  <2> QED
    BY <1>0, <1>1, <1>2, <2>1, <2>2, RoundStays
<1>4. CASE WorkEnded(t)
  <2>1. slice # None /\ slice' = slice /\ log[t].phase = "Work"
    BY <1>4 DEF WorkEnded
  <2>2. job # "Evaluation"
    <3>1. CASE Idle
      <4>1. Open(t)
        BY <1>4, <3>1 DEF WorkEnded, Open
      <4> QED
        BY <1>0, <2>1, <4>1 DEF OpenAlone, Alone
    <3>2. CASE ~Idle
      BY <1>0, <2>1, <3>2 DEF CyclesKept, ChoreKept
    <3> QED
      BY <3>1, <3>2
  <2>3. \A x \in Left' : x \in After \/ x.op \in {"evaluate", "attempt", "escalate"}
    <3>1. CASE Left' = {[op |-> "evaluate", cycle |-> 0, n |-> 0, of |-> "none"]} \cup After
      BY <3>1
    <3>2. CASE \E n \in Nat : Left' =
               {[op |-> "attempt", cycle |-> log[t].cycle, n |-> n, of |-> "none"]} \cup After
      BY <3>2
    <3>3. CASE \E why \in {"work", "loss"} : Left' =
               {[op |-> "escalate", cycle |-> 0, n |-> t, of |-> why]} \cup After
      BY <3>3
    <3> QED
      BY <1>4, <3>1, <3>2, <3>3 DEF WorkEnded
  <2>4. \A x \in After : x.op \in {"attach", "sweep"}
    BY <1>0, NoRebuild, <1>1
  <2>5. \A x \in Left' : BeginsFree(x)'
    BY <2>2, <2>3, <2>4 DEF BeginsFree
  <2> QED
    BY <1>0, <1>1, <1>2, <2>1, <2>3, <2>5, RoundStays
<1>5. CASE SlotAgain(t)
  BY <1>0, <1>1, <1>5, RoundAgain
<1>6. CASE SlotEnded(t)
  BY <1>0, <1>1, <1>6, RoundClosed
<1> QED
  BY <1>3, <1>4, <1>5, <1>6 DEF TaskEnds

\* Nothing is known of the round yet; what is launched is of the stage in flight.
LEMMA RoundRecovered ==
    ASSUME Kept, OneTask, Recover
    PROVE  RoundKept'
<1>0. TypeOK /\ KindTyped /\ LogTyped /\ TodoTyped
  BY KeptIs
<1>1. /\ ~Idle /\ todo[1].op = "recover" /\ Fixed /\ SameTasks /\ job' = job /\ ~Rounding'
  BY <1>0, RecoverLeft DEF Calm
<1>2. Tasks' = Tasks /\ \A t \in Tasks : log'[t].cycle = log[t].cycle /\ log'[t].phase = log[t].phase
                                         /\ log'[t].st = log[t].st /\ log'[t].about = log[t].about
  BY <1>1 DEF SameTasks, Alike
<1>3. \A x \in After : x.op = "sweep"
  BY <1>1, RecoverFirst
<1>4. ASSUME \A x \in Left' : \/ x.op \in {"inbox", "attempt", "escalate", "finalize", "sweep"}
                              \/ x.op = "evaluate" /\ job # "Evaluation"
                              \/ x.op = "attach" /\ log'[x.n].phase = "Work"
      PROVE  RoundKept'
  <2>1. \A x \in Left' : x.op \notin {"slots", "rebuild"} /\ BeginsFree(x)'
    BY <1>1, <1>4 DEF BeginsFree
  <2>2. \A x \in Left' : x.op = "attach" => log'[x.n].phase # "Evaluation"
    BY <1>4
  <2> QED
    BY <1>1, <2>1, <2>2, RoundNone
<1>5. CASE Left' = After
  BY <1>3, <1>4, <1>5
<1>6. CASE Left' = {[op |-> "inbox", cycle |-> 0, n |-> 0, of |-> "none"]} \cup After
  BY <1>3, <1>4, <1>6
<1>7. CASE \E t \in Tasks :
             /\ log[t].phase = "Work"
             /\ Left' = {[op |-> "attach", cycle |-> 0, n |-> t, of |-> "none"]} \cup After
  <2>1. PICK t \in Tasks :
             /\ log[t].phase = "Work"
             /\ Left' = {[op |-> "attach", cycle |-> 0, n |-> t, of |-> "none"]} \cup After
    BY <1>7
  <2>2. \A x \in Left' : x \in After \/ (x.op = "attach" /\ x.n = t)
    BY <2>1
  <2>3. log'[t].phase = "Work"
    BY <1>2, <2>1
  <2> QED
    BY <1>3, <1>4, <2>2, <2>3
<1>8. CASE \E n \in Nat : Left' =
             {[op |-> "attempt", cycle |-> TopCycle, n |-> n, of |-> "none"]} \cup After
  <2>1. \A x \in Left' : x \in After \/ x.op = "attempt"
    BY <1>8
  <2> QED
    BY <1>3, <1>4, <2>1
<1>9. CASE \E t \in Tasks : Left' =
             {[op |-> "escalate", cycle |-> 0, n |-> t, of |-> "work"]} \cup After
  <2>1. \A x \in Left' : x \in After \/ x.op = "escalate"
    BY <1>9
  <2> QED
    BY <1>3, <1>4, <2>1
<1>10. CASE job = "Work" /\ Left' = {[op |-> "evaluate", cycle |-> 0, n |-> 0, of |-> "none"]} \cup After
  <2>1. \A x \in Left' : x \in After \/ x.op = "evaluate"
    BY <1>10
  <2> QED
    BY <1>3, <1>4, <1>10, <2>1
<1>11. CASE Left' = {[op |-> "finalize", cycle |-> 0, n |-> 0, of |-> "none"]} \cup After
  BY <1>3, <1>4, <1>11
<1>12. CASE job = "Evaluation" /\ Stages # <<>> /\ Then(RecoverEvaluation(TopCycle))
  <2>1. PICK i : i = RoundFromLog(TopCycle).stage
    OBVIOUS
  <2>2. /\ i \in 1..Len(Stages)
        /\ \A x \in Left' :
             \/ /\ x.op = "launch" /\ x.of \in Stages[i]
                /\ Latest(Lineage("Evaluation", TopCycle, x.of)) = 0
             \/ x.op = "rebuild" \/ x.op = "settle"
             \/ \E t \in Tasks :
                  /\ x.op = "attach" /\ x.n = t /\ log[t].about \in Stages[i]
                  /\ t = Latest(Lineage("Evaluation", TopCycle, log[t].about))
                  /\ log[t].st = "Running" /\ log[t].phase = "Evaluation"
                  /\ log[t].cycle = TopCycle
             \/ x \in After
        /\ Has("rebuild")'
        /\ \A j \in 1..Len(Stages) : \A ev \in Stages[j] :
             Latest(Lineage("Evaluation", TopCycle, ev)) # 0 => j <= i
    BY <1>0, <1>12, <2>1, RecoveryLeft
  <2>3. PICK c : c = TopCycle
    OBVIOUS
  <2>4. slice'.cycle = c /\ slice' # None
    BY <1>0, <1>12, <2>3, RecoverLeft
  <2>5. \A ev : /\ Lineage("Evaluation", c, ev)' = Lineage("Evaluation", c, ev)
                /\ Latest(Lineage("Evaluation", c, ev))' = Latest(Lineage("Evaluation", c, ev))
    BY <1>1, LinesAlike DEF LinesKept
  <2>6. \A ev : /\ LineOf(ev)' = Lineage("Evaluation", c, ev)
                /\ Latest(LineOf(ev))' = Latest(Lineage("Evaluation", c, ev))
    BY <2>4, <2>5 DEF LineOf
  <2>7. Stages' = Stages
    BY <1>1 DEF Fixed
  <2>8. InStage(i)'
    <3>1. \A x \in Left' : x.op = "launch" =>
            x.of \in Stages[i] /\ Latest(Lineage("Evaluation", c, x.of)) = 0
      BY <1>3, <2>2, <2>3
    <3>2. ASSUME NEW x \in Left', x.op = "attach"
          PROVE  /\ log'[x.n].about \in Stages[i] /\ log'[x.n].cycle = c
                 /\ log'[x.n].st = "Running"
                 /\ x.n = Latest(Lineage("Evaluation", c, log'[x.n].about)) /\ x.n # 0
      <4>1. PICK t \in Tasks :
              /\ x.n = t /\ log[t].about \in Stages[i]
              /\ t = Latest(Lineage("Evaluation", TopCycle, log[t].about))
              /\ log[t].st = "Running" /\ log[t].cycle = TopCycle
        BY <1>3, <2>2, <3>2
      <4>2. log'[t].about = log[t].about /\ log'[t].cycle = log[t].cycle /\ log'[t].st = log[t].st
        BY <1>2
      <4>3. t # 0
        BY <1>0, TasksAre
      <4> QED
        BY <2>3, <4>1, <4>2, <4>3
    <3>3. \A j \in 1..Len(Stages) : \A ev \in Stages[j] : LineOf(ev)' # {} => j <= i
      <4>1. \A ev : Lineage("Evaluation", c, ev) # {} => Latest(Lineage("Evaluation", c, ev)) # 0
        BY <1>0, LineageIs
      <4> QED
        BY <2>2, <2>3, <2>6, <4>1
    <3> QED
      BY <2>4, <2>6, <2>7, <3>1, <3>2, <3>3 DEF InStage
  <2>9. \A x \in Left' : x.op \notin {"slots", "enter", "retry", "evaluate"}
    BY <1>3, <2>2
  <2>10. OpensInStage' /\ SlotsAgain' /\ AttachesSlots' /\ \A x \in Left' : BeginsFree(x)'
    BY <1>1, <2>2, <2>9 DEF OpensInStage, SlotsAgain, AttachesSlots, BeginsFree
  <2> QED
    BY <2>2, <2>7, <2>8, <2>10 DEF RoundKept
<1>13. \/ Left' = After
       \/ Left' = {[op |-> "inbox", cycle |-> 0, n |-> 0, of |-> "none"]} \cup After
       \/ \E t \in Tasks :
             /\ log[t].phase = "Work"
             /\ Left' = {[op |-> "attach", cycle |-> 0, n |-> t, of |-> "none"]} \cup After
       \/ \E n \in Nat : Left' =
             {[op |-> "attempt", cycle |-> TopCycle, n |-> n, of |-> "none"]} \cup After
       \/ \E t \in Tasks : Left' =
             {[op |-> "escalate", cycle |-> 0, n |-> t, of |-> "work"]} \cup After
       \/ job = "Work" /\ Left' = {[op |-> "evaluate", cycle |-> 0, n |-> 0, of |-> "none"]} \cup After
       \/ Left' = {[op |-> "finalize", cycle |-> 0, n |-> 0, of |-> "none"]} \cup After
       \/ job = "Evaluation" /\ Stages # <<>> /\ Then(RecoverEvaluation(TopCycle))
  BY <1>0, RecoverLeft
<1> QED
  BY <1>5, <1>6, <1>7, <1>8, <1>9, <1>10, <1>11, <1>12, <1>13

\* The slots that are written are open, and were not waited for by another task.
LEMMA RoundInstalled ==
    ASSUME Kept, OneTask, InstallSlots
    PROVE  RoundKept'
<1>0. TypeOK /\ KindTyped /\ TodoTyped /\ RoundKept /\ After \subseteq Left
  BY KeptIs
<1>1. /\ ~Idle /\ todo[1].op = "slots" /\ todo[1] \in Left /\ Rounding /\ Rounding' /\ slice # None
      /\ slice'.round.stage = IF todo[1].of = "all" THEN todo[1].n ELSE slice.round.stage
      /\ \A ev \in Evaluators :
           slice'.round.slot[ev] =
             IF ev \in (IF todo[1].of = "all" THEN Stages[todo[1].n] ELSE {todo[1].of})
               THEN [task |-> Latest(Lineage("Evaluation", slice.cycle, ev)), out |-> "open"]
               ELSE slice.round.slot[ev]
  BY <1>0, KeptIs, InstallSlotsIs DEF Rounding
<1>2. Calm /\ Fixed /\ SameTasks /\ job' = job /\ Left' = After
  BY <1>0, InstallSlotsCalm DEF Calm
<1>3. ~Has("rebuild") /\ \A x \in After : x.op \in {"attach", "sweep"}
  BY <1>0, <1>1, NoRebuild DEF Busy
<1>4. SlotsAgain' /\ ~Has("rebuild")' /\ \A x \in Left' : BeginsFree(x)'
  BY <1>2, <1>3 DEF SlotsAgain, Has, BeginsFree
<1>5. ASSUME NEW x \in Left', x.op = "attach", log'[x.n].phase = "Evaluation"
      PROVE  /\ log'[x.n].about = log[x.n].about /\ log[x.n].about \in Evaluators
             /\ slice.round.slot[log[x.n].about] = [task |-> x.n, out |-> "open"]
             /\ x \in Left /\ log[x.n].phase = "Evaluation"
  <2>1. x \in Left /\ x.n \in Tasks
    BY <1>0, <1>2, <1>5 DEF TypeOK, TodoTyped, ChoreTyped
  <2>2. log'[x.n].about = log[x.n].about /\ log'[x.n].phase = log[x.n].phase
    BY <1>2, <2>1 DEF SameTasks, Alike
  <2>3. log[x.n].about \in Evaluators
    BY <1>0, <1>5, <2>1, <2>2 DEF TypeOK, LogTyped, TaskTyped
  <2> QED
    BY <1>0, <1>1, <1>3, <1>5, <2>1, <2>2, <2>3 DEF RoundKept, AttachesSlots
<1>6. CASE todo[1].of = "all"
  <2>1. \A ev \in Evaluators : slice.round.slot[ev].out # "open"
    BY <1>0, <1>1, <1>6 DEF RoundKept, SlotsAgain
  <2>2. OpensInStage'
    BY <1>1, <1>2, <1>6, <2>1 DEF OpensInStage, Fixed
  <2>3. AttachesSlots'
    BY <1>5, <2>1 DEF AttachesSlots
  <2> QED
    BY <1>4, <2>2, <2>3 DEF RoundKept
<1>7. CASE todo[1].of # "all"
  <2>1. /\ slice.round.slot[todo[1].of].out = "open"
        /\ \A y \in Left : y.op = "attach" /\ log[y.n].phase = "Evaluation" => log[y.n].about # todo[1].of
    BY <1>0, <1>1, <1>7 DEF RoundKept, SlotsAgain
  <2>2. OpensInStage'
    <3> SUFFICES ASSUME NEW ev \in Evaluators, slice'.round.slot[ev].out = "open"
                 PROVE  ev \in Stages[slice.round.stage]
      BY <1>1, <1>2, <1>7 DEF OpensInStage, Fixed
    <3>1. slice.round.slot[ev].out = "open"
      BY <1>1, <1>7, <2>1
    <3> QED
      BY <1>0, <1>1, <3>1 DEF RoundKept, OpensInStage
  <2>3. AttachesSlots'
    <3> SUFFICES ASSUME NEW x \in Left', x.op = "attach", log'[x.n].phase = "Evaluation"
                 PROVE  slice'.round.slot[log'[x.n].about] = [task |-> x.n, out |-> "open"]
      BY <1>1 DEF AttachesSlots
    <3>1. /\ log'[x.n].about = log[x.n].about /\ log[x.n].about \in Evaluators
          /\ slice.round.slot[log[x.n].about] = [task |-> x.n, out |-> "open"]
          /\ x \in Left /\ log[x.n].phase = "Evaluation"
      BY <1>5
    <3>2. log[x.n].about # todo[1].of
      BY <2>1, <3>1
    <3> QED
      BY <1>1, <1>7, <3>1, <3>2
  <2> QED
    BY <1>4, <2>2, <2>3 DEF RoundKept
<1> QED
  BY <1>6, <1>7

\* The round that is read from the log is of the stage the restart began with,
\* and waits for the tasks it attaches to.
LEMMA RoundRebuilt ==
    ASSUME Kept, OneTask, Rebuild
    PROVE  RoundKept'
<1>0. TypeOK /\ KindTyped /\ LogTyped /\ TodoTyped /\ RoundKept /\ After \subseteq Left
  BY KeptIs
<1>1. /\ ~Idle /\ todo[1].op = "rebuild" /\ todo[1] \in Left /\ Fixed /\ SameTasks /\ Left' = After
      /\ slice # None /\ Rounding' /\ slice'.cycle = slice.cycle /\ Stages # <<>>
      /\ slice'.round = RoundFromLog(slice.cycle) /\ slice.cycle \in Nat
  BY <1>0, KeptIs, RebuildIs DEF Calm
<1>2. \A x \in After : x.op \in {"settle", "attach", "sweep"}
  BY <1>0, <1>1, AfterIs DEF Before
<1>3. PICK c : c = slice.cycle
  OBVIOUS
<1>4. PICK round : round = RoundFromLog(c)
  OBVIOUS
<1>5. /\ round.stage \in 1..Len(Stages)
      /\ \A ev \in Evaluators :
           LET slot == round.slot[ev]
               last == Latest(Lineage("Evaluation", c, ev))
           IN  /\ ev \in Stages[round.stage] => slot.task = last
               /\ slot.out = "open" => ev \in Stages[round.stage]
      /\ \A ev \in Stages[round.stage] :
           LET slot == round.slot[ev]
               last == Latest(Lineage("Evaluation", c, ev))
           IN  last # 0 /\ log[last].st \notin {"Done", "Failed"} => slot.out = "open"
      /\ \A j \in 1..Len(Stages) : \A ev \in Stages[j] :
           Latest(Lineage("Evaluation", c, ev)) # 0 => j <= round.stage
      /\ round \in Rounds(Evaluators)
  BY <1>0, <1>1, <1>3, <1>4, RoundFromLogIs
<1>6. \/ round.stage = 1
      \/ \E ev \in Stages[round.stage] : Latest(Lineage("Evaluation", c, ev)) # 0
  BY <1>0, <1>1, <1>3, <1>4, RoundFromLogStage
<1>7. OpensInStage'
  BY <1>1, <1>3, <1>4, <1>5 DEF OpensInStage, Fixed
<1>8. SlotsAgain' /\ ~Has("rebuild")' /\ \A x \in Left' : BeginsFree(x)'
  BY <1>1, <1>2 DEF SlotsAgain, Has, BeginsFree
<1>9. AttachesSlots'
  <2> SUFFICES ASSUME NEW x \in Left', x.op = "attach", log'[x.n].phase = "Evaluation"
               PROVE  slice'.round.slot[log'[x.n].about] = [task |-> x.n, out |-> "open"]
    BY <1>1 DEF AttachesSlots
  <2>1. x \in Left /\ x.n \in Tasks
    BY <1>0, <1>1 DEF TypeOK, TodoTyped, ChoreTyped
  <2>2. log'[x.n].about = log[x.n].about /\ log'[x.n].phase = log[x.n].phase
    BY <1>1, <2>1 DEF SameTasks, Alike
  <2>3. PICK i \in 1..Len(Stages) : InStage(i)
    BY <1>0, <1>1 DEF RoundKept, Has
  <2>4. PICK ev : ev = log[x.n].about
    OBVIOUS
  <2>5. /\ ev \in Stages[i] /\ log[x.n].st = "Running"
        /\ x.n = Latest(Lineage("Evaluation", c, ev))
        /\ \A j \in 1..Len(Stages) : \A e \in Stages[j] : Lineage("Evaluation", c, e) # {} => j <= i
    BY <1>3, <2>1, <2>2, <2>3, <2>4 DEF InStage, LineOf
  <2>6. x.n # 0
    BY <1>0, <2>1, TasksAre
  <2>7. i <= round.stage
    BY <1>5, <2>5, <2>6
  <2>8. round.stage <= i
    <3>1. CASE round.stage = 1
      BY <3>1
    <3>2. CASE \E e \in Stages[round.stage] : Latest(Lineage("Evaluation", c, e)) # 0
      <4>1. PICK e \in Stages[round.stage] : Latest(Lineage("Evaluation", c, e)) # 0
        BY <3>2
      <4>2. Lineage("Evaluation", c, e) # {}
        BY <4>1 DEF Latest
      <4> QED
        BY <1>5, <2>5, <4>2
    <3> QED
      BY <1>6, <3>1, <3>2
  <2>9. round.stage = i
    <3>1. Len(Stages) \in Nat
      BY <1>0, EvaluatorsAre
    <3> QED
      BY <1>5, <2>7, <2>8, <3>1
  <2>10. ev \in Evaluators
    BY <1>0, <2>3, <2>5, EvaluatorsAre
  <2>11. round.slot[ev].task = x.n /\ round.slot[ev].out = "open"
    BY <1>5, <2>5, <2>6, <2>9, <2>10
  <2>12. round.slot[ev] = [task |-> x.n, out |-> "open"]
    <3>1. round.slot[ev] \in [task : Nat, out : Outcomes]
      BY <1>5, <2>10 DEF Rounds
    <3> QED
      BY <2>11, <3>1
  <2> QED
    BY <1>1, <1>3, <1>4, <2>2, <2>4, <2>12
<1> QED
  BY <1>7, <1>8, <1>9 DEF RoundKept

\* The task that is launched is of the stage in flight.
LEMMA RoundOneMore ==
    ASSUME Kept, OneTask, LaunchEvaluator
    PROVE  RoundKept'
<1>0. TypeOK /\ KindTyped /\ LogTyped /\ TodoTyped /\ RoundKept /\ After \subseteq Left
  BY KeptIs
<1>1. /\ ~Idle /\ todo[1].op = "launch" /\ todo[1] \in Left /\ Fixed /\ slice' = slice /\ slice # None
      /\ todo[1].of \in Evaluators
  BY <1>0, KeptIs, LaunchEvaluatorIs
<1>2. PICK r \in TaskRecords :
        /\ Adds(r) /\ r.phase = "Evaluation" /\ r.about = todo[1].of
        /\ \/ Left' = After
           \/ Left' = {[op |-> "place", cycle |-> 0, n |-> Len(log) + 1, of |-> "none"]} \cup After
  BY <1>0, <1>1, LaunchEvaluatorIs
<1>3. /\ \A x \in Left' : x \in After \/ x.op = "place"
      /\ \A x \in After : x \in Left' /\ x \in Left
  BY <1>0, <1>2
<1>4. \A x \in Left : x.op = "attach" => x.n \in Tasks
  BY <1>0 DEF TypeOK, TodoTyped, ChoreTyped
<1>5. \A t \in Tasks : log'[t] = log[t]
  BY <1>2 DEF Adds
<1>6. \A x \in Left' : BeginsFree(x)'
  BY <1>0, <1>3, BeginsAfter
<1>7. OpensInStage'
  BY <1>0, <1>1 DEF RoundKept, OpensInStage, Fixed, Rounding
<1>8. \A x \in Left' : x.op = "attach" => x \in Left /\ log'[x.n] = log[x.n]
  BY <1>3, <1>4, <1>5
<1>9. SlotsAgain'
  <2> SUFFICES ASSUME NEW x \in Left', x.op = "slots"
               PROVE  IF x.of = "all" THEN \A ev \in Evaluators' : slice'.round.slot[ev].out # "open"
                      ELSE /\ slice'.round.slot[x.of].out = "open" /\ x.of # Approval
                           /\ \A y \in Left' : y.op = "attach" /\ log'[y.n].phase = "Evaluation" =>
                                 log'[y.n].about # x.of
    BY DEF SlotsAgain
  <2>1. IF x.of = "all" THEN \A ev \in Evaluators : slice.round.slot[ev].out # "open"
        ELSE /\ slice.round.slot[x.of].out = "open" /\ x.of # Approval
             /\ \A y \in Left : y.op = "attach" /\ log[y.n].phase = "Evaluation" =>
                   log[y.n].about # x.of
    BY <1>0, <1>3 DEF RoundKept, SlotsAgain
  <2>2. Evaluators' = Evaluators
    BY <1>1 DEF Fixed
  <2> QED
    BY <1>1, <1>8, <2>1, <2>2
<1>10. Has("rebuild") <=> Has("rebuild")'
  <2>1. \A x \in Left : x \in After \/ x.op = "launch"
    BY <1>0, <1>1, KeptIs
  <2> QED
    BY <1>3, <2>1 DEF Has
<1>11. AttachesSlots'
  BY <1>0, <1>1, <1>8, <1>10 DEF RoundKept, AttachesSlots, Rounding
<1>12. ASSUME Has("rebuild")' PROVE \E i \in 1..Len(Stages)' : InStage(i)'
  <2>1. PICK i \in 1..Len(Stages) : InStage(i)
    BY <1>0, <1>10, <1>12 DEF RoundKept
  <2>2. PICK ev : ev = todo[1].of
    OBVIOUS
  <2>3. ev \in Stages[i]
    BY <1>1, <2>1, <2>2 DEF InStage
  <2>4. ASSUME NEW e, e # ev PROVE LineOf(e)' = LineOf(e) /\ Latest(LineOf(e))' = Latest(LineOf(e))
    <3>1. LineOf(e)' = LineOf(e)
      BY <1>1, <1>2, <2>2, <2>4 DEF LineOf, Lineage, Adds
    <3> QED
      BY <3>1 DEF Latest
  <2>5. \A x \in Left' : x.op = "launch" => x.of \in Stages[i]
    BY <1>3, <2>1 DEF InStage
  <2>6. ASSUME NEW x \in Left', x.op = "attach", log'[x.n].phase = "Evaluation"
        PROVE  /\ log'[x.n].about \in Stages[i] /\ log'[x.n].cycle = slice'.cycle
               /\ log'[x.n].st = "Running" /\ x.n = Latest(LineOf(log'[x.n].about))
               /\ log'[x.n].about # ev
               /\ \A y \in Left' : y.op = "launch" => y.of # log'[x.n].about
    <3>1. x \in Left /\ log'[x.n] = log[x.n]
      BY <1>8, <2>6
    <3>2. /\ log[x.n].about \in Stages[i] /\ log[x.n].cycle = slice.cycle
          /\ log[x.n].st = "Running" /\ x.n = Latest(LineOf(log[x.n].about))
          /\ \A y \in Left : y.op = "launch" => y.of # log[x.n].about
      BY <2>1, <2>6, <3>1 DEF InStage
    <3> QED
      BY <1>1, <1>3, <2>2, <3>1, <3>2
  <2>7. \A j \in 1..Len(Stages) : \A e \in Stages[j] : LineOf(e)' # {} => j <= i
    <3> SUFFICES ASSUME NEW j \in 1..Len(Stages), NEW e \in Stages[j], LineOf(e)' # {} PROVE j <= i
      OBVIOUS
    <3>1. CASE e = ev
      <4>1. j = i
        BY <1>0, <2>3, <3>1, EvaluatorsAre
      <4>2. Len(Stages) \in Nat
        BY <1>0, EvaluatorsAre
      <4> QED
        BY <4>1, <4>2
    <3>2. CASE e # ev
      BY <2>1, <2>4, <3>2 DEF InStage
    <3> QED
      BY <3>1, <3>2
  <2>8. Stages' = Stages
    BY <1>1 DEF Fixed
  <2>9. InStage(i)'
    BY <2>4, <2>5, <2>6, <2>7, <2>8 DEF InStage
  <2> QED
    BY <2>8, <2>9
<1> QED
  BY <1>6, <1>7, <1>9, <1>11, <1>12 DEF RoundKept

LEMMA RoundNext ==
    ASSUME Kept, OneTask, OneInbox, [Next]_vars
    PROVE  RoundKept'
<1>0. /\ TypeOK /\ KindTyped /\ LogTyped /\ SliceTyped /\ TodoTyped /\ CyclesKept /\ OpenAlone /\ RoundKept
      /\ After \subseteq Left /\ (Idle => Left = {} /\ After = {})
      /\ (~Idle => todo[1] \in Left) /\ HumansWait
  BY KeptIs DEF Kept
<1>1. ASSUME Fixed, \A t \in Tasks : log'[t].phase = log[t].phase /\ log'[t].about = log[t].about,
             ~Busy, Idle \/ todo[1].op # "rebuild",
             slice' # None => slice # None, slice'.round = slice.round,
             \A x \in Left' : x \in After \/ x.op \notin {"slots", "attach", "rebuild", "enter", "retry", "evaluate"}
      PROVE  RoundKept'
  <2>1. ~Has("rebuild")
    BY <1>0, <1>1, NoRebuild
  <2>2. \A x \in Left' : BeginsFree(x)'
    BY <1>0, <1>1, BeginsAfter
  <2> QED
    BY <1>0, <1>1, <2>1, <2>2, RoundStays
<1>2. ASSUME ~Rounding', ~Busy, Idle \/ todo[1].op # "rebuild", SameTasks,
             slice' # None => slice # None /\ (~Rounding \/ Settled),
             \A x \in Left' : \/ x \in After
                              \/ x.op \notin {"slots", "attach", "rebuild", "enter", "retry", "evaluate"}
                              \/ x.op = "enter" /\ (slice' # None \/ job' = "Ready")
                              \/ x.op = "evaluate" /\ job' # "Evaluation"
      PROVE  RoundKept'
  <2>1. ~Has("rebuild") /\ \A x \in After : x.op \in {"attach", "sweep"}
    BY <1>0, <1>2, NoRebuild
  <2>2. \A x \in Left' : BeginsFree(x)'
    BY <1>2, <2>1 DEF BeginsFree
  <2>3. ASSUME slice' # None, NEW x \in After, x.op = "attach" PROVE log'[x.n].phase # "Evaluation"
    <3>1. x \in Left /\ x.n \in Tasks
      BY <1>0, <2>3 DEF TypeOK, TodoTyped, ChoreTyped
    <3>2. log[x.n].phase # "Evaluation"
      BY <1>0, <1>2, <2>1, <2>3, <3>1, NoEvaluator, NothingOpen
    <3> QED
      BY <1>2, <3>1, <3>2 DEF SameTasks, Alike
  <2> QED
    BY <1>2, <2>1, <2>2, <2>3, RoundNone
<1>3. ASSUME SameTasks PROVE \A t \in Tasks : log'[t].phase = log[t].phase /\ log'[t].about = log[t].about
  BY <1>3 DEF SameTasks, Alike
<1>4. CASE EnterWork
  <2>1. /\ ~Idle /\ todo[1].op = "enter" /\ SameTasks /\ slice' # None /\ ~Rounding'
        /\ Left' = {[op |-> "attempt", cycle |-> todo[1].cycle, n |-> 1, of |-> "none"]} \cup After
    BY <1>0, <1>4, EnterWorkIs DEF Calm
  <2>2. ~Rounding /\ (slice # None \/ job = "Ready")
    BY <1>0, <2>1 DEF TodoTyped, ChoreTyped, RoundKept, BeginsFree
  <2>3. \A x \in Left' : x \in After \/ x.op = "attempt"
    BY <2>1
  <2>4. CASE slice # None
    BY <1>2, <2>1, <2>2, <2>3, <2>4 DEF Busy
  <2>5. CASE job = "Ready"
    <3>1. \A x \in After : x.op \in {"attach", "sweep"}
      BY <1>0, <2>1, NoRebuild DEF Busy
    <3>2. \A x \in After : x.op # "attach"
      <4>1. \A x \in After : x.op = "attach" => x.n \in Tasks /\ log[x.n].phase # "Escalation"
        BY <1>0 DEF TodoTyped, ChoreTyped
      <4>2. \A t \in Tasks : log[t].phase = "Escalation"
        BY <1>0, <2>5 DEF TypeOK, Unstarted
      <4> QED
        BY <4>1, <4>2
    <3>3. \A x \in Left' : x.op \in {"attempt", "sweep"}
      BY <2>3, <3>1, <3>2
    <3>4. \A x \in Left' : BeginsFree(x)'
      BY <3>3 DEF BeginsFree
    <3> QED
      BY <2>1, <3>3, <3>4, RoundNone
  <2> QED
    BY <2>2, <2>4, <2>5
<1>5. CASE EnterRefused
  <2>1. /\ ~Idle /\ todo[1].op = "enter" /\ SameTasks /\ Fixed /\ slice' = slice
        /\ Left' = {[op |-> "inbox", cycle |-> 0, n |-> 0, of |-> "none"]} \cup After
    BY <1>0, <1>5, EnterRefusedIs DEF Calm
  <2>2. \A x \in Left' : x \in After \/ x.op = "inbox"
    BY <2>1
  <2> QED
    BY <1>1, <1>3, <2>1, <2>2 DEF Busy
<1>6. CASE StartAttempt
  <2>1. ~Idle /\ todo[1].op = "attempt" /\ Fixed /\ slice' = slice
    BY <1>0, <1>6, StartAttemptIs
  <2>2. \A t \in Tasks : log'[t].phase = log[t].phase /\ log'[t].about = log[t].about
    <3>1. Calm \/ \E r : Adds(r)
      BY <1>0, <1>6, StartAttemptIs
    <3>2. CASE Calm
      BY <1>3, <3>2 DEF Calm
    <3>3. CASE \E r : Adds(r)
      BY <3>3 DEF Adds
    <3> QED
      BY <3>1, <3>2, <3>3
  <2>3. \A x \in Left' : x \in After \/ x.op = "unclaim" \/ x.op = "place"
    BY <1>0, <1>6, StartAttemptIs
  <2> QED
    BY <1>1, <2>1, <2>2, <2>3 DEF Busy
<1>7. CASE Unclaim
  <2>1. ~Idle /\ todo[1].op = "unclaim" /\ SameTasks /\ Fixed /\ slice' = slice /\ Left' = After
    BY <1>0, <1>7, UnclaimIs DEF Calm
  <2> QED
    BY <1>1, <1>3, <2>1 DEF Busy
<1>8. ASSUME Fixed, SameTasks, slice' = slice, ~Idle, todo[1].op \in {"place", "stamp"},
             After \subseteq Left', \A x \in Left' : x \in After \/ x.op = "stamp"
      PROVE  RoundKept'
  <2>1. CASE ~Has("rebuild")
    <3>1. \A x \in Left' : BeginsFree(x)'
      BY <1>0, <1>8, BeginsAfter
    <3> QED
      BY <1>0, <1>3, <1>8, <2>1, <3>1, RoundStays
  <2>2. CASE Has("rebuild")
    <3>1. /\ Has("rebuild")' /\ \A x \in Left' : BeginsFree(x)'
      <4>1. \A x \in Left : x \in After \/ x.op \in {"place", "stamp"}
        BY <1>0, <1>8, KeptIs
      <4> QED
        BY <1>0, <1>8, <2>2, <4>1, BeginsAfter DEF Has
    <3>2. \A x \in Left : x.op = "attach" => x.n \in Tasks
      BY <1>0 DEF TodoTyped, ChoreTyped
    <3>3. \A x \in Left' : x.op = "attach" =>
            /\ x \in Left /\ log'[x.n].phase = log[x.n].phase /\ log'[x.n].about = log[x.n].about
            /\ log'[x.n].cycle = log[x.n].cycle /\ log'[x.n].st = log[x.n].st
      BY <1>0, <1>8, <3>2 DEF SameTasks, Alike
    <3>4. PICK i \in 1..Len(Stages) : InStage(i)
      BY <1>0, <2>2 DEF RoundKept
    <3>5. \A ev : LineOf(ev)' = LineOf(ev) /\ Latest(LineOf(ev))' = Latest(LineOf(ev))
      BY <1>8, LinesAlike, LinesSameIs DEF LinesSame
    <3>6. \A x \in Left' : x.op = "launch" => x \in Left
      BY <1>0, <1>8
    <3>7. InStage(i)'
      BY <1>8, <3>3, <3>4, <3>5, <3>6 DEF InStage, Fixed
    <3>8. \A x \in Left' : x.op = "slots" => x \in Left
      BY <1>0, <1>8
    <3>9. SlotsAgain'
      <4> SUFFICES ASSUME NEW x \in Left', x.op = "slots"
                   PROVE  IF x.of = "all" THEN \A ev \in Evaluators' : slice'.round.slot[ev].out # "open"
                          ELSE /\ slice'.round.slot[x.of].out = "open" /\ x.of # Approval
                               /\ \A y \in Left' : y.op = "attach" /\ log'[y.n].phase = "Evaluation" =>
                                     log'[y.n].about # x.of
        BY DEF SlotsAgain
      <4>1. IF x.of = "all" THEN \A ev \in Evaluators : slice.round.slot[ev].out # "open"
            ELSE /\ slice.round.slot[x.of].out = "open" /\ x.of # Approval
                 /\ \A y \in Left : y.op = "attach" /\ log[y.n].phase = "Evaluation" =>
                       log[y.n].about # x.of
        BY <1>0, <3>8 DEF RoundKept, SlotsAgain
      <4> QED
        BY <1>8, <3>3, <4>1 DEF Fixed
    <3>10. OpensInStage'
      BY <1>0, <1>8 DEF RoundKept, OpensInStage, Fixed, Rounding
    <3>11. AttachesSlots'
      BY <3>1 DEF AttachesSlots
    <3> QED
      BY <1>8, <3>1, <3>7, <3>9, <3>10, <3>11 DEF RoundKept, Fixed
  <2> QED
    BY <2>1, <2>2
<1>9. CASE Place
  BY <1>0, <1>8, <1>9, PlaceIs
<1>10. CASE Stamp
  BY <1>0, <1>8, <1>10, StampIs
<1>11. CASE PlaceFails
  <2>1. Left' = {} /\ Fixed /\ slice' = slice
    BY <1>0, <1>11, PlaceFailsIs DEF Calm
  <2> QED
    BY <1>0, <2>1 DEF RoundKept, OpensInStage, SlotsAgain, AttachesSlots, Has, Fixed, Rounding
<1>12. CASE EnterEvaluation
  <2>1. ~Idle /\ todo[1].op = "evaluate" /\ SameTasks /\ Fixed /\ slice # None
    BY <1>0, <1>12, EnterEvaluationIs DEF Calm
  <2>2. ~Rounding
    BY <1>0, <2>1 DEF RoundKept, BeginsFree, SliceTyped
  <2>3. CASE slice' = slice /\ Left' = After
    BY <1>1, <1>3, <2>1, <2>3 DEF Busy
  <2>4. CASE ~Rounding' /\ Left' = {[op |-> "finalize", cycle |-> 0, n |-> 0, of |-> "none"]} \cup After
    <3>1. \A x \in Left' : x \in After \/ x.op = "finalize"
      BY <2>4
    <3> QED
      BY <1>2, <2>1, <2>2, <2>4, <3>1 DEF Busy
  <2>5. CASE /\ 1 \in 1..Len(Stages) /\ Then(LaunchStage(1))
             /\ \A ev \in Evaluators : slice'.round.slot[ev].out = "none"
    <3>1. ~Has("rebuild") /\ \A x \in After : x.op \in {"attach", "sweep"}
      BY <1>0, <2>1, NoRebuild DEF Busy
    <3>2. ASSUME NEW x \in After, x.op = "attach" PROVE log'[x.n].phase # "Evaluation"
      <4>1. x \in Left /\ x.n \in Tasks
        BY <1>0, <3>2 DEF TodoTyped, ChoreTyped
      <4>2. log[x.n].phase # "Evaluation"
        BY <1>0, <2>1, <2>2, <3>1, <3>2, <4>1, NoEvaluator
      <4> QED
        BY <1>3, <2>1, <4>1, <4>2
    <3>3. \A ev \in Evaluators : slice'.round.slot[ev].out # "open"
      BY <2>5
    <3> QED
      BY <1>0, <2>1, <2>5, <3>1, <3>2, <3>3, RoundLaunched
  <2> QED
    BY <1>0, <1>12, <2>3, <2>4, <2>5, EnterEvaluationIs
<1>13. CASE LaunchEvaluator
  BY <1>13, RoundOneMore
<1>14. CASE InstallSlots
  BY <1>14, RoundInstalled
<1>15. CASE Settle
  <2>1. /\ ~Idle /\ todo[1].op = "settle" /\ SameTasks /\ Fixed /\ slice # None /\ slice' # None /\ ~Busy
    BY <1>0, <1>15, SettleIs DEF Calm, Busy
  <2>2. ~Has("rebuild") /\ \A x \in After : x.op \in {"attach", "sweep"}
    BY <1>0, <2>1, NoRebuild
  <2>3. CASE slice' = slice /\ Left' = After
    BY <1>1, <1>3, <2>1, <2>3
  <2>4. CASE /\ Settled /\ slice' = slice /\ slice.round.stage + 1 \in 1..Len(Stages)
             /\ Then(LaunchStage(slice.round.stage + 1))
    <3>1. PICK i \in 1..Len(Stages) : i = slice.round.stage + 1 /\ Then(LaunchStage(i))
      BY <2>4
    <3>2. /\ \A ev \in Evaluators : slice.round.slot[ev].out # "open"
          /\ \A x \in Left : x.op = "attach" => log[x.n].phase # "Evaluation"
      BY <1>0, <2>2, <2>4, NothingOpen
    <3>3. \A x \in After : x.op = "attach" => log'[x.n].phase # "Evaluation"
      <4>1. \A x \in After : x.op = "attach" => x.n \in Tasks
        BY <1>0 DEF TodoTyped, ChoreTyped
      <4> QED
        BY <1>0, <1>3, <2>1, <3>2, <4>1
    <3> QED
      BY <1>0, <2>1, <2>2, <2>4, <3>1, <3>2, <3>3, RoundLaunched
  <2>5. ASSUME Settled, ~Rounding', \A x \in Left' : x \in After \/ x.op \in {"escalate", "finalize", "enter"}
        PROVE  RoundKept'
    BY <1>2, <2>1, <2>5
  <2>6. CASE /\ Settled /\ ~Rounding'
             /\ \/ \E why \in {"infra", "abort", "rework"} :
                     Left' = {[op |-> "escalate", cycle |-> 0, n |-> 0, of |-> why]} \cup After
                \/ Left' = {[op |-> "finalize", cycle |-> 0, n |-> 0, of |-> "none"]} \cup After
                \/ Left' = {[op |-> "enter", cycle |-> slice.cycle + 1, n |-> 0, of |-> "none"]} \cup After
    <3>1. \A x \in Left' : x \in After \/ x.op \in {"escalate", "finalize", "enter"}
      <4>1. CASE \E why \in {"infra", "abort", "rework"} :
                   Left' = {[op |-> "escalate", cycle |-> 0, n |-> 0, of |-> why]} \cup After
        BY <4>1
      <4>2. CASE Left' = {[op |-> "finalize", cycle |-> 0, n |-> 0, of |-> "none"]} \cup After
        BY <4>2
      <4>3. CASE Left' = {[op |-> "enter", cycle |-> slice.cycle + 1, n |-> 0, of |-> "none"]} \cup After
        BY <4>3
      <4> QED
        BY <2>6, <4>1, <4>2, <4>3
    <3> QED
      BY <2>5, <2>6, <3>1
  <2> QED
    BY <1>0, <1>15, <2>3, <2>4, <2>6, SettleIs
<1>16. CASE Finalize
  <2>1. ~Idle /\ todo[1].op = "finalize" /\ SameTasks /\ Fixed /\ slice' = slice /\ Left' = After
    BY <1>0, <1>16, FinalizeIs DEF Calm
  <2> QED
    BY <1>1, <1>3, <2>1 DEF Busy
<1>17. CASE Escalate
  <2>1. ~Idle /\ todo[1].op = "escalate" /\ SameTasks /\ slice' = None /\ ~Rounding'
    BY <1>0, <1>17, EscalateIs DEF Calm, Rounding
  <2>2. \A x \in Left' : x \in After \/ x.op = "inbox"
    BY <1>0, <1>17, EscalateIs
  <2> QED
    BY <1>2, <2>1, <2>2 DEF Busy
<1>18. CASE FillInbox
  <2>1. ~Idle /\ todo[1].op = "inbox" /\ Fixed /\ slice' = slice /\ Left' = After
    BY <1>0, <1>18, FillInboxIs
  <2>2. \A t \in Tasks : log'[t].phase = log[t].phase /\ log'[t].about = log[t].about
    BY <1>0, <1>18, FillInboxIs DEF Adds
  <2> QED
    BY <1>1, <2>1, <2>2 DEF Busy
<1>19. CASE Retry
  <2>1. ~Idle /\ todo[1].op = "retry" /\ SameTasks /\ ~Rounding' /\ job = "Escalated"
    BY <1>0, <1>19, RetriedIs DEF Calm
  <2>2. \A x \in After : x.op = "sweep"
    <3>1. \A x \in After : x.op \in {"attach", "sweep"}
      BY <1>0, <2>1, NoRebuild DEF Busy
    <3> QED
      BY <1>0, <2>1, <3>1 DEF RoundKept, BeginsFree
  <2>3. \A x \in Left' : x \in After \/ (x.op = "evaluate" /\ job' = job) \/ x.op = "attempt"
    BY <1>0, <1>19, RetriedIs
  <2>4. \A x \in Left' : x.op \notin {"slots", "rebuild", "attach"} /\ BeginsFree(x)'
    BY <2>1, <2>2, <2>3 DEF BeginsFree
  <2> QED
    BY <2>1, <2>4, RoundNone
<1>20. CASE PreworkRetry
  <2>1. ~Idle /\ todo[1].op = "prework" /\ SameTasks /\ Fixed /\ slice' = slice
    BY <1>0, <1>20, PreworkRetryIs DEF Calm
  <2>2. \A x \in Left' : x \in After \/ x.op = "inbox"
    BY <1>0, <1>20, PreworkRetryIs
  <2> QED
    BY <1>1, <1>3, <2>1, <2>2 DEF Busy
<1>21. CASE RevokeJob
  <2>1. ~Idle /\ todo[1].op = "revoke" /\ slice' = None /\ Left' \subseteq Left /\ ~Rounding'
    BY <1>0, <1>21, RevokeJobIs DEF Rounding
  <2>2. \A x \in Left : x.op = "revoke"
    BY <1>0, <2>1 DEF Kept, RevokedKept, Has
  <2>3. \A x \in Left' : x.op \notin {"slots", "rebuild", "attach"} /\ BeginsFree(x)'
    BY <2>1, <2>2 DEF BeginsFree
  <2> QED
    BY <2>1, <2>3, RoundNone
<1>22. CASE Recover
  BY <1>22, RoundRecovered
<1>23. CASE Attach
  <2>1. PICK t \in Tasks : t = todo[1].n /\ TaskEnds(t)
    BY <1>0, <1>23, AttachEnds
  <2>2. ~Idle /\ todo[1].op = "attach" /\ job' = job
    BY <1>0, <1>23, AttachEnds DEF Unmoved
  <2>3. job # "Revoked"
    BY <1>0, <2>2, NotRevoked DEF Kept
  <2>4. ~HumanTask(t)
    BY <1>0, <2>1, <2>2 DEF HumansWait
  <2> QED
    BY <2>1, <2>2, <2>3, <2>4, RoundEnd
<1>24. CASE Rebuild
  BY <1>24, RoundRebuilt
<1>25. CASE Sweep
  <2>1. ~Idle /\ todo[1].op = "sweep" /\ Fixed /\ SameTasks /\ slice' = slice /\ Left' = {}
    BY <1>0, <1>25, SweepIs
  <2> QED
    BY <1>1, <1>3, <2>1 DEF Busy
<1>26. CASE StartJob
  <2>1. /\ Idle /\ SameTasks /\ job' = "Ready" /\ slice' = None /\ ~Rounding'
        /\ Left' = {[op |-> "enter", cycle |-> 1, n |-> 0, of |-> "none"]}
    BY <1>0, <1>26, StartJobIs DEF Calm, Rounding
  <2>2. \A x \in Left' : x.op = "enter"
    BY <2>1
  <2>3. \A x \in Left' : BeginsFree(x)'
    BY <2>1, <2>2 DEF BeginsFree
  <2> QED
    BY <2>1, <2>2, <2>3, RoundNone
<1>27. CASE Revoke
  <2>1. Idle /\ Fixed /\ SameTasks /\ slice' = slice /\ \A x \in Left' : x.op = "revoke"
    BY <1>0, <1>27, RevokeIs DEF Calm
  <2> QED
    BY <1>1, <1>3, <2>1 DEF Busy
<1>28. ~DeadlineScan
  BY <1>0, OneInboxIs, DeadlineScanIs
<1>29. ASSUME NEW t \in Tasks, TimeoutScan(t) PROVE RoundKept'
  <2>1. Idle /\ job \notin {"WrapUp", "Revoked"} /\ TaskEnds(t) /\ job' = job /\ log[t].st = "Running"
    BY <1>0, <1>29, TimeoutEnds DEF Unmoved
  <2>2. ~HumanTask(t)
    BY <1>0, <2>1 DEF HumansWait
  <2> QED
    BY <2>1, <2>2, RoundEnd
<1>30. ASSUME NEW t \in Tasks, Exit(t) PROVE RoundKept'
  <2>1. Idle /\ job \notin {"WrapUp", "Revoked"} /\ TaskEnds(t) /\ job' = job /\ box[t] \in Ended
    BY <1>0, <1>30, ExitEnds DEF Unmoved
  <2>2. ~HumanTask(t)
    BY <1>0, <2>1 DEF HumansWait, Ended
  <2> QED
    BY <2>1, <2>2, RoundEnd
<1>31. ASSUME Idle, Fixed, Left' = {}, slice' # None => slice # None, slice'.round = slice.round,
              \A t \in Tasks : log'[t].phase = log[t].phase /\ log'[t].about = log[t].about
       PROVE  RoundKept'
  BY <1>1, <1>31 DEF Busy
<1>32. ASSUME NEW t \in Tasks, ContainerStarted(t) PROVE RoundKept'
  BY <1>0, <1>3, <1>31, <1>32, ContainerStartedIs DEF Still
<1>33. ASSUME NEW t \in Tasks, SubmitResult(t) PROVE RoundKept'
  BY <1>0, <1>3, <1>31, <1>33, SubmitResultIs DEF Still
<1>34. ASSUME NEW t \in Tasks, SubmitEval(t) PROVE RoundKept'
  <2>1. Idle /\ Fixed /\ Left' = {} /\ slice' = slice /\ \E v : Answered(t, "Done", v)
    BY <1>0, <1>34, SubmitEvalIs
  <2> QED
    BY <1>31, <2>1, AnswerKeeps
<1>35. ASSUME NEW t \in Tasks, ResolveEscalation(t) PROVE RoundKept'
  <2>1. ~Rounding' /\ job' = job /\ job # "Evaluation"
    BY <1>0, <1>35, ResolveEscalationIs DEF Unmoved
  <2>2. \A x \in Left' : x.op \in {"retry", "prework", "evaluate", "revoke"}
    BY <1>0, <1>35, ResolveEscalationIs
  <2>3. \A x \in Left' : BeginsFree(x)'
    BY <2>1, <2>2 DEF BeginsFree
  <2> QED
    BY <2>1, <2>2, <2>3, RoundNone
<1>36. ASSUME NEW t \in Tasks, ResolveWork(t) PROVE RoundKept'
  <2>1. ~Rounding' /\ job' = job /\ job # "Evaluation"
    BY <1>0, <1>36, ResolveWorkIs DEF Unmoved
  <2>2. \A x \in Left' : x.op \in {"attempt", "escalate", "evaluate"}
    <3>1. CASE Left' = {[op |-> "evaluate", cycle |-> 0, n |-> 0, of |-> "none"]}
      BY <3>1
    <3>2. CASE \E n \in Nat : Left' =
                 {[op |-> "attempt", cycle |-> log[t].cycle, n |-> n, of |-> "none"]}
      BY <3>2
    <3>3. CASE Left' = {[op |-> "escalate", cycle |-> 0, n |-> t, of |-> "work"]}
      BY <3>3
    <3> QED
      BY <1>0, <1>36, <3>1, <3>2, <3>3, ResolveWorkIs
  <2>3. \A x \in Left' : BeginsFree(x)'
    BY <2>1, <2>2 DEF BeginsFree
  <2> QED
    BY <2>1, <2>2, <2>3, RoundNone
<1>37. ASSUME NEW t \in Tasks, ResolveEval(t) PROVE RoundKept'
  <2>1. Idle /\ Fixed /\ \E v : Answered(t, "Done", v)
    BY <1>0, <1>37, ResolveEvalIs
  <2>2. CASE TaskEnds(t) /\ SlotEnded(t)
    BY <1>0, <2>1, <2>2, RoundClosed DEF Kept
  <2>3. CASE slice' = slice /\ Left' = Left
    BY <1>0, <1>31, <2>1, <2>3, AnswerKeeps
  <2> QED
    BY <1>0, <1>37, <2>2, <2>3, ResolveEvalIs
<1>38. CASE SetRequireApproval
  <2>1. Left' = {} /\ slice' = None
    BY <1>0, <1>38, ApprovalIs
  <2> QED
    BY <2>1, RoundNone DEF Rounding
<1>39. CASE Restart
  <2>1. slice' = None /\ \A x \in Left' : x.op \in {"recover", "sweep"}
    BY <1>0, <1>39, RestartLeft
  <2>2. \A x \in Left' : BeginsFree(x)'
    BY <2>1 DEF BeginsFree
  <2> QED
    BY <2>1, <2>2, RoundNone DEF Rounding
<1>40. CASE Aside
  <2>1. Fixed /\ log' = log /\ job' = job /\ slice' = slice /\ Left' = Left
    BY <1>0, <1>40, AsideIs
  <2>2. \A ev : LineOf(ev)' = LineOf(ev) /\ Latest(LineOf(ev))' = Latest(LineOf(ev))
    BY <2>1, LogIsSame, LinesAlike, LinesSameIs DEF LinesSame
  <2>3. \A i : InStage(i)' <=> InStage(i)
    BY <2>1, <2>2 DEF InStage, Fixed
  <2>4. OpensInStage' /\ SlotsAgain' /\ AttachesSlots' /\ \A x \in Left' : BeginsFree(x)'
    BY <1>0, <2>1 DEF RoundKept, OpensInStage, SlotsAgain, AttachesSlots, BeginsFree, Has, Fixed, Rounding
  <2> QED
    BY <1>0, <2>1, <2>3, <2>4 DEF RoundKept, Fixed, Has
<1> QED
  BY <1>4, <1>5, <1>6, <1>7, <1>9, <1>10, <1>11, <1>12, <1>13, <1>14, <1>15, <1>16,
     <1>17, <1>18, <1>19, <1>20, <1>21, <1>22, <1>23, <1>24, <1>25, <1>26, <1>27, <1>28, <1>29,
     <1>30, <1>32, <1>33, <1>34, <1>35, <1>36, <1>37, <1>38, <1>39, <1>40
     DEF Next, Handle, Scan, Report, Operate, Containers, Aside

-----------------------------------------------------------------------------
(* The sign-off. *)

SignOffOpen(t) == Pending(t) /\ log[t].phase = "Evaluation"

\* A step that leaves the round, and what is going to write it, as they are.
LEMMA SignOffStays ==
    ASSUME SignOffKept, Fixed, Tasks' = Tasks,
           \A t \in Tasks : SignOffOpen(t)' => SignOffOpen(t),
           slice' # None \/ ~Rounding, slice'.round = slice.round,
           \A x \in Left : x.op \in {"recover", "rebuild", "slots"} => x \in Left'
    PROVE  SignOffKept'
<1> SUFFICES ASSUME NEW t \in Tasks, SignOffOpen(t)' PROVE SignedOff(t)'
  BY DEF SignOffKept, SignOffOpen
<1>1. SignedOff(t)
  BY DEF SignOffKept, SignOffOpen
<1>2. CASE Has("recover") \/ Has("rebuild")
  BY <1>2 DEF SignedOff, Has
<1>3. CASE \E x \in Left : x.op = "slots" /\ x.of = "all" /\ x.n = Len(Stages)
  BY <1>3 DEF SignedOff, Fixed
<1>4. CASE /\ Rounding /\ slice.round.stage = Len(Stages)
           /\ slice.round.slot[Approval] = [task |-> t, out |-> "open"]
  BY <1>4 DEF SignedOff, Fixed, Rounding
<1> QED
  BY <1>1, <1>2, <1>3, <1>4 DEF SignedOff

LEMMA SignOffNone ==
    ASSUME \A t \in Tasks' : ~SignOffOpen(t)'
    PROVE  SignOffKept'
BY DEF SignOffKept, SignOffOpen

\* A sign-off that is open is the last task of all, of the cycle of the slice.
LEMMA SignOffIs ==
    ASSUME Kept, OneTask, NEW t \in Tasks, SignOffOpen(t)
    PROVE  /\ Open(t) /\ job = "Evaluation" /\ approval /\ log[t].about = Approval
           /\ Stages # <<>> /\ Len(Stages) \in 1..Len(Stages) /\ Stages[Len(Stages)] = {Approval}
           /\ Approval \in Evaluators
           /\ \A x \in Left : ~Opening(x)
           /\ slice # None => /\ Latest(LineOf(Approval)) = t
<1>1. KindTyped /\ LogTyped /\ OpenAlone
  BY KeptIs
<1>2. Open(t) /\ Alone(t)
  BY <1>1 DEF SignOffOpen, Open, OpenAlone
<1>3. job = "Evaluation" /\ approval /\ log[t].about = Approval /\ \A x \in Left : ~Opening(x)
  BY <1>2 DEF Alone, SignOffOpen
<1>4. Stages # <<>> /\ Len(Stages) \in 1..Len(Stages) /\ Stages[Len(Stages)] = {Approval}
  <2>1. /\ Len(Stages) = Len(kind.stages) + 1 /\ Stages[Len(Stages)] = {Approval}
        /\ Len(kind.stages) \in Nat
    <3>1. /\ Len(Stages) = Len(kind.stages) + (IF approval THEN 1 ELSE 0)
          /\ Stages[Len(Stages)] = {Approval} /\ Len(kind.stages) \in Nat
      BY <1>1, <1>3, StagesAre, LenProperties
    <3> QED
      BY <1>3, <3>1
  <2>2. Len(<<>>) = 0
    OBVIOUS
  <2> QED
    BY <2>1, <2>2
<1>5. Approval \in Evaluators
  BY <1>1, <1>4, EvaluatorsAre
<1>6. ASSUME slice # None PROVE Latest(LineOf(Approval)) = t
  <2>1. t = Len(log) /\ log[t].cycle = slice.cycle
    BY <1>2, <1>3, <1>6 DEF Alone, SignOffOpen
  <2>2. t \in LineOf(Approval)
    BY <1>3, <2>1 DEF LineOf, Lineage, SignOffOpen
  <2>3. PICK ts : ts = LineOf(Approval)
    OBVIOUS
  <2>4. ts \subseteq 1..Len(log) /\ Latest(ts) \in ts /\ \A u \in ts : u <= Latest(ts)
    BY <1>1, <2>2, <2>3, LineageIs DEF LineOf
  <2>5. Len(log) \in Nat
    BY <1>1, TasksAre
  <2> QED
    BY <2>1, <2>2, <2>3, <2>4, <2>5
<1> QED
  BY <1>2, <1>3, <1>4, <1>5, <1>6

\* The chore at the head does not open a sign-off that is open, and has none open.
LEMMA SignOffHead ==
    ASSUME Kept, OneTask, ~Idle, Opening(todo[1]), Tasks' = Tasks,
           \A t \in Tasks : SignOffOpen(t)' => SignOffOpen(t)
    PROVE  SignOffKept'
<1>1. todo[1] \in Left
  BY KeptIs
<1>2. \A t \in Tasks : ~SignOffOpen(t)
  BY <1>1, SignOffIs
<1> QED
  BY <1>2, SignOffNone

\* The sign-off is launched: its slot is going to be written.
LEMMA SignOffLaunched ==
    ASSUME Kept, OneTask, OneInbox, LaunchEvaluator
    PROVE  SignOffKept'
<1>0. TypeOK /\ KindTyped /\ LogTyped /\ TodoTyped /\ RoundKept /\ After \subseteq Left
  BY KeptIs
<1>1. /\ ~Idle /\ todo[1].op = "launch" /\ todo[1] \in Left /\ Fixed /\ slice' = slice
      /\ todo[1].of \in Evaluators
  BY <1>0, KeptIs, LaunchEvaluatorIs
<1>2. PICK r \in TaskRecords :
        /\ Adds(r) /\ r.about = todo[1].of
        /\ \/ EvType[todo[1].of] = "human" /\ r.st = "Pending" /\ Left' = After
           \/ r.st = "Running"
  BY <1>0, <1>1, LaunchEvaluatorIs
<1>3. \A t \in Tasks : ~SignOffOpen(t)
  BY <1>1, SignOffIs DEF Opening, Opens
<1>4. \A t \in Tasks : ~SignOffOpen(t)'
  BY <1>2, <1>3 DEF Adds, SignOffOpen, Pending
<1>5. CASE r.st = "Running"
  <2>1. \A t \in Tasks' : ~SignOffOpen(t)'
    BY <1>2, <1>4, <1>5 DEF Adds, SignOffOpen, Pending
  <2> QED
    BY <2>1, SignOffNone
<1>6. CASE EvType[todo[1].of] = "human" /\ Left' = After
  <2>1. todo[1].of = Approval
    BY <1>0, <1>1, <1>6, OneInboxIs
  <2>2. Stale(Approval)
    BY <1>1, <2>1 DEF Kept, SlotsKept, LaunchesCovered
  <2>3. PICK y \in Left : y.op = "rebuild" \/ (y.op = "slots" /\ Approval \in Covers(y))
    BY <2>2 DEF Stale
  <2>4. y \in After
    BY <1>1, <2>3, KeptIs
  <2>5. CASE y.op = "rebuild"
    <3>1. Has("rebuild")'
      BY <1>6, <2>4, <2>5 DEF Has
    <3> QED
      BY <3>1 DEF SignOffKept, SignedOff
  <2>6. CASE y.op = "slots" /\ Approval \in Covers(y)
    <3>1. y.of = "all"
      <4>1. y.of # "all" => y.of # Approval
        BY <1>0, <2>6 DEF RoundKept, SlotsAgain
      <4> QED
        BY <2>6, <4>1 DEF Covers
    <3>2. y.n \in 1..Len(Stages) /\ Approval \in Stages[y.n]
      <4>1. y.of \notin Evaluators
        BY <1>0, <3>1, EvaluatorsAre
      <4> QED
        BY <1>0, <2>6, <3>1, <4>1 DEF TodoTyped, ChoreTyped, Covers
    <3>3. y.n = Len(Stages)
      BY <1>0, <3>2, SignOffStage
    <3>4. \E x \in Left' : x.op = "slots" /\ x.of = "all" /\ x.n = Len(Stages)'
      BY <1>1, <1>6, <2>4, <2>6, <3>1, <3>3 DEF Fixed
    <3> QED
      BY <3>4 DEF SignOffKept, SignedOff
  <2> QED
    BY <2>3, <2>5, <2>6
<1> QED
  BY <1>2, <1>5, <1>6

\* The slot of the sign-off is written, or is left as it is.
LEMMA SignOffInstalled ==
    ASSUME Kept, OneTask, InstallSlots
    PROVE  SignOffKept'
<1>0. TypeOK /\ KindTyped /\ TodoTyped /\ RoundKept /\ SignOffKept /\ After \subseteq Left
  BY KeptIs
<1>1. /\ ~Idle /\ todo[1].op = "slots" /\ todo[1] \in Left /\ Left = {todo[1]} \cup After
      /\ Rounding /\ Rounding' /\ slice # None
      /\ slice'.round.stage = IF todo[1].of = "all" THEN todo[1].n ELSE slice.round.stage
      /\ \A ev \in Evaluators :
           slice'.round.slot[ev] =
             IF ev \in (IF todo[1].of = "all" THEN Stages[todo[1].n] ELSE {todo[1].of})
               THEN [task |-> Latest(Lineage("Evaluation", slice.cycle, ev)), out |-> "open"]
               ELSE slice.round.slot[ev]
  BY <1>0, KeptIs, InstallSlotsIs DEF Rounding
<1>2. Fixed /\ SameTasks /\ Left' = After
  BY <1>0, InstallSlotsCalm DEF Calm
<1>3. ~Has("rebuild") /\ ~Has("recover") /\ \A x \in After : x.op \in {"attach", "sweep"}
  <2>1. ~Has("rebuild") /\ \A x \in After : x.op \in {"attach", "sweep"}
    BY <1>0, <1>1, NoRebuild DEF Busy
  <2> QED
    BY <1>1, <2>1 DEF Has
<1> SUFFICES ASSUME NEW t \in Tasks, SignOffOpen(t) PROVE SignedOff(t)'
  BY <1>2 DEF SignOffKept, SignOffOpen, SameTasks, Alike, Pending
<1>4. /\ Len(Stages) \in 1..Len(Stages) /\ Stages[Len(Stages)] = {Approval}
      /\ Approval \in Evaluators /\ Latest(LineOf(Approval)) = t
  BY <1>1, SignOffIs
<1>5. Len(Stages)' = Len(Stages)
  BY <1>2 DEF Fixed
<1>6. CASE todo[1].of = "all"
  <2>1. \A ev \in Evaluators : slice.round.slot[ev].out # "open"
    BY <1>0, <1>1, <1>6 DEF RoundKept, SlotsAgain
  <2>2. SignedOff(t)
    BY <1>0 DEF SignOffKept, SignOffOpen
  <2>3. \E x \in Left : x.op = "slots" /\ x.of = "all" /\ x.n = Len(Stages)
    BY <1>3, <1>4, <2>1, <2>2 DEF SignedOff
  <2>4. todo[1].n = Len(Stages)
    BY <1>1, <1>3, <2>3
  <2>5. slice'.round.slot[Approval] = [task |-> Latest(LineOf(Approval)), out |-> "open"]
    BY <1>1, <1>4, <1>6, <2>4 DEF LineOf
  <2> QED
    BY <1>1, <1>4, <1>5, <1>6, <2>4, <2>5 DEF SignedOff
<1>7. CASE todo[1].of # "all"
  <2>1. todo[1].of # Approval
    BY <1>0, <1>1, <1>7 DEF RoundKept, SlotsAgain
  <2>2. SignedOff(t)
    BY <1>0 DEF SignOffKept, SignOffOpen
  <2>3. /\ slice.round.stage = Len(Stages)
        /\ slice.round.slot[Approval] = [task |-> t, out |-> "open"]
    BY <1>1, <1>3, <1>7, <2>2 DEF SignedOff
  <2> QED
    BY <1>1, <1>4, <1>5, <1>7, <2>1, <2>3 DEF SignedOff
<1> QED
  BY <1>6, <1>7

\* The round a restart reads waits for the sign-off that is open.
LEMMA SignOffRebuilt ==
    ASSUME Kept, OneTask, Rebuild
    PROVE  SignOffKept'
<1>0. TypeOK /\ KindTyped /\ LogTyped
  BY KeptIs
<1>1. /\ Fixed /\ SameTasks /\ slice # None /\ Rounding' /\ Stages # <<>>
      /\ slice'.round = RoundFromLog(slice.cycle) /\ slice.cycle \in Nat
  BY <1>0, RebuildIs DEF Calm
<1> SUFFICES ASSUME NEW t \in Tasks, SignOffOpen(t) PROVE SignedOff(t)'
  BY <1>1 DEF SignOffKept, SignOffOpen, SameTasks, Alike, Pending
<1>2. /\ Len(Stages) \in 1..Len(Stages) /\ Stages[Len(Stages)] = {Approval}
      /\ Approval \in Evaluators /\ Latest(LineOf(Approval)) = t
  BY <1>1, SignOffIs
<1>3. PICK c : c = slice.cycle
  OBVIOUS
<1>4. PICK round : round = RoundFromLog(c)
  OBVIOUS
<1>5. Latest(Lineage("Evaluation", c, Approval)) = t /\ t # 0 /\ log[t].st = "Pending"
  BY <1>0, <1>2, <1>3, TasksAre DEF LineOf, SignOffOpen, Pending
<1>6. /\ round.stage \in 1..Len(Stages)
      /\ \A ev \in Evaluators :
           ev \in Stages[round.stage] =>
             round.slot[ev].task = Latest(Lineage("Evaluation", c, ev))
      /\ \A ev \in Stages[round.stage] :
           LET last == Latest(Lineage("Evaluation", c, ev))
           IN  last # 0 /\ log[last].st \notin {"Done", "Failed"} => round.slot[ev].out = "open"
      /\ \A j \in 1..Len(Stages) : \A ev \in Stages[j] :
           Latest(Lineage("Evaluation", c, ev)) # 0 => j <= round.stage
      /\ round \in Rounds(Evaluators)
  BY <1>0, <1>1, <1>3, <1>4, RoundFromLogIs
<1>7. round.stage = Len(Stages)
  <2>1. Len(Stages) <= round.stage
    BY <1>2, <1>5, <1>6
  <2>2. Len(Stages) \in Nat
    BY <1>0, EvaluatorsAre
  <2> QED
    BY <1>6, <2>1, <2>2
<1>8. round.slot[Approval].task = t /\ round.slot[Approval].out = "open"
  BY <1>2, <1>5, <1>6, <1>7
<1>9. round.slot[Approval] = [task |-> t, out |-> "open"]
  <2>1. round.slot[Approval] \in [task : Nat, out : Outcomes]
    BY <1>2, <1>6 DEF Rounds
  <2> QED
    BY <1>8, <2>1
<1> QED
  BY <1>1, <1>3, <1>4, <1>7, <1>9 DEF SignedOff, Fixed

\* A sign-off is open when another task ends: no slot of it is closed.
LEMMA SignOffEnd ==
    ASSUME Kept, OneTask, NEW t \in Tasks, TaskEnds(t), Idle
    PROVE  SignOffKept'
<1>0. TypeOK /\ SignOffKept /\ Left = {}
  BY KeptIs
<1>1. Fixed /\ Tasks' = Tasks
  BY DEF TaskEnds
<1>2. \A u \in Tasks : /\ log'[u].phase = log[u].phase
                       /\ log'[u].st = log[u].st \/ (u = t /\ log'[u].st \in {"Done", "Failed"})
  BY <1>0, EndsKeep
<1>3. \A u \in Tasks : SignOffOpen(u)' => SignOffOpen(u) /\ log'[u].st = "Pending"
  BY <1>2 DEF SignOffOpen, Pending
<1>4. CASE slice' = slice
  <2>1. slice' # None \/ ~Rounding
    BY <1>4 DEF Rounding
  <2> QED
    BY <1>0, <1>1, <1>3, <1>4, <2>1, SignOffStays
<1>5. CASE SlotEnded(t)
  <2>1. PICK out \in {"infra", "pass", "fail", "abort"} :
         IF out = "infra" THEN log'[t].st = "Failed" ELSE log'[t].st = "Done"
    BY <1>5 DEF SlotEnded
  <2>2. log'[t].st # "Pending"
    BY <2>1
  <2> SUFFICES ASSUME NEW u \in Tasks, SignOffOpen(u)' PROVE SignedOff(u)'
    BY <1>1 DEF SignOffKept, SignOffOpen
  <2>3. SignOffOpen(u) /\ u # t
    BY <1>3, <2>2
  <2>4. /\ Rounding /\ slice.round.stage = Len(Stages)
        /\ slice.round.slot[Approval] = [task |-> u, out |-> "open"]
    BY <1>0, <2>3 DEF SignOffKept, SignOffOpen, SignedOff, Has
  <2>5. slice.round.slot[log[t].about] = [task |-> t, out |-> "open"]
    BY <1>5 DEF SlotEnded, OpenSlot
  <2>6. log[t].about # Approval
    BY <2>3, <2>4, <2>5
  <2>7. Approval \in Evaluators
    BY <2>3, SignOffIs
  <2> QED
    BY <1>1, <1>5, <2>4, <2>6, <2>7 DEF SignedOff, SlotEnded, Fixed
<1> QED
  BY <1>4, <1>5 DEF TaskEnds, TaskKept, WorkEnded, SlotAgain, SlotNone

LEMMA SignOffNext ==
    ASSUME Kept, OneTask, OneInbox, [Next]_vars
    PROVE  SignOffKept'
<1>0. /\ TypeOK /\ KindTyped /\ LogTyped /\ SliceTyped /\ TodoTyped /\ CyclesKept /\ OpenAlone /\ RoundKept
      /\ SignOffKept /\ After \subseteq Left /\ (Idle => Left = {} /\ After = {})
      /\ (~Idle => todo[1] \in Left /\ Left = {todo[1]} \cup After)
  BY KeptIs
<1>1. ASSUME SameTasks PROVE Tasks' = Tasks /\ \A t \in Tasks : SignOffOpen(t)' <=> SignOffOpen(t)
  BY <1>1 DEF SameTasks, Alike, SignOffOpen, Pending
<1>2. ASSUME ~Idle, Opening(todo[1]), SameTasks PROVE SignOffKept'
  BY <1>1, <1>2, SignOffHead
<1>3. ASSUME SameTasks, job # "Evaluation" PROVE SignOffKept'
  <2>1. \A t \in Tasks' : ~SignOffOpen(t)'
    BY <1>1, <1>3, SignOffIs
  <2> QED
    BY <2>1, SignOffNone
<1>4. ASSUME Fixed, SameTasks, slice' = slice,
             \A x \in Left : x.op \in {"recover", "rebuild", "slots"} => x \in Left'
      PROVE  SignOffKept'
  <2>1. slice' # None \/ ~Rounding
    BY <1>4 DEF Rounding
  <2> QED
    BY <1>0, <1>1, <1>4, <2>1, SignOffStays
<1>5. ASSUME ~Idle, todo[1].op \notin {"recover", "rebuild", "slots"}, After \subseteq Left'
      PROVE  \A x \in Left : x.op \in {"recover", "rebuild", "slots"} => x \in Left'
  BY <1>0, <1>5
<1>6. CASE EnterWork
  BY <1>0, <1>2, <1>6, EnterWorkIs DEF Calm, Opening, Opens
<1>7. CASE EnterRefused
  BY <1>0, <1>2, <1>7, EnterRefusedIs DEF Calm, Opening, Opens
<1>8. CASE StartAttempt
  <2>1. ~Idle /\ todo[1].op = "attempt" /\ Opening(todo[1]) /\ todo[1] \in Left
    BY <1>0, <1>8, StartAttemptIs DEF Opening, Opens
  <2>2. CASE Calm
    BY <1>2, <2>1, <2>2 DEF Calm
  <2>3. CASE ~Calm
    <3>1. \E r : Adds(r) /\ r.phase = "Work"
      BY <1>0, <1>8, <2>3, StartAttemptIs
    <3>2. \A t \in Tasks : ~SignOffOpen(t)
      BY <2>1, SignOffIs
    <3>3. \A t \in Tasks' : ~SignOffOpen(t)'
      BY <3>1, <3>2 DEF Adds, SignOffOpen, Pending
    <3> QED
      BY <3>3, SignOffNone
  <2> QED
    BY <2>2, <2>3
<1>9. CASE Unclaim
  <2>1. ~Idle /\ todo[1].op = "unclaim" /\ Fixed /\ SameTasks /\ slice' = slice /\ Left' = After
    BY <1>0, <1>9, UnclaimIs DEF Calm
  <2> QED
    BY <1>4, <1>5, <2>1
<1>10. CASE Place
  <2>1. ~Idle /\ todo[1].op = "place" /\ Fixed /\ SameTasks /\ slice' = slice /\ After \subseteq Left'
    BY <1>0, <1>10, PlaceIs
  <2> QED
    BY <1>4, <1>5, <2>1
<1>11. CASE PlaceFails
  <2>1. ~Idle /\ todo[1].op = "place" /\ SameTasks
    BY <1>0, <1>11, PlaceFailsIs DEF Calm
  <2>2. \A t \in Tasks : ~Pending(t)
    BY <1>0, <2>1 DEF CyclesKept, ChoreKept
  <2>3. \A t \in Tasks' : ~SignOffOpen(t)'
    BY <1>1, <2>1, <2>2 DEF SignOffOpen
  <2> QED
    BY <2>3, SignOffNone
<1>12. CASE Stamp
  <2>1. ~Idle /\ todo[1].op = "stamp" /\ Fixed /\ SameTasks /\ slice' = slice /\ Left' = After
    BY <1>0, <1>12, StampIs
  <2> QED
    BY <1>4, <1>5, <2>1
<1>13. CASE EnterEvaluation
  BY <1>0, <1>2, <1>13, EnterEvaluationIs DEF Calm, Opening, Opens
<1>14. CASE LaunchEvaluator
  BY <1>14, SignOffLaunched
<1>15. CASE InstallSlots
  BY <1>15, SignOffInstalled
<1>16. CASE Settle
  <2>1. /\ ~Idle /\ todo[1].op = "settle" /\ Fixed /\ SameTasks /\ todo[1] \in Left
        /\ slice # None
    BY <1>0, <1>16, SettleIs DEF Calm
  <2>2. CASE slice' = slice /\ Left' = After
    BY <1>4, <1>5, <2>1, <2>2
  <2>3. CASE Settled
    <3>1. ~Has("rebuild") /\ \A x \in After : x.op \in {"attach", "sweep"}
      BY <1>0, <2>1, NoRebuild DEF Busy
    <3>2. \A ev \in Evaluators : slice.round.slot[ev].out # "open"
      BY <1>0, <2>3, <3>1, NothingOpen
    <3>3. ASSUME NEW t \in Tasks, SignOffOpen(t) PROVE FALSE
      <4>1. SignedOff(t) /\ Approval \in Evaluators
        BY <1>0, <3>3, SignOffIs DEF SignOffKept, SignOffOpen
      <4>2. \A x \in Left : x.op \notin {"recover", "rebuild", "slots"}
        BY <1>0, <2>1, <3>1
      <4>3. slice.round.slot[Approval] = [task |-> t, out |-> "open"]
        BY <4>1, <4>2 DEF SignedOff, Has
      <4> QED
        BY <3>2, <4>1, <4>3
    <3>4. \A t \in Tasks' : ~SignOffOpen(t)'
      BY <1>1, <2>1, <3>3
    <3> QED
      BY <3>4, SignOffNone
  <2> QED
    BY <1>0, <1>16, <2>2, <2>3, SettleIs
<1>17. CASE Finalize
  BY <1>0, <1>2, <1>17, FinalizeIs DEF Calm, Opening, Opens
<1>18. CASE Escalate
  BY <1>0, <1>2, <1>18, EscalateIs DEF Calm, Opening, Opens
<1>19. CASE FillInbox
  <2>1. ~Idle /\ todo[1].op = "inbox" /\ Opening(todo[1]) /\ todo[1] \in Left
    BY <1>0, <1>19, FillInboxIs DEF Opening, Opens
  <2>2. PICK r \in TaskRecords : Adds(r) /\ r.phase = "Escalation"
    BY <1>0, <1>19, FillInboxIs
  <2>3. \A t \in Tasks : ~SignOffOpen(t)
    BY <2>1, SignOffIs
  <2>4. \A t \in Tasks' : ~SignOffOpen(t)'
    BY <2>2, <2>3 DEF Adds, SignOffOpen, Pending
  <2> QED
    BY <2>4, SignOffNone
<1>20. CASE Retry
  BY <1>0, <1>2, <1>20, RetriedIs DEF Calm, Opening, Opens
<1>21. CASE PreworkRetry
  BY <1>0, <1>2, <1>21, PreworkRetryIs DEF Calm, Opening, Opens
<1>22. CASE RevokeJob
  <2>1. Tasks' = Tasks /\ \A t \in Tasks : ~Pending(t)'
    <3>1. Tasks' = Tasks
      BY <1>0, <1>22, RevokeJobIs
    <3>2. CASE \A t \in Tasks : log'[t] = IF Pending(t)
                      THEN [log[t] EXCEPT !.st = "Done", !.verdict = "closed"] ELSE log[t]
      <4> SUFFICES ASSUME NEW t \in Tasks PROVE log'[t].st # "Pending"
        BY <3>1 DEF Pending
      <4>1. CASE Pending(t)
        <5>1. log[t] \in TaskRecords
          BY <1>0, TasksAre
        <5> QED
          BY <3>2, <4>1, <5>1 DEF TaskRecords
      <4>2. CASE ~Pending(t)
        BY <3>2, <4>2 DEF Pending
      <4> QED
        BY <4>1, <4>2
    <3>3. CASE log' = log /\ \A t \in Tasks : ~Pending(t)
      BY <3>1, <3>3 DEF Pending
    <3> QED
      BY <1>0, <1>22, <3>1, <3>2, <3>3, RevokeJobIs
  <2>2. \A t \in Tasks' : ~SignOffOpen(t)'
    BY <2>1 DEF SignOffOpen
  <2> QED
    BY <2>2, SignOffNone
<1>23. CASE Recover
  <2>1. SameTasks
    BY <1>0, <1>23, RecoverLeft DEF Calm
  <2>2. CASE \A t \in Tasks : ~SignOffOpen(t)
    BY <1>1, <2>1, <2>2, SignOffNone
  <2>3. CASE \E t \in Tasks : SignOffOpen(t)
    <3>1. job = "Evaluation" /\ Stages # <<>>
      BY <2>3, SignOffIs
    <3>2. Then(RecoverEvaluation(TopCycle))
      BY <1>0, <1>23, <3>1, RecoverLeft
    <3>3. PICK i : i = RoundFromLog(TopCycle).stage
      OBVIOUS
    <3>4. Has("rebuild")'
      BY <1>0, <3>1, <3>2, <3>3, RecoveryLeft
    <3> QED
      BY <3>4 DEF SignOffKept, SignedOff
  <2> QED
    BY <2>2, <2>3
<1>24. CASE Attach
  <2>1. PICK u \in Tasks : u = todo[1].n /\ TaskEnds(u) /\ log[u].phase # "Escalation"
    BY <1>0, <1>24, AttachEnds
  <2>2. ~Idle /\ todo[1].op = "attach" /\ todo[1] \in Left
    BY <1>0, <1>24, AttachEnds
  <2>3. ASSUME NEW t \in Tasks, SignOffOpen(t) PROVE FALSE
    <3>0. Open(t) /\ job = "Evaluation" /\ Alone(t) /\ SignedOff(t) /\ \A x \in Left : ~Opening(x)
      BY <1>0, <2>3, SignOffIs DEF OpenAlone, SignOffKept, SignOffOpen
    <3>1. CASE log[u].phase = "Work"
      BY <1>0, <2>1, <2>2, <3>0, <3>1 DEF CyclesKept, ChoreKept
    <3>2. CASE log[u].phase = "Evaluation"
      <4>1. slice = None
        BY <2>1, <2>2, <3>0, <3>2 DEF Opening
      <4>2. \A x \in Left : x.op \notin {"recover", "rebuild", "slots"}
        <5>1. \A x \in After : x.op \in {"attach", "sweep"}
          BY <1>0, <2>2, NoRebuild DEF Busy
        <5> QED
          BY <1>0, <2>2, <5>1
      <4> QED
        BY <3>0, <4>1, <4>2 DEF SignedOff, Has, Rounding
    <3>3. log[u].phase \in {"Work", "Evaluation", "Escalation"}
      BY <1>0, TasksAre DEF TaskRecords
    <3> QED
      BY <2>1, <3>1, <3>2, <3>3
  <2>4. \A t \in Tasks' : ~SignOffOpen(t)'
    <3>1. \A t \in Tasks : /\ log'[t].phase = log[t].phase
                           /\ log'[t].st = log[t].st \/ log'[t].st \in {"Done", "Failed"}
      BY <1>0, <2>1, EndsKeep
    <3>2. Tasks' = Tasks
      BY <2>1 DEF TaskEnds
    <3> QED
      BY <2>3, <3>1, <3>2 DEF SignOffOpen, Pending
  <2> QED
    BY <2>4, SignOffNone
<1>25. CASE Rebuild
  BY <1>25, SignOffRebuilt
<1>26. CASE Sweep
  <2>1. ~Idle /\ todo[1].op = "sweep" /\ Fixed /\ SameTasks /\ slice' = slice /\ Left' = {}
    BY <1>0, <1>26, SweepIs
  <2>2. After = {}
    <3>1. \A x \in After : x.op \in {"attach", "sweep"} /\ todo[1].op \in Before(x.op)
      BY <1>0, <2>1, NoRebuild, AfterIs DEF Busy
    <3>2. \A x \in After : FALSE
      BY <2>1, <3>1 DEF Before
    <3> QED
      BY <3>2
  <2> QED
    BY <1>4, <1>5, <2>1, <2>2
<1>27. CASE StartJob
  BY <1>0, <1>3, <1>27, StartJobIs DEF Calm
<1>28. CASE Revoke
  <2>1. Fixed /\ SameTasks /\ slice' = slice /\ Idle
    BY <1>0, <1>28, RevokeIs DEF Calm
  <2> QED
    BY <1>0, <1>4, <2>1
<1>29. ~DeadlineScan
  BY <1>0, OneInboxIs, DeadlineScanIs
<1>30. ASSUME NEW t \in Tasks, TimeoutScan(t) PROVE SignOffKept'
  BY <1>0, <1>30, TimeoutEnds, SignOffEnd
<1>31. ASSUME NEW t \in Tasks, Exit(t) PROVE SignOffKept'
  BY <1>0, <1>31, ExitEnds, SignOffEnd
<1>32. ASSUME NEW t \in Tasks, ContainerStarted(t) PROVE SignOffKept'
  BY <1>0, <1>4, <1>32, ContainerStartedIs DEF Still
<1>33. ASSUME NEW t \in Tasks, SubmitResult(t) PROVE SignOffKept'
  <2>1. Fixed /\ SameTasks /\ Left' = Left /\ slice' # None /\ slice'.round = slice.round
    BY <1>0, <1>33, SubmitResultIs DEF Still
  <2> QED
    BY <1>0, <1>1, <2>1, SignOffStays
<1>34. ASSUME NEW t \in Tasks, SubmitEval(t) PROVE SignOffKept'
  <2>1. Fixed /\ Left' = Left /\ slice' = slice /\ \E v : Answered(t, "Done", v)
    BY <1>0, <1>34, SubmitEvalIs
  <2>2. Tasks' = Tasks /\ \A u \in Tasks : SignOffOpen(u)' => SignOffOpen(u)
    BY <2>1, AnswerKeeps DEF SignOffOpen, Pending
  <2>3. slice' # None \/ ~Rounding
    BY <2>1 DEF Rounding
  <2> QED
    BY <1>0, <2>1, <2>2, <2>3, SignOffStays
<1>35. ASSUME NEW t \in Tasks, job # "Evaluation", NEW st \in {"Done", "Failed"}, NEW v, Answered(t, st, v)
       PROVE  SignOffKept'
  <2>1. \A u \in Tasks : ~SignOffOpen(u)
    BY <1>35, SignOffIs
  <2>2. \A u \in Tasks' : ~SignOffOpen(u)'
    BY <1>35, <2>1, AnswerKeeps DEF SignOffOpen, Pending
  <2> QED
    BY <2>2, SignOffNone
<1>36. ASSUME NEW t \in Tasks, ResolveEscalation(t) PROVE SignOffKept'
  <2>1. job # "Evaluation" /\ Answered(t, "Done", "acted")
    BY <1>0, <1>36, ResolveEscalationIs
  <2> QED
    BY <1>35, <2>1
<1>37. ASSUME NEW t \in Tasks, ResolveWork(t) PROVE SignOffKept'
  <2>1. job # "Evaluation" /\ (Answered(t, "Done", "pass") \/ Answered(t, "Failed", "fail"))
    BY <1>0, <1>37, ResolveWorkIs
  <2> QED
    BY <1>35, <2>1
<1>38. ASSUME NEW t \in Tasks, ResolveEval(t) PROVE SignOffKept'
  <2>1. Pending(t) /\ \E v : Answered(t, "Done", v)
    BY <1>0, <1>38, ResolveEvalIs
  <2>2. \A u \in Tasks : Open(u) => u = t
    BY <1>0, <2>1, OpenOnly DEF Open
  <2>3. \A u \in Tasks' : ~SignOffOpen(u)'
    <3>1. PICK v : Answered(t, "Done", v)
      BY <2>1
    <3>2. Tasks' = Tasks /\ log'[t].st = "Done" /\ \A u \in Tasks \ {t} : log'[u] = log[u]
      BY <3>1 DEF Answered
    <3> QED
      BY <2>2, <3>2 DEF SignOffOpen, Pending, Open
  <2> QED
    BY <2>3, SignOffNone
<1>39. CASE SetRequireApproval
  BY <1>0, <1>3, <1>39, ApprovalIs
<1>40. CASE Restart
  <2> DEFINE first == [op |-> "recover", cycle |-> 0, n |-> 0, of |-> "none"]
  <2>1. Has("recover")'
    <3>1. Left' = {first, [op |-> "sweep", cycle |-> 0, n |-> 0, of |-> "none"]}
      BY <1>0, <1>40, RestartLeft
    <3>2. PICK x : x = first
      OBVIOUS
    <3>3. x \in Left'
      BY <3>1, <3>2
    <3>4. x.op = "recover"
      BY <3>2
    <3> QED
      BY <3>3, <3>4 DEF Has
  <2> QED
    BY <2>1 DEF SignOffKept, SignedOff
<1>41. CASE Aside
  BY <1>0, <1>4, <1>41, AsideIs
<1> QED
  BY <1>6, <1>7, <1>8, <1>9, <1>10, <1>11, <1>12, <1>13, <1>14, <1>15, <1>16,
     <1>17, <1>18, <1>19, <1>20, <1>21, <1>22, <1>23, <1>24, <1>25, <1>26, <1>27, <1>28, <1>29,
     <1>30, <1>31, <1>32, <1>33, <1>34, <1>36, <1>37, <1>38, <1>39, <1>40, <1>41
     DEF Next, Handle, Scan, Report, Operate, Containers, Aside

-----------------------------------------------------------------------------
(* The inductive invariant, and what follows from it alone. *)

LEMMA KindFixed ==
    ASSUME [Next]_vars
    PROVE  kind' = kind
<1>1. CASE Next
  <2>1. CASE Handle
    BY <2>1 DEF Handle, EnterWork, EnterRefused, StartAttempt, Unclaim, Place, PlaceFails, Stamp,
       EnterEvaluation, LaunchEvaluator, InstallSlots, Settle, Finalize, Escalate, FillInbox, Retry,
       PreworkRetry, RevokeJob, Recover, Attach, Rebuild, Sweep
  <2>2. CASE StartJob \/ Scan \/ Report \/ Containers \/ Drain \/ Restart
    BY <2>2 DEF StartJob, Scan, Report, Containers, Drain, Restart, DeadlineScan, TimeoutScan, Exit,
       ContainerStarted, SubmitResult, SubmitEval, Push, BoxEnds, Vanish
  <2>3. CASE Operate
    BY <2>3 DEF Operate, ResolveEscalation, ResolveWork, ResolveEval, ClaimJob, UnclaimJob,
       SetRequireApproval, Revoke
  <2> QED
    BY <1>1, <2>1, <2>2, <2>3 DEF Next
<1>2. CASE UNCHANGED vars
  BY <1>2 DEF vars
<1> QED
  BY <1>1, <1>2

LEMMA KeptNext ==
    ASSUME Kept, [Next]_vars
    PROVE  Kept'
<1>1. TypeOK'
  BY NextTyped, StutterTyped DEF Kept
<1>2. RevokedKept' /\ SlotsKept' /\ HumansWait' /\ Ranked'
  BY RevokedNext, SlotsNext, HumansNext, RankedNext DEF Kept
<1> QED
  BY <1>1, <1>2 DEF Kept

LEMMA OneTaskNext ==
    ASSUME Kept, OneInbox => OneTask, [Next]_vars
    PROVE  OneInbox' => OneTask'
<1>1. OneInbox' = OneInbox
  BY KindFixed, OneInboxStays
<1>2. CASE OneInbox
  <2>1. OpenAlone' /\ CyclesKept' /\ RoundKept' /\ SignOffKept'
    BY <1>2, OpenNext, CyclesNext, RoundNext, SignOffNext
  <2> QED
    BY <2>1 DEF OneTask
<1> QED
  BY <1>1, <1>2

LEMMA KeptInit ==
    ASSUME Init
    PROVE  Kept /\ OneTask
<1>1. /\ Tasks = {} /\ Left = {} /\ job = "Ready" /\ todo = <<>> /\ slice = None
      /\ DOMAIN todo = {}
  BY DEF Init, Tasks, Left
<1>2. TypeOK
  BY InitTyped
<1>3. ~Has("revoke") /\ ~Has("recover") /\ ~Has("rebuild") /\ ~Rounding
  BY <1>1 DEF Has, Rounding
<1>4. RevokedKept /\ HumansWait /\ Ranked
  BY <1>1, <1>3 DEF RevokedKept, HumansWait, Ranked, Ranks
<1>5. SlotsKept
  BY <1>1, <1>3 DEF SlotsKept, LaunchesCovered, SlotsFilled, SlotsTrue
<1>6. OpenAlone /\ CyclesKept /\ SignOffKept
  BY <1>1 DEF OpenAlone, CyclesKept, SignOffKept
<1>7. RoundKept
  BY <1>1, <1>3 DEF RoundKept, OpensInStage, SlotsAgain, AttachesSlots
<1> QED
  BY <1>2, <1>4, <1>5, <1>6, <1>7 DEF Kept, OneTask

\* What every state keeps: the types, the slots, the chores in their order, and,
\* where a human has one inbox, at most one task that is open.
LEMMA AlwaysKept == Spec => [](Kept /\ (OneInbox => OneTask))
<1>1. Init => Kept /\ (OneInbox => OneTask)
  BY KeptInit
<1>2. Kept /\ (OneInbox => OneTask) /\ [Next]_vars => (Kept /\ (OneInbox => OneTask))'
  BY KeptNext, OneTaskNext
<1> QED
  BY <1>1, <1>2, PTL DEF Spec

LEMMA InboxInit ==
    ASSUME Init
    PROVE  InboxKept
  BY DEF Init, InboxKept

\* InboxAlwaysTrue: a parked job has an open escalation task (InboxHolds), a
\* revoked one none (NoInboxAfterRevoke), and none is left open when the job
\* executes again (NoStaleEscalation): escalation.rs, close_pending_tasks and the
\* heal of reconcile.rs, whatever crashes between two writes.
THEOREM InboxAlwaysTrue == Spec => []InboxIsTrue
<1>1. Init => InboxKept
  BY InboxInit
<1>2. Kept /\ InboxKept /\ [Next]_vars => InboxKept'
  BY InboxNext DEF Kept
<1>3. Kept /\ (OneInbox => OneTask) /\ InboxKept => InboxIsTrue
  <2> SUFFICES ASSUME Kept, OneInbox => OneTask, InboxKept PROVE InboxIsTrue
    OBVIOUS
  <2>1. Idle => Left = {}
    BY AfterIs DEF Kept, TypeOK
  <2>2. InboxHolds
    <3> SUFFICES ASSUME Idle, ~draining, job \in {"Escalated", "Stalled"} PROVE HasInbox
      BY DEF InboxHolds, HasInbox
    <3>1. ~Healing
      BY <2>1 DEF Healing
    <3> QED
      BY <3>1 DEF InboxKept
  <2>3. NoInboxAfterRevoke
    BY DEF NoInboxAfterRevoke, Kept, RevokedKept
  <2>4. NoStaleEscalation
    BY DEF NoStaleEscalation, OneTask, OpenAlone, Open, Alone
  <2> QED
    BY <2>2, <2>3, <2>4 DEF InboxIsTrue
<1> QED
  BY <1>1, <1>2, <1>3, AlwaysKept, PTL DEF Spec

LEMMA OneAttemptIs ==
    ASSUME Kept, OneInbox => OneTask
    PROVE  OneAttempt
<1> SUFFICES ASSUME Idle, OneInbox
             PROVE  Cardinality(InFlight) <= 1 /\ (job = "Evaluation" => InFlight = {})
  BY DEF OneAttempt
<1>1. \A t \in InFlight : t = Len(log) /\ job \in {"Work", "Revoked"}
  <2>1. \A t \in InFlight : t \in Tasks /\ Open(t) /\ log[t].phase = "Work"
    BY DEF InFlight, Open, Pending
  <2> QED
    BY <2>1 DEF OneTask, OpenAlone, Alone
<1>2. job = "Evaluation" => InFlight = {}
  BY <1>1
<1>3. CASE InFlight = {}
  BY <1>2, <1>3, FS_EmptySet
<1>4. CASE InFlight # {}
  <2>1. PICK n : n = Len(log)
    OBVIOUS
  <2>2. InFlight = {n}
    BY <1>1, <1>4, <2>1
  <2>3. Cardinality({n}) = 1
    BY FS_Singleton
  <2> QED
    BY <1>2, <2>2, <2>3
<1> QED
  BY <1>3, <1>4

-----------------------------------------------------------------------------
(* One container. *)

\* A restart ends with its sweep, and leaves chores that nothing else leaves.
RestartOps == {"recover", "attach", "rebuild", "sweep"}
RestartEnds ==
    /\ Has("recover") \/ Has("attach") => Has("sweep")
    /\ crashes = 0 => \A x \in Left : x.op \notin RestartOps

\* A container works on the branch only for an attempt that runs, or until the sweep.
BranchFree ==
    \A t \in Tasks : log[t].phase = "Work" /\ box[t] = "up" =>
        log[t].st = "Running" \/ job = "Revoked" \/ Has("sweep")
Reached ==
    /\ OneInbox /\ "unstamped" \notin Faults
    /\ crashes = 0 \/ Faults \cap {"unreachable", "setup"} = {}

\* The handler goes on with what it had to do, and with no restart.
GoesOn ==
    /\ ~Idle /\ todo[1].op # "sweep" /\ After \subseteq Left'
    /\ \A x \in Left' : x.op \in RestartOps => x \in After

LEMMA HandlerGoesOn ==
    ASSUME TypeOK,
           \/ EnterWork \/ EnterRefused \/ Unclaim \/ Stamp \/ EnterEvaluation \/ InstallSlots
           \/ Settle \/ Finalize \/ Retry \/ PreworkRetry \/ Rebuild
           \/ Place \/ StartAttempt \/ LaunchEvaluator \/ FillInbox
    PROVE  GoesOn
<1>0. TodoTyped /\ KindTyped
  BY DEF TypeOK
<1>1. ASSUME ~Idle, todo[1].op # "sweep", NEW x, x.op \notin RestartOps, Left' = {x} \cup After
      PROVE  GoesOn
  BY <1>1 DEF GoesOn
<1>2. ASSUME ~Idle, todo[1].op # "sweep", Left' = After PROVE GoesOn
  BY <1>2 DEF GoesOn
<1>3. ASSUME ~Idle, todo[1].op # "sweep", NEW i \in 1..Len(Stages), Then(LaunchStage(i))
      PROVE  GoesOn
  <2>1. /\ After \subseteq Left'
        /\ \A x \in Left' : \/ x.op = "launch"
                            \/ x = [op |-> "slots", cycle |-> 0, n |-> i, of |-> "all"]
                            \/ x \in After
    BY <1>0, <1>3, StageLaunched
  <2>2. \A x \in Left' : x.op = "launch" \/ x.op = "slots" \/ x \in After
    BY <2>1
  <2> QED
    BY <1>3, <2>1, <2>2 DEF GoesOn, RestartOps
<1>4. ASSUME ~Idle, todo[1].op # "sweep", NEW op, op \notin RestartOps, NEW c, NEW n, NEW of,
             Left' = {[op |-> op, cycle |-> c, n |-> n, of |-> of]} \cup After
      PROVE  GoesOn
  <2>1. PICK x : x = [op |-> op, cycle |-> c, n |-> n, of |-> of]
    OBVIOUS
  <2>2. x.op = op /\ Left' = {x} \cup After
    BY <1>4, <2>1
  <2> QED
    BY <1>1, <1>4, <2>2
<1>5. CASE EnterWork
  BY <1>5, <1>4, EnterWorkIs DEF RestartOps
<1>6. CASE EnterRefused
  BY <1>6, <1>4, EnterRefusedIs DEF RestartOps
<1>7. CASE Unclaim
  BY <1>7, <1>2, UnclaimIs
<1>8. CASE Stamp
  BY <1>8, <1>2, StampIs
<1>9. CASE EnterEvaluation
  <2>1. /\ ~Idle /\ todo[1].op = "evaluate"
        /\ \/ Left' = After
           \/ Left' = {[op |-> "finalize", cycle |-> 0, n |-> 0, of |-> "none"]} \cup After
           \/ 1 \in 1..Len(Stages) /\ Then(LaunchStage(1))
    BY <1>9, EnterEvaluationIs
  <2> QED
    BY <2>1, <1>2, <1>3, <1>4 DEF RestartOps
<1>10. CASE InstallSlots
  BY <1>10, <1>2, InstallSlotsIs, InstallSlotsCalm
<1>11. CASE Settle
  <2>1. /\ ~Idle /\ todo[1].op = "settle"
        /\ \/ Left' = After
           \/ slice.round.stage + 1 \in 1..Len(Stages) /\ Then(LaunchStage(slice.round.stage + 1))
           \/ \E why \in {"infra", "abort", "rework"} :
                Left' = {[op |-> "escalate", cycle |-> 0, n |-> 0, of |-> why]} \cup After
           \/ Left' = {[op |-> "finalize", cycle |-> 0, n |-> 0, of |-> "none"]} \cup After
           \/ Left' = {[op |-> "enter", cycle |-> slice.cycle + 1, n |-> 0, of |-> "none"]} \cup After
    BY <1>11, SettleIs
  <2>2. CASE slice.round.stage + 1 \in 1..Len(Stages) /\ Then(LaunchStage(slice.round.stage + 1))
    BY <2>1, <2>2, <1>3
  <2> QED
    BY <2>1, <2>2, <1>2, <1>4 DEF RestartOps
<1>12. CASE Finalize
  BY <1>12, <1>2, FinalizeIs
<1>13. CASE Retry
  <2>1. /\ ~Idle /\ todo[1].op = "retry"
        /\ \/ Left' = {[op |-> "evaluate", cycle |-> 0, n |-> 0, of |-> "none"]} \cup After
           \/ \E n \in Nat : Left' =
                {[op |-> "attempt", cycle |-> slice'.cycle, n |-> n, of |-> "none"]} \cup After
    BY <1>13, RetriedIs
  <2> QED
    BY <2>1, <1>4 DEF RestartOps
<1>14. CASE PreworkRetry
  BY <1>14, <1>2, <1>4, PreworkRetryIs DEF RestartOps
<1>15. CASE Rebuild
  BY <1>15, <1>2, RebuildIs
<1>16. CASE Place
  BY <1>16, PlaceIs DEF GoesOn, RestartOps
<1>17. CASE StartAttempt
  <2>1. /\ ~Idle /\ todo[1].op = "attempt"
        /\ \/ Left' = After
           \/ /\ After \subseteq Left'
              /\ \A x \in Left' : x \in After \/ x.op = "unclaim" \/ x.op = "place"
    BY <1>17, StartAttemptIs
  <2> QED
    BY <2>1, <1>2 DEF GoesOn, RestartOps
<1>18. CASE LaunchEvaluator
  <2>1. /\ ~Idle /\ todo[1].op = "launch"
        /\ \/ Left' = After
           \/ Left' = {[op |-> "place", cycle |-> 0, n |-> Len(log) + 1, of |-> "none"]} \cup After
    BY <1>18, LaunchEvaluatorIs
  <2> QED
    BY <2>1, <1>2, <1>4 DEF RestartOps
<1>19. CASE FillInbox
  BY <1>19, <1>2, FillInboxIs
<1> QED
  BY <1>5, <1>6, <1>7, <1>8, <1>9, <1>10, <1>11, <1>12, <1>13, <1>14, <1>15, <1>16, <1>17, <1>18, <1>19

LEMMA EndGoesOn ==
    ASSUME TypeOK, NEW t \in Tasks, TaskEnds(t)
    PROVE  After \subseteq Left' /\ \A x \in Left' : x.op \in RestartOps => x \in After
<1>1. \A x \in Left' : x.op \in {"attach", "recover", "place", "sweep", "rebuild"} => x \in After
  BY EndsKeep
<1>2. After \subseteq Left'
  BY DEF TaskEnds, TaskKept, WorkEnded, SlotAgain, SlotEnded, SlotNone
<1> QED
  BY <1>1, <1>2 DEF RestartOps

\* The sweep is the last of all.
LEMMA SweepLast ==
    ASSUME TodoTyped, RestartEnds, GoesOn
    PROVE  Has("sweep") => Has("sweep")'
<1>1. Left = {todo[1]} \cup After
  BY AfterIs DEF GoesOn
<1> QED
  BY <1>1 DEF GoesOn, Has

LEMMA RestartGoesOn ==
    ASSUME TodoTyped, RestartEnds, GoesOn, crashes' = crashes
    PROVE  RestartEnds'
<1>1. After \subseteq Left
  BY AfterIs
<1>2. Has("sweep") => Has("sweep")'
  BY SweepLast
<1>3. Has("recover")' => Has("recover")
  BY <1>1 DEF Has, GoesOn, RestartOps
<1>4. Has("attach")' => Has("attach")
  BY <1>1 DEF Has, GoesOn, RestartOps
<1>5. crashes' = 0 => \A x \in Left' : x.op \notin RestartOps
  BY <1>1 DEF GoesOn, RestartEnds
<1> QED
  BY <1>2, <1>3, <1>4, <1>5 DEF RestartEnds

LEMMA NoRestart ==
    ASSUME \A x \in Left' : x.op \notin RestartOps
    PROVE  RestartEnds'
  BY DEF RestartEnds, Has, RestartOps

LEMMA RestartSame ==
    ASSUME RestartEnds, Left' = Left, crashes' = crashes
    PROVE  RestartEnds'
  BY DEF RestartEnds, Has

LEMMA RestartNext ==
    ASSUME TypeOK, RestartEnds, [Next]_vars
    PROVE  RestartEnds'
<1>0. /\ TodoTyped /\ After \subseteq Left /\ (Idle => Left = {} /\ After = {})
      /\ (~Idle => Left = {todo[1]} \cup After)
  BY AfterIs DEF TypeOK
<1>1. CASE \/ EnterWork \/ EnterRefused \/ Unclaim \/ Stamp \/ EnterEvaluation \/ InstallSlots
           \/ Settle \/ Finalize \/ Retry \/ PreworkRetry \/ Rebuild
           \/ Place \/ StartAttempt \/ LaunchEvaluator \/ FillInbox
  <2>1. GoesOn
    BY <1>1, HandlerGoesOn
  <2>2. crashes' = crashes
    BY <1>1 DEF EnterWork, EnterRefused, Unclaim, Stamp, EnterEvaluation, InstallSlots, Settle,
       Finalize, Retry, PreworkRetry, Rebuild, Place, StartAttempt, LaunchEvaluator, FillInbox
  <2> QED
    BY <1>0, <2>1, <2>2, RestartGoesOn
<1>2. CASE PlaceFails
  BY <1>2, PlaceFailsIs, NoRestart
<1>3. CASE Escalate
  <2>1. ~Idle /\ todo[1].op = "escalate" /\ crashes' = crashes
    BY <1>3, EscalateIs DEF Calm
  <2>2. CASE Left' = {[op |-> "inbox", cycle |-> 0, n |-> 0, of |-> "none"]} \cup After
    <3>1. GoesOn
      BY <2>1, <2>2 DEF GoesOn, RestartOps
    <3> QED
      BY <1>0, <2>1, <3>1, RestartGoesOn
  <2>3. CASE Left' = {}
    BY <2>3, NoRestart
  <2> QED
    BY <1>3, <2>2, <2>3, EscalateIs
<1>4. CASE RevokeJob
  <2>1. ~Idle /\ todo[1].op = "revoke" /\ crashes' = crashes /\ (Left' = Left \/ Left' = After)
    BY <1>4, RevokeJobIs
  <2>2. Left' = After => GoesOn
    BY <2>1 DEF GoesOn
  <2> QED
    BY <1>0, <2>1, <2>2, RestartSame, RestartGoesOn
<1>5. CASE Recover
  <2>1. ~Idle /\ todo[1].op = "recover" /\ crashes' = crashes
    BY <1>5, RecoverLeft DEF Calm
  <2>2. Has("recover") /\ crashes # 0
    <3>1. todo[1] \in Left
      BY <1>0, <2>1
    <3> QED
      BY <2>1, <3>1 DEF Has, RestartEnds, RestartOps
  <2>3. After \subseteq Left'
    <3>1. \/ After \subseteq Left'
          \/ Stages # <<>> /\ Then(RecoverEvaluation(TopCycle))
      BY <1>5, RecoverLeft
    <3>2. CASE Stages # <<>> /\ Then(RecoverEvaluation(TopCycle))
      <4>1. KindTyped /\ LogTyped /\ TopCycle \in Nat
        BY TopCycleIs DEF TypeOK
      <4>2. RecoverEvaluation(TopCycle) \in Seq(Chores)
        BY <3>2, <4>1, RecoverEvaluationIs
      <4> QED
        BY <1>0, <3>2, <4>2, ThenLeft
    <3> QED
      BY <3>1, <3>2
  <2>4. Has("sweep")'
    BY <1>0, <2>1, <2>2, <2>3 DEF RestartEnds, Has
  <2> QED
    BY <2>1, <2>2, <2>4 DEF RestartEnds
<1>6. CASE Attach
  <2>1. ~Idle /\ todo[1].op = "attach" /\ crashes' = crashes /\ GoesOn
    BY <1>6, AttachEnds, EndGoesOn DEF Unmoved, GoesOn
  <2> QED
    BY <1>0, <2>1, RestartGoesOn
<1>7. CASE Sweep
  BY <1>7, SweepIs, NoRestart
<1>8. ASSUME Idle, \A x \in Left' : x \in Left \/ x.op \notin RestartOps PROVE RestartEnds'
  BY <1>0, <1>8, NoRestart
<1>9. CASE StartJob
  BY <1>8, <1>9, StartJobIs DEF RestartOps
<1>10. CASE Revoke
  BY <1>8, <1>10, RevokeIs DEF RestartOps
<1>11. CASE DeadlineScan
  BY <1>8, <1>11, DeadlineScanIs DEF RestartOps
<1>12. ASSUME NEW t \in Tasks, Exit(t) \/ TimeoutScan(t) PROVE RestartEnds'
  <2>1. Idle /\ TaskEnds(t)
    BY <1>12, ExitEnds, TimeoutEnds
  <2> QED
    BY <1>0, <1>8, <2>1, EndGoesOn
<1>13. ASSUME NEW t \in Tasks, ContainerStarted(t) \/ SubmitResult(t) \/ SubmitEval(t)
       PROVE  RestartEnds'
  BY <1>8, <1>13, ContainerStartedIs, SubmitResultIs, SubmitEvalIs DEF Still
<1>14. ASSUME NEW t \in Tasks, ResolveEscalation(t) PROVE RestartEnds'
  BY <1>8, <1>14, ResolveEscalationIs DEF RestartOps
<1>15. ASSUME NEW t \in Tasks, ResolveWork(t) PROVE RestartEnds'
  BY <1>8, <1>15, ResolveWorkIs DEF RestartOps
<1>16. ASSUME NEW t \in Tasks, ResolveEval(t) PROVE RestartEnds'
  <2>1. Idle /\ (Left' = Left \/ TaskEnds(t))
    BY <1>16, ResolveEvalIs
  <2> QED
    BY <1>0, <1>8, <2>1, EndGoesOn
<1>17. CASE SetRequireApproval
  BY <1>17, ApprovalIs, NoRestart
<1>18. CASE Restart
  <2> DEFINE sweep == [op |-> "sweep", cycle |-> 0, n |-> 0, of |-> "none"]
  <2>1. crashes' # 0 /\ sweep \in Left'
    BY <1>18, RestartLeft
  <2>2. sweep.op = "sweep"
    OBVIOUS
  <2>3. Has("sweep")'
    BY <2>1, <2>2 DEF Has
  <2> QED
    BY <2>1, <2>3 DEF RestartEnds
<1>19. CASE Aside
  BY <1>19, AsideIs, RestartSame
<1> QED
  BY <1>1, <1>2, <1>3, <1>4, <1>5, <1>6, <1>7, <1>9, <1>10, <1>11, <1>12, <1>13, <1>14,
     <1>15, <1>16, <1>17, <1>18, <1>19
     DEF Next, Handle, Scan, Report, Operate, Containers, Aside

LEMMA CrashesGrow ==
    ASSUME TypeOK, [Next]_vars
    PROVE  crashes' = 0 => crashes = 0
<1>1. crashes \in Nat
  BY DEF TypeOK, JobTyped
<1>2. crashes' = crashes \/ crashes' = crashes + 1
  <2>1. CASE Next
    <3>1. CASE Handle
      BY <3>1 DEF Handle, EnterWork, EnterRefused, StartAttempt, Unclaim, Place, PlaceFails, Stamp,
         EnterEvaluation, LaunchEvaluator, InstallSlots, Settle, Finalize, Escalate, FillInbox,
         Retry, PreworkRetry, RevokeJob, Recover, Attach, Rebuild, Sweep
    <3>2. CASE StartJob \/ Scan \/ Report \/ Containers \/ Drain \/ Restart
      BY <3>2 DEF StartJob, Scan, Report, Containers, Drain, Restart, DeadlineScan, TimeoutScan,
         Exit, ContainerStarted, SubmitResult, SubmitEval, Push, BoxEnds, Vanish, memory
    <3>3. CASE Operate
      BY <3>3 DEF Operate, ResolveEscalation, ResolveWork, ResolveEval, ClaimJob, UnclaimJob,
         SetRequireApproval, Revoke, memory
    <3> QED
      BY <2>1, <3>1, <3>2, <3>3 DEF Next
  <2>2. CASE UNCHANGED vars
    BY <2>2 DEF vars
  <2> QED
    BY <2>1, <2>2
<1> QED
  BY <1>1, <1>2

LEMMA ReachedBefore ==
    ASSUME TypeOK, [Next]_vars, Reached'
    PROVE  Reached
<1>1. kind' = kind
  BY KindFixed
<1>2. Faults' = Faults /\ OneInbox' = OneInbox
  BY <1>1, OneInboxStays DEF Faults
<1>3. crashes' = 0 => crashes = 0
  BY CrashesGrow
<1> QED
  BY <1>2, <1>3 DEF Reached

LEMMA BranchStays ==
    ASSUME BranchFree, Tasks' = Tasks, job = "Revoked" => job' = "Revoked",
           Has("sweep") => Has("sweep")',
           \A t \in Tasks : /\ log'[t].phase = log[t].phase
                            /\ log[t].phase = "Work" /\ box'[t] = "up" =>
                                 \/ log'[t].st = "Running"
                                 \/ box[t] = "up" /\ log'[t].st = log[t].st
    PROVE  BranchFree'
  BY DEF BranchFree

LEMMA BranchAdds ==
    ASSUME BranchFree, NEW r, Adds(r), job' = job, Has("sweep") => Has("sweep")'
    PROVE  BranchFree'
<1> SUFFICES ASSUME NEW t \in Tasks', log'[t].phase = "Work", box'[t] = "up"
             PROVE  log'[t].st = "Running" \/ job' = "Revoked" \/ Has("sweep")'
  BY DEF BranchFree
<1>1. t \in Tasks
  BY DEF Adds
<1> QED
  BY <1>1 DEF BranchFree, Adds

LEMMA BranchSwept ==
    ASSUME Has("sweep")'
    PROVE  BranchFree'
  BY DEF BranchFree

LEMMA BranchCalm ==
    ASSUME BranchFree, SameTasks, \A t \in Tasks : box'[t] = "up" => box[t] = "up",
           job = "Revoked" => job' = "Revoked", Has("sweep") => Has("sweep")'
    PROVE  BranchFree'
<1>1. \A t \in Tasks : log'[t].phase = log[t].phase /\ log'[t].st = log[t].st
  BY DEF SameTasks, Alike
<1> QED
  BY <1>1, BranchStays DEF SameTasks

LEMMA BranchAnswered ==
    ASSUME BranchFree, HumansWait, Idle => Left = {}, Idle, job' = job, box' = box,
           NEW t \in Tasks, Pending(t), NEW st \in {"Done", "Failed"}, NEW v, Answered(t, st, v)
    PROVE  BranchFree'
<1>1. box[t] = "none" /\ ~Has("sweep")
  BY DEF HumansWait, Has
<1>2. \A u \in Tasks : log'[u].phase = log[u].phase /\ (u # t => log'[u].st = log[u].st)
  BY DEF Answered
<1>3. Tasks' = Tasks
  BY DEF Answered
<1> QED
  BY <1>1, <1>2, <1>3, BranchStays

LEMMA BranchNext ==
    ASSUME Kept, OneTask, RestartEnds, Reached, BranchFree, [Next]_vars, Reached'
    PROVE  BranchFree'
<1>0. /\ TypeOK /\ TodoTyped /\ After \subseteq Left /\ (Idle => Left = {} /\ After = {})
      /\ (~Idle => Left = {todo[1]} \cup After /\ todo[1] \in Left)
  BY AfterIs DEF Kept, TypeOK
<1>1. Idle => ~Has("sweep")
  BY <1>0 DEF Has
<1>2. ~Idle /\ todo[1].op \notin {"recover", "sweep"} => job # "Revoked"
  BY NotRevoked DEF Kept
<1>3. GoesOn => (Has("sweep") => Has("sweep")')
  BY <1>0, SweepLast
<1>4. CASE \/ EnterWork \/ EnterRefused \/ Unclaim \/ Stamp \/ EnterEvaluation \/ InstallSlots
           \/ Settle \/ Finalize \/ Retry \/ PreworkRetry \/ Rebuild
  <2>1. GoesOn
    BY <1>0, <1>4, HandlerGoesOn
  <2>2. SameTasks /\ box' = box
    BY <1>0, <1>4, PlainIs DEF Plain
  <2>3. todo[1].op # "recover"
    BY <1>0, <1>4, EnterWorkIs, EnterRefusedIs, UnclaimIs, StampIs, EnterEvaluationIs,
       InstallSlotsIs, SettleIs, FinalizeIs, RetriedIs, PreworkRetryIs, RebuildIs
  <2>4. job # "Revoked"
    BY <1>2, <2>1, <2>3 DEF GoesOn
  <2> QED
    BY <1>3, <2>1, <2>2, <2>4, BranchCalm
<1>5. CASE PlaceFails
  <2>1. SameTasks /\ box' = box /\ job' = job /\ "setup" \in Faults
    BY <1>0, <1>5, PlaceFailsIs DEF Calm
  <2>2. ~Has("sweep")
    BY <2>1 DEF Reached, RestartEnds, RestartOps, Has
  <2> QED
    BY <2>1, <2>2, BranchCalm
<1>6. CASE Escalate
  <2>1. ~Idle /\ todo[1].op = "escalate" /\ SameTasks /\ box' = box
    BY <1>0, <1>6, EscalateIs DEF Calm
  <2>2. job \in {"Work", "Evaluation"}
    BY <1>0, <2>1 DEF OneTask, CyclesKept, ChoreKept
  <2>3. GoesOn
    BY <1>0, <1>6, <2>1, <2>2, EscalateIs DEF GoesOn, RestartOps
  <2> QED
    BY <1>3, <2>1, <2>2, <2>3, BranchCalm
<1>7. CASE Place
  <2>1. GoesOn
    BY <1>0, <1>7, HandlerGoesOn
  <2>2. /\ ~Idle /\ todo[1].op = "place" /\ todo[1].n \in Tasks /\ SameTasks /\ job' = job
        /\ \A t \in Tasks : t # todo[1].n => box'[t] = box[t]
    BY <1>0, <1>7, PlaceIs
  <2>3. log[todo[1].n].st = "Running"
    BY <1>0, <2>2 DEF TodoTyped, ChoreTyped
  <2>4. \A t \in Tasks : log'[t].phase = log[t].phase /\ log'[t].st = log[t].st
    BY <2>2 DEF SameTasks, Alike
  <2>5. Tasks' = Tasks
    BY <2>2 DEF SameTasks
  <2> QED
    BY <1>3, <2>1, <2>2, <2>3, <2>4, <2>5, BranchStays
<1>8. CASE StartAttempt
  <2>1. GoesOn /\ job' = job /\ (Calm \/ \E r \in TaskRecords : Adds(r))
    BY <1>0, <1>8, HandlerGoesOn, StartAttemptIs
  <2>2. CASE Calm
    BY <1>3, <2>1, <2>2, BranchCalm DEF Calm
  <2> QED
    BY <1>3, <2>1, <2>2, BranchAdds
<1>9. CASE LaunchEvaluator
  <2>1. GoesOn /\ job' = job /\ \E r \in TaskRecords : Adds(r)
    BY <1>0, <1>9, HandlerGoesOn, LaunchEvaluatorIs
  <2> QED
    BY <1>3, <2>1, BranchAdds
<1>10. CASE FillInbox
  <2>1. GoesOn /\ job' = job /\ \E r \in TaskRecords : Adds(r)
    BY <1>0, <1>10, HandlerGoesOn, FillInboxIs
  <2> QED
    BY <1>3, <2>1, BranchAdds
<1>11. CASE RevokeJob
  <2>1. /\ ~Idle /\ todo[1].op = "revoke" /\ Tasks' = Tasks
        /\ \A t \in Tasks : box'[t] = box[t] \/ (box'[t] = "silent" /\ box[t] = "up")
        /\ \/ /\ job' = job /\ Left' = Left
              /\ \A t \in Tasks : log'[t] = IF Pending(t)
                   THEN [log[t] EXCEPT !.st = "Done", !.verdict = "closed"] ELSE log[t]
           \/ job' = "Revoked"
    BY <1>0, <1>11, RevokeJobIs
  <2>2. CASE job' = "Revoked"
    BY <2>2 DEF BranchFree
  <2>3. CASE /\ job' = job /\ Left' = Left
             /\ \A t \in Tasks : log'[t] = IF Pending(t)
                  THEN [log[t] EXCEPT !.st = "Done", !.verdict = "closed"] ELSE log[t]
    <3>1. \A t \in Tasks : box'[t] = "up" => box[t] = "up"
      BY <2>1
    <3>2. \A t \in Tasks : Pending(t) => box[t] = "none"
      BY DEF Kept, HumansWait
    <3>3. \A t \in Tasks : log'[t].phase = log[t].phase
      <4>1. \A t \in Tasks : log[t] \in TaskRecords
        BY <1>0, TasksAre DEF TypeOK
      <4> QED
        BY <2>3, <4>1 DEF TaskRecords
    <3>4. \A t \in Tasks : ~Pending(t) => log'[t].st = log[t].st
      BY <2>3
    <3>5. \A t \in Tasks : box'[t] = "up" => box[t] = "up" /\ log'[t].st = log[t].st
      <4>1. \A t \in Tasks : box'[t] = "up" => ~Pending(t)
        BY <3>1, <3>2
      <4> QED
        BY <3>1, <3>4, <4>1
    <3>6. Has("sweep") => Has("sweep")'
      BY <2>3 DEF Has
    <3> QED
      BY <2>1, <2>3, <3>3, <3>5, <3>6, BranchStays
  <2> QED
    BY <2>1, <2>2, <2>3
<1>12. CASE Recover
  <2>1. RestartEnds' /\ ~Idle /\ todo[1].op = "recover"
    BY <1>0, <1>12, RestartNext, RecoverLeft
  <2>2. crashes' # 0 /\ SameTasks /\ box' = box /\ job' = job /\ Has("recover")
    <3>1. Has("recover")
      BY <1>0, <2>1 DEF Has
    <3>2. crashes # 0
      BY <3>1 DEF RestartEnds, Has, RestartOps
    <3> QED
      BY <1>0, <1>12, <3>1, <3>2, RecoverLeft DEF Calm
  <2>3. Has("sweep") => Has("sweep")'
    <3>1. After \subseteq Left'
      <4>1. \/ After \subseteq Left'
            \/ Stages # <<>> /\ Then(RecoverEvaluation(TopCycle))
        BY <1>0, <1>12, RecoverLeft
      <4>2. CASE Stages # <<>> /\ Then(RecoverEvaluation(TopCycle))
        <5>1. KindTyped /\ LogTyped /\ TopCycle \in Nat
          BY <1>0, TopCycleIs DEF TypeOK
        <5>2. RecoverEvaluation(TopCycle) \in Seq(Chores)
          BY <4>2, <5>1, RecoverEvaluationIs
        <5> QED
          BY <1>0, <4>2, <5>2, ThenLeft
      <4> QED
        BY <4>1, <4>2
    <3> QED
      BY <1>0, <2>1, <3>1 DEF Has
  <2> QED
    BY <2>2, <2>3, BranchCalm
<1>13. CASE Attach
  <2>1. ~Idle /\ todo[1].op = "attach" /\ todo[1].n \in Tasks /\ TaskEnds(todo[1].n)
    BY <1>0, <1>13, AttachEnds
  <2>2. Has("attach") /\ GoesOn
    BY <1>0, <2>1, EndGoesOn DEF Has, GoesOn
  <2>3. Has("sweep")'
    BY <1>3, <2>2 DEF RestartEnds
  <2> QED
    BY <2>3, BranchSwept
<1>14. CASE Sweep
  <2>1. SameTasks /\ \A t \in Tasks : box'[t] = "up" => log[t].st = "Running"
    <3>1. ~Idle /\ todo[1].op = "sweep"
      BY <1>0, <1>14, SweepIs
    <3>2. "unreachable" \notin Faults
      BY <1>0, <3>1 DEF RestartEnds, RestartOps, Reached
    <3> QED
      BY <1>0, <1>14, <3>2, SweepIs
  <2>2. \A t \in Tasks : log'[t].st = log[t].st
    BY <2>1 DEF SameTasks, Alike
  <2>3. Tasks' = Tasks
    BY <2>1 DEF SameTasks
  <2> QED
    BY <2>1, <2>2, <2>3 DEF BranchFree
<1>15. CASE StartJob
  BY <1>0, <1>1, <1>15, StartJobIs, BranchCalm DEF Calm
<1>16. CASE Revoke
  BY <1>0, <1>1, <1>16, RevokeIs, BranchCalm DEF Calm
<1>17. CASE DeadlineScan
  BY <1>0, <1>17, DeadlineScanIs, OneInboxIs DEF Reached
<1>18. ASSUME NEW t \in Tasks, Exit(t) PROVE BranchFree'
  <2>1. /\ Idle /\ TaskEnds(t) /\ job' = job
        /\ \A u \in Tasks : box'[u] = IF u = t THEN "gone" ELSE box[u]
    BY <1>0, <1>18, ExitEnds DEF Unmoved
  <2>2. \A u \in Tasks : log'[u].phase = log[u].phase /\ (u # t => log'[u].st = log[u].st)
    BY <1>0, <2>1, EndsKeep
  <2>3. Tasks' = Tasks
    BY <1>0, <2>1, EndsKeep
  <2> QED
    BY <1>1, <2>1, <2>2, <2>3, BranchStays
<1>19. ASSUME NEW t \in Tasks, TimeoutScan(t) PROVE BranchFree'
  <2>1. /\ Idle /\ TaskEnds(t) /\ job' = job /\ box'[t] # "up"
        /\ \A u \in Tasks : box'[u] = box[u] \/ (u = t /\ box[u] = "up" /\ box'[u] = "silent")
    BY <1>0, <1>19, TimeoutEnds DEF Unmoved, Reached
  <2>2. \A u \in Tasks : log'[u].phase = log[u].phase /\ (u # t => log'[u].st = log[u].st)
    BY <1>0, <2>1, EndsKeep
  <2>3. Tasks' = Tasks
    BY <1>0, <2>1, EndsKeep
  <2> QED
    BY <1>1, <2>1, <2>2, <2>3, BranchStays
<1>20. ASSUME NEW t \in Tasks, ContainerStarted(t) \/ SubmitResult(t) PROVE BranchFree'
  BY <1>0, <1>1, <1>20, ContainerStartedIs, SubmitResultIs, BranchCalm DEF Still, Unmoved
<1>21. ASSUME NEW t \in Tasks, SubmitEval(t) PROVE BranchFree'
  <2>1. /\ Idle /\ job' = job /\ box' = box /\ log[t].phase = "Evaluation"
        /\ \E v \in {"pass", "fail", "abort"} : Answered(t, "Done", v)
    BY <1>0, <1>21, SubmitEvalIs DEF Unmoved
  <2>2. \A u \in Tasks : log'[u].phase = log[u].phase /\ (u # t => log'[u].st = log[u].st)
    BY <2>1 DEF Answered
  <2>3. Tasks' = Tasks
    BY <2>1 DEF Answered
  <2> QED
    BY <1>1, <2>1, <2>2, <2>3, BranchStays
<1>22. ASSUME NEW t \in Tasks, ResolveEscalation(t) PROVE BranchFree'
  <2>1. Idle /\ job' = job /\ box' = box /\ Pending(t) /\ Answered(t, "Done", "acted")
    BY <1>0, <1>22, ResolveEscalationIs DEF Unmoved
  <2> QED
    BY <1>0, <2>1, BranchAnswered DEF Kept
<1>23. ASSUME NEW t \in Tasks, ResolveWork(t) PROVE BranchFree'
  <2>1. /\ Idle /\ job' = job /\ box' = box /\ Pending(t)
        /\ Answered(t, "Done", "pass") \/ Answered(t, "Failed", "fail")
    BY <1>0, <1>23, ResolveWorkIs DEF Unmoved
  <2> QED
    BY <1>0, <2>1, BranchAnswered DEF Kept
<1>24. ASSUME NEW t \in Tasks, ResolveEval(t) PROVE BranchFree'
  <2>1. /\ Idle /\ job' = job /\ box' = box /\ Pending(t)
        /\ \E v \in {"pass", "fail", "abort"} : Answered(t, "Done", v)
    BY <1>0, <1>24, ResolveEvalIs DEF Unmoved
  <2> QED
    BY <1>0, <2>1, BranchAnswered DEF Kept
<1>25. CASE SetRequireApproval
  BY <1>1, <1>0, <1>25, ApprovalIs, BranchCalm DEF Unmoved
<1>26. CASE Restart
  <2> DEFINE sweep == [op |-> "sweep", cycle |-> 0, n |-> 0, of |-> "none"]
  <2>1. sweep \in Left' /\ sweep.op = "sweep"
    BY <1>0, <1>26, RestartLeft
  <2> QED
    BY <2>1, BranchSwept DEF Has
<1>27. CASE Aside
  <2>1. /\ SameTasks /\ job' = job /\ Left' = Left
        /\ \A t \in Tasks : box'[t] = box[t] \/ box'[t] \in Ended
    BY <1>0, <1>27, AsideIs
  <2>2. \A t \in Tasks : box'[t] = "up" => box[t] = "up"
    BY <2>1 DEF Ended
  <2>3. Has("sweep") => Has("sweep")'
    BY <2>1 DEF Has
  <2> QED
    BY <2>1, <2>2, <2>3, BranchCalm
<1> QED
  BY <1>4, <1>5, <1>6, <1>7, <1>8, <1>9, <1>10, <1>11, <1>12, <1>13, <1>14, <1>15,
     <1>16, <1>17, <1>18, <1>19, <1>20, <1>21, <1>22, <1>23, <1>24, <1>25, <1>26, <1>27
     DEF Next, Handle, Scan, Report, Operate, Containers, Aside

\* AlwaysOneAtATime: at most one attempt at the work is in flight, none once it is
\* evaluated, and no container works on the branch but that of the attempt: what
\* launches, exits, claims, revocations and restarts keep together (exec.rs,
\* reconcile.rs), under the conditions OneAtATime names.
THEOREM AlwaysOneAtATime == Spec => []OneAtATime
<1>1. Init => RestartEnds /\ BranchFree
  BY DEF Init, RestartEnds, BranchFree, Has, Left, Tasks
<1>2. Kept /\ RestartEnds /\ [Next]_vars => RestartEnds'
  BY RestartNext DEF Kept
<1>3. /\ Kept /\ (OneInbox => OneTask) /\ RestartEnds /\ (Reached => BranchFree) /\ [Next]_vars
      => (Reached => BranchFree)'
  <2> SUFFICES ASSUME Kept, OneInbox => OneTask, RestartEnds, Reached => BranchFree, [Next]_vars,
                      Reached'
               PROVE  BranchFree'
    OBVIOUS
  <2>1. Reached
    BY ReachedBefore DEF Kept
  <2> QED
    BY <2>1, BranchNext DEF Reached
<1>4. Kept /\ (OneInbox => OneTask) /\ (Reached => BranchFree) => OneAtATime
  <2> SUFFICES ASSUME Kept, OneInbox => OneTask, Reached => BranchFree PROVE OneAtATime
    OBVIOUS
  <2>1. OneAttempt
    BY OneAttemptIs
  <2>2. Idle => ~Has("sweep")
    BY AfterIs DEF Kept, TypeOK, Has
  <2>3. OneContainer
    BY <2>2 DEF OneContainer, Reached, BranchFree
  <2> QED
    BY <2>1, <2>3 DEF OneAtATime
<1> QED
  BY <1>1, <1>2, <1>3, <1>4, AlwaysKept, PTL DEF Spec

-----------------------------------------------------------------------------
(* What lands. *)

\* The runs without a restart, where a launch that begins makes its container.
Straight == crashes = 0 /\ OneInbox /\ Faults \cap {"setup", "unstamped"} = {}

\* A slot that is about to be written is for a task of the commit the branch is
\* at, and one that is written has such a task, and the verdict of that task.
Sealed ==
    \A x \in Left : x.op = "slots" => \A ev \in Covers(x) :
        \/ LineOf(ev) # {} /\ log[Latest(LineOf(ev))].tip = tip
        \/ \E y \in Left : y.op = "launch" /\ y.of = ev
Passed(t) == log[t].st = "Done" /\ log[t].verdict = "pass"
Signed(ev) ==
    LET slot == slice.round.slot[ev] IN
    slot.out # "none" =>
        /\ slot.task \in LineOf(ev) /\ log[slot.task].tip = tip
        /\ slot.out = "pass" => Passed(slot.task)
RoundSigned == Rounding => \A ev \in Evaluators : Stale(ev) \/ Signed(ev)

\* What was asked of the evaluators has been answered.
Verified ==
    \A ev \in Required :
        LET t == Latest(Lineage("Evaluation", TopCycle, ev)) IN
        t # 0 /\ log[t].st = "Done" /\ log[t].verdict = "pass" /\ log[t].tip = tip
LandsKept ==
    /\ Sealed /\ RoundSigned
    /\ Has("finalize") \/ job = "WrapUp" => Verified
    /\ job = "WrapUp" => Idle

LEMMA LandsNone ==
    ASSUME ~Rounding', \A x \in Left' : x.op \notin {"slots", "finalize"}, job' # "WrapUp"
    PROVE  LandsKept'
  BY DEF LandsKept, Sealed, RoundSigned, Has

\* A step that leaves the round and what is to be written of it alone.
LEMMA SignedStay ==
    ASSUME TypeOK, Sealed, RoundSigned, Fixed, LinesKept, Tasks \subseteq Tasks', tip' = tip,
           slice'.cycle = slice.cycle, slice'.round = slice.round, Rounding' => Rounding,
           \A t \in Tasks : log[t].phase = "Evaluation" =>
             log'[t].tip = log[t].tip /\ (Passed(t) => Passed(t)'),
           \A x : x.op \in SlotOps => (x \in Left' <=> x \in Left)
    PROVE  Sealed' /\ RoundSigned'
<1>0. LogTyped
  BY DEF TypeOK
<1>1. \A ev : LineOf(ev)' = LineOf(ev) /\ Latest(LineOf(ev))' = Latest(LineOf(ev))
  BY LinesSameIs DEF LinesSame
<1>2. \A x : Covers(x)' = Covers(x)
  BY DEF Covers, Fixed
<1>3. \A ev : LineOf(ev) # {} =>
        /\ Latest(LineOf(ev)) \in Tasks /\ log[Latest(LineOf(ev))].phase = "Evaluation"
  BY <1>0, LatestOf
<1>4. Sealed'
  <2> SUFFICES ASSUME NEW x \in Left', x.op = "slots", NEW ev \in Covers(x)'
               PROVE  \/ LineOf(ev)' # {} /\ log'[Latest(LineOf(ev))'].tip = tip'
                      \/ \E y \in Left' : y.op = "launch" /\ y.of = ev
    BY DEF Sealed
  <2>1. x \in Left /\ ev \in Covers(x)
    BY <1>2 DEF SlotOps
  <2>2. CASE LineOf(ev) # {} /\ log[Latest(LineOf(ev))].tip = tip
    BY <1>1, <1>3, <2>2
  <2>3. CASE \E y \in Left : y.op = "launch" /\ y.of = ev
    BY <2>3 DEF SlotOps
  <2> QED
    BY <2>1, <2>2, <2>3 DEF Sealed
<1>5. RoundSigned'
  <2> SUFFICES ASSUME Rounding', NEW ev \in Evaluators PROVE Stale(ev)' \/ Signed(ev)'
    BY DEF RoundSigned, Fixed
  <2>1. CASE Stale(ev)
    BY <1>2, <2>1 DEF Stale, SlotOps
  <2>2. CASE Signed(ev)
    <3>1. PICK s : s = slice.round.slot[ev]
      OBVIOUS
    <3>2. slice'.round.slot[ev] = s
      BY <3>1
    <3>3. s.out # "none" => s.task \in LineOf(ev) /\ log[s.task].tip = tip
                            /\ (s.out = "pass" => Passed(s.task))
      BY <2>2, <3>1 DEF Signed
    <3>4. s.task \in LineOf(ev) => s.task \in Tasks /\ log[s.task].phase = "Evaluation"
      BY DEF LineOf, Lineage
    <3>5. s.out # "none" => s.task \in LineOf(ev)' /\ log'[s.task].tip = tip'
                            /\ (s.out = "pass" => Passed(s.task)')
      BY <1>1, <3>3, <3>4
    <3> QED
      BY <3>2, <3>5 DEF Signed
  <2> QED
    BY <2>1, <2>2 DEF RoundSigned
<1> QED
  BY <1>4, <1>5

LEMMA LandsStay ==
    ASSUME TypeOK, LandsKept, Fixed, LinesKept, Tasks \subseteq Tasks', tip' = tip,
           slice'.cycle = slice.cycle, slice'.round = slice.round, Rounding' => Rounding,
           \A t \in Tasks : log[t].phase = "Evaluation" =>
             log'[t].tip = log[t].tip /\ (Passed(t) => Passed(t)'),
           \A x : x.op \in SlotOps => (x \in Left' <=> x \in Left),
           \A x \in Left' : x.op # "finalize", job' # "WrapUp"
    PROVE  LandsKept'
<1>1. Sealed' /\ RoundSigned'
  BY SignedStay DEF LandsKept
<1> QED
  BY <1>1 DEF LandsKept, Has

LEMMA LandsCalm ==
    ASSUME TypeOK, LandsKept, Fixed, SameTasks, tip' = tip, slice' = slice,
           \A x : x.op \in SlotOps => (x \in Left' <=> x \in Left),
           \A x \in Left' : x.op # "finalize", job' # "WrapUp"
    PROVE  LandsKept'
<1>1. LinesKept /\ Tasks' = Tasks
  BY LinesAlike DEF SameTasks
<1>2. \A t \in Tasks : log'[t].tip = log[t].tip /\ (Passed(t) => Passed(t)')
  BY DEF SameTasks, Alike, Passed
<1> QED
  BY <1>1, <1>2, LandsStay DEF Rounding

\* A stage begins: its slots are about to be written, those before stay.
LEMMA LandsStage ==
    ASSUME TypeOK, Fixed, NEW i \in 1..Len(Stages), Then(LaunchStage(i)),
           \A x \in After : x.op \notin RestartOps \cup SlotOps \cup {"finalize"}, job' # "WrapUp",
           \A ev \in Evaluators \ Stages[i] : Signed(ev)'
    PROVE  LandsKept'
<1>0. KindTyped /\ TodoTyped
  BY DEF TypeOK
<1> DEFINE all == [op |-> "slots", cycle |-> 0, n |-> i, of |-> "all"]
<1>1. PICK s : s = all
  OBVIOUS
<1>2. s.op = "slots" /\ s.of = "all" /\ s.n = i
  BY <1>1
<1>3. /\ \A x \in Left' : (x.op = "launch" /\ x.of \in Stages[i]) \/ x = s \/ x \in After
      /\ \A ev \in Stages[i] : \E x \in Left' : x.op = "launch" /\ x.of = ev
      /\ s \in Left'
  BY <1>0, <1>1, StageLaunched
<1>4. Covers(s)' = Stages[i]
  BY <1>2 DEF Covers, Fixed
<1>5. Sealed'
  <2> SUFFICES ASSUME NEW x \in Left', x.op = "slots", NEW ev \in Covers(x)'
               PROVE  \E y \in Left' : y.op = "launch" /\ y.of = ev
    BY DEF Sealed
  <2>1. x = s
    BY <1>3 DEF SlotOps
  <2> QED
    BY <1>3, <1>4, <2>1
<1>6. RoundSigned'
  <2>1. \A ev \in Stages[i] : Stale(ev)'
    BY <1>2, <1>3, <1>4 DEF Stale
  <2> QED
    BY <2>1 DEF RoundSigned, Fixed
<1>7. ~Has("finalize")'
  BY <1>2, <1>3 DEF Has
<1> QED
  BY <1>5, <1>6, <1>7 DEF LandsKept

\* No container works on the branch while its evaluators do, or after.
LEMMA PushedBefore ==
    ASSUME Kept, OneTask, BranchFree, RestartEnds, crashes = 0, tip' # tip, Aside
    PROVE  job \in {"Work", "Revoked", "Escalated"} /\ ~Has("finalize")
<1>0. TypeOK /\ TodoTyped /\ (Idle => Left = {})
  BY AfterIs DEF Kept, TypeOK
<1>1. \/ \E t \in Tasks : log[t].phase = "Work" /\ (box[t] = "up" \/ Pending(t))
      \/ Idle /\ job = "Escalated"
  BY <1>0, AsideIs
<1>2. CASE Idle /\ job = "Escalated"
  BY <1>0, <1>2 DEF Has
<1>3. ASSUME NEW t \in Tasks, log[t].phase = "Work", box[t] = "up" \/ Pending(t)
      PROVE  job \in {"Work", "Revoked", "Escalated"} /\ ~Has("finalize")
  <2>1. ~Has("sweep")
    BY DEF RestartEnds, RestartOps, Has
  <2>2. Open(t) \/ job = "Revoked"
    BY <1>3, <2>1 DEF BranchFree, Open
  <2>3. CASE Open(t)
    <3>1. job \in {"Work", "Revoked"} /\ \A x \in Left : ~Opening(x)
      BY <1>3, <2>3 DEF OneTask, OpenAlone, Alone
    <3> QED
      BY <3>1 DEF Has, Opening, Opens
  <2>4. CASE job = "Revoked"
    BY <2>4 DEF Kept, RevokedKept, Has
  <2> QED
    BY <2>2, <2>3, <2>4
<1> QED
  BY <1>1, <1>2, <1>3

\* What has no restart has no chore of one.
LEMMA NoRestartLeft ==
    ASSUME Kept, OneTask, RestartEnds, crashes = 0
    PROVE  /\ \A x \in Left : x.op \notin RestartOps
           /\ ~Idle /\ ~Busy => After = {} /\ Left = {todo[1]}
<1>1. \A x \in Left : x.op \notin RestartOps
  BY DEF RestartEnds
<1>2. After \subseteq Left /\ (~Idle => Left = {todo[1]} \cup After)
      /\ (~Busy => \A x \in After : x.op \in {"attach", "sweep"})
  BY KeptIs
<1> QED
  BY <1>1, <1>2 DEF RestartOps

LEMMA LandsInstalled ==
    ASSUME Kept, OneTask, RestartEnds, crashes = 0, LandsKept, InstallSlots
    PROVE  LandsKept'
<1>0. TypeOK /\ KindTyped /\ LogTyped
  BY DEF Kept, TypeOK
<1>1. /\ ~Idle /\ todo[1].op = "slots" /\ Rounding /\ job = "Evaluation" /\ Rounding'
      /\ slice'.cycle = slice.cycle
      /\ \A ev \in Evaluators :
           slice'.round.slot[ev] =
             IF ev \in (IF todo[1].of = "all" THEN Stages[todo[1].n] ELSE {todo[1].of})
               THEN [task |-> Latest(Lineage("Evaluation", slice.cycle, ev)), out |-> "open"]
               ELSE slice.round.slot[ev]
  BY <1>0, InstallSlotsIs
<1>2. Calm /\ job' = job /\ Left' = After
  BY <1>0, InstallSlotsCalm
<1>3. After = {} /\ Left = {todo[1]}
  BY <1>1, NoRestartLeft DEF Busy
<1>4. PICK x : x = todo[1]
  OBVIOUS
<1>5. /\ Fixed /\ SameTasks /\ tip' = tip
      /\ \A ev \in Evaluators :
           slice'.round.slot[ev] = IF ev \in Covers(x) THEN [task |-> Latest(LineOf(ev)), out |-> "open"]
                                   ELSE slice.round.slot[ev]
  BY <1>1, <1>2, <1>4 DEF Calm, Covers, LineOf
<1>6. \A ev : LineOf(ev)' = LineOf(ev) /\ Latest(LineOf(ev))' = Latest(LineOf(ev))
  BY <1>1, <1>5, LinesAlike, LinesSameIs DEF LinesSame
<1>7. \A ev \in Covers(x) : LineOf(ev) # {} /\ log[Latest(LineOf(ev))].tip = tip
  BY <1>1, <1>3, <1>4 DEF LandsKept, Sealed
<1>8. RoundSigned'
  <2> SUFFICES ASSUME NEW ev \in Evaluators PROVE Signed(ev)'
    BY <1>5 DEF RoundSigned, Fixed
  <2>1. CASE ev \in Covers(x)
    <3>1. PICK l : l = Latest(LineOf(ev))
      OBVIOUS
    <3>2. l \in LineOf(ev) /\ log[l].tip = tip
      BY <1>0, <1>7, <2>1, <3>1, LineageIs DEF LineOf
    <3>3. l \in Tasks
      BY <3>2 DEF LineOf, Lineage
    <3>4. log'[l].tip = tip'
      BY <1>5, <3>2, <3>3 DEF SameTasks, Alike
    <3>5. PICK s : s = slice'.round.slot[ev]
      OBVIOUS
    <3>6. s.task = l /\ s.out = "open"
      <4>1. s = [task |-> l, out |-> "open"]
        BY <1>5, <2>1, <3>1, <3>5
      <4> QED
        BY <4>1
    <3>7. l \in LineOf(ev)'
      BY <1>6, <3>2
    <3> QED
      BY <3>4, <3>5, <3>6, <3>7 DEF Signed
  <2>2. CASE ev \notin Covers(x)
    <3>1. ~Stale(ev)
      BY <1>1, <1>3, <1>4, <2>2 DEF Stale
    <3>2. PICK s : s = slice.round.slot[ev]
      OBVIOUS
    <3>3. s.out # "none" => s.task \in LineOf(ev) /\ log[s.task].tip = tip
                            /\ (s.out = "pass" => Passed(s.task))
      BY <1>1, <3>1, <3>2 DEF LandsKept, RoundSigned, Signed
    <3>4. s.task \in LineOf(ev) => s.task \in Tasks
      BY DEF LineOf, Lineage
    <3>5. \A t \in Tasks : log'[t].tip = log[t].tip /\ (Passed(t) => Passed(t)')
      BY <1>5 DEF SameTasks, Alike, Passed
    <3>6. s.out # "none" => s.task \in LineOf(ev)' /\ log'[s.task].tip = tip'
                            /\ (s.out = "pass" => Passed(s.task)')
      BY <1>5, <1>6, <3>3, <3>4, <3>5
    <3>7. slice'.round.slot[ev] = s
      BY <1>5, <2>2, <3>2
    <3> QED
      BY <3>6, <3>7 DEF Signed
  <2> QED
    BY <2>1, <2>2
<1> QED
  BY <1>1, <1>2, <1>3, <1>8 DEF LandsKept, Sealed, Has

LEMMA LandsOneMore ==
    ASSUME Kept, OneTask, RestartEnds, crashes = 0, LandsKept, LaunchEvaluator
    PROVE  LandsKept'
<1>0. TypeOK /\ KindTyped /\ LogTyped /\ TodoTyped /\ LaunchesCovered
  BY DEF Kept, TypeOK, SlotsKept
<1>1. /\ ~Idle /\ todo[1].op = "launch" /\ todo[1] \in Left /\ Left = {todo[1]} \cup After
      /\ Fixed /\ slice' = slice /\ slice # None
      /\ todo[1].of \in Evaluators /\ job = "Evaluation" /\ job' = job /\ tip' = tip
  BY <1>0, KeptIs, LaunchEvaluatorIs
<1>2. PICK r \in TaskRecords :
        /\ Adds(r) /\ r.phase = "Evaluation" /\ r.about = todo[1].of /\ r.cycle = slice.cycle
        /\ r.tip = tip
        /\ \/ Left' = After
           \/ Left' = {[op |-> "place", cycle |-> 0, n |-> Len(log) + 1, of |-> "none"]} \cup After
  BY <1>0, LaunchEvaluatorIs
<1>3. /\ \A x \in Left' : x \in After \/ x.op = "place"
      /\ \A x \in After : x \in Left' /\ x \in Left
  BY <1>1, <1>2
<1>4. PICK one, k, c : one = todo[1].of /\ k = Len(log) + 1 /\ c = slice.cycle
  OBVIOUS
<1>5. /\ Tasks = 1..Len(log) /\ Len(log) \in Nat /\ Tasks' = Tasks \cup {k} /\ k \notin Tasks
      /\ log'[k] = r /\ \A t \in Tasks : log'[t] = log[t]
  BY <1>0, <1>2, <1>4, TasksAre DEF Adds
<1>6. \A ev : ev # one => LineOf(ev)' = LineOf(ev) /\ Latest(LineOf(ev))' = Latest(LineOf(ev))
  <2> SUFFICES ASSUME NEW ev, ev # one
               PROVE  LineOf(ev)' = LineOf(ev) /\ Latest(LineOf(ev))' = Latest(LineOf(ev))
    OBVIOUS
  <2>1. LineOf(ev)' = LineOf(ev)
    BY <1>1, <1>2, <1>4, <1>5 DEF LineOf, Lineage
  <2> QED
    BY <2>1 DEF Latest
<1>7. LineOf(one)' # {} /\ Latest(LineOf(one))' = k
  <2>1. PICK S : S = LineOf(one)'
    OBVIOUS
  <2>2. k \in S /\ S \subseteq 1..k /\ k \in Nat
    BY <1>1, <1>2, <1>4, <1>5, <2>1 DEF LineOf, Lineage
  <2>3. PICK m : m = Latest(S)
    OBVIOUS
  <2>4. m \in S /\ k <= m
    BY <2>2, <2>3, LatestIs
  <2>5. m = k
    BY <2>2, <2>4
  <2> QED
    BY <2>1, <2>2, <2>3, <2>5 DEF Latest
<1>8. \A ev : \A t \in LineOf(ev) : t \in LineOf(ev)' /\ t \in Tasks
  BY <1>1, <1>5 DEF LineOf, Lineage
<1>9. \A x : Covers(x)' = Covers(x)
  BY <1>1 DEF Covers, Fixed
<1>10. Sealed'
  <2> SUFFICES ASSUME NEW x \in Left', x.op = "slots", NEW ev \in Covers(x)'
               PROVE  \/ LineOf(ev)' # {} /\ log'[Latest(LineOf(ev))'].tip = tip'
                      \/ \E y \in Left' : y.op = "launch" /\ y.of = ev
    BY DEF Sealed
  <2>1. x \in Left /\ ev \in Covers(x)
    BY <1>3, <1>9
  <2>2. CASE ev = one
    BY <1>1, <1>2, <1>5, <1>7, <2>2
  <2>3. CASE ev # one
    <3>1. CASE LineOf(ev) # {} /\ log[Latest(LineOf(ev))].tip = tip
      <4>1. Latest(LineOf(ev)) \in Tasks
        BY <1>0, <3>1, LatestOf
      <4> QED
        BY <1>1, <1>5, <1>6, <2>3, <3>1, <4>1
    <3>2. CASE \E y \in Left : y.op = "launch" /\ y.of = ev
      BY <1>1, <1>3, <1>4, <2>3, <3>2
    <3> QED
      BY <2>1, <3>1, <3>2 DEF LandsKept, Sealed
  <2> QED
    BY <2>2, <2>3
<1>11. \A ev : Stale(ev) => Stale(ev)'
  BY <1>1, <1>3, <1>9 DEF Stale
<1>12. RoundSigned'
  <2> SUFFICES ASSUME Rounding, NEW ev \in Evaluators PROVE Stale(ev)' \/ Signed(ev)'
    BY <1>1 DEF RoundSigned, Fixed, Rounding
  <2>1. CASE Signed(ev)
    <3>1. PICK s : s = slice.round.slot[ev]
      OBVIOUS
    <3>2. s.out # "none" => s.task \in LineOf(ev) /\ log[s.task].tip = tip
                            /\ (s.out = "pass" => Passed(s.task))
      BY <2>1, <3>1 DEF Signed
    <3>3. \A t \in Tasks : log'[t].tip = log[t].tip /\ (Passed(t) => Passed(t)')
      BY <1>5 DEF Passed
    <3>4. s.out # "none" => s.task \in LineOf(ev)' /\ log'[s.task].tip = tip'
                            /\ (s.out = "pass" => Passed(s.task)')
      BY <1>1, <1>8, <3>2, <3>3
    <3>5. slice'.round.slot[ev] = s
      BY <1>1, <3>1
    <3> QED
      BY <3>4, <3>5 DEF Signed
  <2> QED
    BY <1>11, <2>1 DEF LandsKept, RoundSigned
<1>13. ~Has("finalize")'
  <2>1. \A x \in After : x.op # "finalize"
    BY <1>0, AfterIs
  <2> QED
    BY <1>3, <2>1 DEF Has
<1> QED
  BY <1>1, <1>10, <1>12, <1>13 DEF LandsKept

LEMMA RequiredAre ==
    ASSUME KindTyped
    PROVE  \A ev \in Required : ev \in Evaluators
<1>1. /\ DOMAIN Stages = 1..Len(Stages) /\ Len(Stages) \in Nat
      /\ \A i \in 1..Len(Stages) : Stages[i] \subseteq Evaluators
  BY EvaluatorsAre
<1>2. /\ Len(Stages) = Len(kind.stages) + (IF approval THEN 1 ELSE 0)
      /\ kind.stages \in Seq(SUBSET Names)
      /\ \A i \in 1..Len(kind.stages) : Stages[i] = kind.stages[i]
      /\ approval => Stages[Len(Stages)] = {Approval}
  BY StagesAre
<1>3. Len(kind.stages) \in Nat /\ DOMAIN kind.stages = 1..Len(kind.stages)
  BY <1>2
<1>4. kind.required \subseteq UNION {kind.stages[i] : i \in DOMAIN kind.stages}
  BY KindsAssumption DEF KindTyped
<1>5. \A ev \in kind.required : ev \in Evaluators
  <2> SUFFICES ASSUME NEW ev \in kind.required PROVE ev \in Evaluators
    OBVIOUS
  <2>1. PICK i \in 1..Len(kind.stages) : ev \in kind.stages[i]
    BY <1>3, <1>4
  <2>2. i \in 1..Len(Stages)
    <3>1. CASE approval
      <4>1. Len(Stages) = Len(kind.stages) + 1
        BY <1>2, <3>1
      <4> QED
        BY <1>3, <2>1, <4>1
    <3>2. CASE ~approval
      <4>1. Len(Stages) = Len(kind.stages) + 0
        BY <1>2, <3>2
      <4> QED
        BY <1>3, <2>1, <4>1
    <3> QED
      BY <3>1, <3>2
  <2> QED
    BY <1>1, <1>2, <2>1, <2>2
<1>6. approval => Approval \in Evaluators
  <2> SUFFICES ASSUME approval PROVE Approval \in Evaluators
    OBVIOUS
  <2>1. Len(Stages) = Len(kind.stages) + 1
    BY <1>2
  <2>2. Len(Stages) \in 1..Len(Stages)
    BY <1>3, <2>1
  <2> QED
    BY <1>1, <1>2, <2>2
<1> QED
  BY <1>5, <1>6 DEF Required

LEMMA AllSigned ==
    ASSUME Kept, OneTask, LandsKept, Quiet, ~Has("escalate"), "setup" \notin Faults, Settled,
           ~(StagePassed /\ slice.round.stage < Len(Stages)),
           Outs((UNION {Stages[i] : i \in 1..slice.round.stage}) \cap Required) \subseteq {"pass"}
    PROVE  Verified
<1>0. TypeOK /\ KindTyped /\ LogTyped /\ SliceTyped /\ SlotsKept /\ CyclesKept /\ Rounding /\ slice # None
  BY DEF Kept, TypeOK, OneTask, Settled, Rounding
<1>1. PICK n : n = slice.round.stage
  OBVIOUS
<1>2. n \in 1..Len(Stages) /\ Len(Stages) \in Nat /\ DOMAIN Stages = 1..Len(Stages)
  BY <1>0, <1>1, EvaluatorsAre DEF SliceTyped
<1>3. \A ev \in UNION {Stages[i] : i \in 1..n} : ev \in Required => slice.round.slot[ev].out = "pass"
  BY <1>1 DEF Outs
<1>4. Stages[n] \subseteq UNION {Stages[i] : i \in 1..n}
  BY <1>2
<1>5. StagePassed
  BY <1>1, <1>3, <1>4 DEF StagePassed, Outs
<1>6. n = Len(Stages)
  BY <1>1, <1>2, <1>5
<1>7. \A ev \in Required : ev \in Evaluators /\ ev \in UNION {Stages[i] : i \in 1..n}
  BY <1>0, <1>2, <1>6, RequiredAre DEF Evaluators
<1> SUFFICES ASSUME NEW ev \in Required
             PROVE  LET t == Latest(Lineage("Evaluation", TopCycle, ev)) IN
                    t # 0 /\ log[t].st = "Done" /\ log[t].verdict = "pass" /\ log[t].tip = tip
  BY DEF Verified
<1>8. PICK s : s = slice.round.slot[ev]
  OBVIOUS
<1>9. ev \in Evaluators /\ s.out = "pass"
  BY <1>3, <1>7, <1>8
<1>10. ~Stale(ev)
  BY DEF Stale, Quiet, SlotOps
<1>11. s.task \in LineOf(ev) /\ log[s.task].tip = tip /\ Passed(s.task)
  BY <1>0, <1>8, <1>9, <1>10 DEF LandsKept, RoundSigned, Signed
<1>12. s.task = Latest(LineOf(ev))
  BY <1>0, <1>8, <1>9, SlotsAreTrue
<1>13. PICK t : t = s.task
  OBVIOUS
<1>14. t \in Tasks /\ log[t].cycle = slice.cycle /\ t \in Nat /\ t # 0
  BY <1>0, <1>11, <1>13, TasksAre DEF LineOf, Lineage
<1>15. slice.cycle = TopCycle
  <2>1. PICK c, top : c = slice.cycle /\ top = TopCycle
    OBVIOUS
  <2>2. c \in Nat \ {0} /\ top \in Nat \ {0}
    BY <1>0, <2>1, SliceIs, TopCycleIs
  <2>3. c <= top
    BY <1>0, <1>14, <2>1, TopCycleIs
  <2>4. top = 1 \/ \E u \in Tasks : log[u].cycle = top
    BY <1>0, <2>1, TopCycleIs
  <2>5. \A u \in Tasks : log[u].cycle <= c
    BY <1>0, <2>1 DEF CyclesKept
  <2>6. top = 1 => top <= c
    BY <2>2
  <2>7. top <= c
    BY <2>4, <2>5, <2>6
  <2>8. c = top
    BY <2>2, <2>3, <2>7
  <2> QED
    BY <2>1, <2>8
<1>16. t = Latest(Lineage("Evaluation", TopCycle, ev))
  BY <1>12, <1>13, <1>15 DEF LineOf
<1> QED
  BY <1>11, <1>13, <1>14, <1>16 DEF Passed

\* The log, and with it what was verified, are the same.
LEMMA VerifiedStays ==
    ASSUME Verified, log' = log, tip' = tip, kind' = kind, approval' = approval
    PROVE  Verified'
<1>1. Required' = Required /\ Tasks' = Tasks
  BY DEF Required, Tasks
<1>2. \A c, ev : Lineage("Evaluation", c, ev)' = Lineage("Evaluation", c, ev)
  BY <1>1 DEF Lineage
<1>3. TopCycle' = TopCycle
  BY <1>1 DEF TopCycle
<1>4. \A ev : Latest(Lineage("Evaluation", TopCycle, ev))' = Latest(Lineage("Evaluation", TopCycle, ev))
  BY <1>1, <1>3 DEF Latest, Lineage
<1> QED
  BY <1>1, <1>4 DEF Verified

LEMMA LandsEmpty ==
    ASSUME KindTyped, Stages = <<>>
    PROVE  Required = {}
<1>1. Evaluators = {}
  BY DEF Evaluators
<1> QED
  BY <1>1, RequiredAre

\* A task ends, with nothing else in hand.
LEMMA LandsEnd ==
    ASSUME Kept, OneTask, LandsKept, NEW t \in Tasks, TaskEnds(t), Idle, tip' = tip,
           job' = job, job # "WrapUp"
    PROVE  LandsKept'
<1>0. TypeOK /\ KindTyped /\ LogTyped /\ TodoTyped /\ SliceTyped /\ Left = {} /\ After = {}
  BY AfterIs DEF Kept, TypeOK
<1>1. LinesKept /\ Tasks' = Tasks /\ Fixed
  BY <1>0, LinesEnd, EndsKeep
<1>2. /\ \A u \in Tasks \ {t} : log'[u] = log[u]
      /\ \A u \in Tasks : log'[u].tip = log[u].tip /\ log'[u].phase = log[u].phase
                          /\ log'[u].about = log[u].about
  BY <1>0, EndsKeep DEF TaskEnds
<1>3. /\ Rounding => \A ev \in Evaluators : Signed(ev)
      /\ \A ev : ~Stale(ev)
  BY <1>0 DEF LandsKept, RoundSigned, Stale
<1>4. CASE TaskKept
  <2>1. log' = log /\ slice' = slice /\ Left' = {}
    BY <1>0, <1>4 DEF TaskKept
  <2>2. \A u \in Tasks : Passed(u) => Passed(u)'
    BY <2>1 DEF Passed
  <2> QED
    BY <1>0, <1>1, <1>2, <2>1, <2>2, LandsStay DEF Rounding
<1>5. CASE WorkEnded(t)
  <2>1. slice' = slice /\ log[t].phase = "Work"
    BY <1>5 DEF WorkEnded
  <2>2. \A u \in Tasks : log[u].phase = "Evaluation" => (Passed(u) => Passed(u)')
    BY <1>2, <2>1 DEF Passed
  <2>3. \A x \in Left' : x.op \in {"evaluate", "attempt", "escalate"}
    BY <1>0, <1>5 DEF WorkEnded
  <2> QED
    BY <1>0, <1>1, <1>2, <2>1, <2>2, <2>3, LandsStay DEF Rounding, SlotOps
<1>6. ASSUME NEW ev \in Evaluators, slice # None, slice' # None, slice'.cycle = slice.cycle,
             log[t].about # ev \/ slice.round.slot[ev].out # "pass", Rounding,
             slice'.round.slot[ev] = slice.round.slot[ev]
      PROVE  Signed(ev)'
  <2>1. PICK s : s = slice.round.slot[ev]
    OBVIOUS
  <2>2. s.out # "none" => s.task \in LineOf(ev) /\ log[s.task].tip = tip
                          /\ (s.out = "pass" => Passed(s.task))
    BY <1>3, <1>6, <2>1 DEF Signed
  <2>3. s.task \in LineOf(ev) => s.task \in Tasks /\ log[s.task].about = ev
    BY DEF LineOf, Lineage
  <2>4. \A u \in Tasks \ {t} : Passed(u) => Passed(u)'
    BY <1>2 DEF Passed
  <2>5. LineOf(ev)' = LineOf(ev)
    BY <1>1, <1>6, LinesSameIs DEF LinesSame
  <2>6. s.out # "none" => s.task \in LineOf(ev)' /\ log'[s.task].tip = tip'
                          /\ (s.out = "pass" => Passed(s.task)')
    BY <1>2, <1>6, <2>1, <2>2, <2>3, <2>4, <2>5
  <2> QED
    BY <1>6, <2>1, <2>6 DEF Signed
<1>7. CASE SlotAgain(t)
  <2>1. /\ slice # None /\ slice' = slice /\ Rounding /\ OpenSlot(t) /\ log[t].phase = "Evaluation"
        /\ slice.round.slot[log[t].about].out = "open"
    <3>1. slice # None /\ slice' = slice /\ Rounding /\ OpenSlot(t) /\ log[t].phase = "Evaluation"
      BY <1>7 DEF SlotAgain
    <3>2. slice.round.slot[log[t].about] = [task |-> t, out |-> "open"]
      BY <3>1 DEF OpenSlot
    <3> QED
      BY <3>1, <3>2
  <2>2. \A ev \in Evaluators : Signed(ev)'
    BY <1>6, <2>1
  <2>3. RoundSigned'
    BY <1>1, <2>2 DEF RoundSigned, Fixed
  <2>4. CASE Left' = {[op |-> "escalate", cycle |-> 0, n |-> t, of |-> "loss"]} \cup After
    <3>1. \A x \in Left' : x.op = "escalate"
      BY <1>0, <2>4
    <3> QED
      BY <2>3, <3>1 DEF LandsKept, Sealed, Has
  <2>5. ASSUME NEW n \in Nat,
               Left' = {[op |-> "launch", cycle |-> 0, n |-> n, of |-> log[t].about],
                        [op |-> "slots", cycle |-> 0, n |-> 0, of |-> log[t].about]} \cup After
        PROVE  LandsKept'
    <3>1. PICK ev, x, y : /\ ev = log[t].about
                          /\ x = [op |-> "launch", cycle |-> 0, n |-> n, of |-> ev]
                          /\ y = [op |-> "slots", cycle |-> 0, n |-> 0, of |-> ev]
      OBVIOUS
    <3>2. Left' = {x, y} /\ x.op = "launch" /\ x.of = ev /\ y.op = "slots" /\ y.of = ev
      BY <1>0, <2>5, <3>1
    <3>3. ev \in Evaluators /\ ev # "all"
      <4>1. ev \in Evaluators
        BY <1>0, <2>1, <3>1 DEF LogTyped, TaskTyped
      <4> QED
        BY <1>0, <4>1, EvaluatorsAre
    <3>4. Covers(y)' = {ev}
      BY <3>2, <3>3 DEF Covers
    <3>5. Sealed'
      BY <3>2, <3>4 DEF Sealed
    <3> QED
      BY <2>3, <3>2, <3>5 DEF LandsKept, Has
  <2> QED
    BY <1>7, <2>4, <2>5 DEF SlotAgain
<1>8. CASE SlotEnded(t)
  <2>1. PICK out \in {"infra", "pass", "fail", "abort"} :
          /\ slice'.round.slot[log[t].about] = [task |-> t, out |-> out]
          /\ out = "pass" => log'[t].st = "Done" /\ log'[t].verdict = out
    BY <1>8 DEF SlotEnded
  <2>2. /\ slice # None /\ OpenSlot(t) /\ slice' # None /\ slice'.cycle = slice.cycle
        /\ \A ev \in Evaluators \ {log[t].about} : slice'.round.slot[ev] = slice.round.slot[ev]
        /\ Left' = {[op |-> "settle", cycle |-> 0, n |-> 0, of |-> "none"]} \cup After
    BY <1>8 DEF SlotEnded
  <2>3. PICK ev : ev = log[t].about
    OBVIOUS
  <2>4. Rounding /\ log[t].phase = "Evaluation" /\ slice.round.slot[ev] = [task |-> t, out |-> "open"]
    BY <2>2, <2>3 DEF OpenSlot
  <2>5. ev \in Evaluators
    BY <1>0, <2>3, <2>4 DEF LogTyped, TaskTyped
  <2>6. t \in LineOf(ev) /\ log[t].tip = tip
    <3>1. PICK s : s = slice.round.slot[ev]
      OBVIOUS
    <3>2. s.task = t /\ s.out = "open"
      BY <2>4, <3>1
    <3> QED
      BY <1>3, <2>4, <2>5, <3>1, <3>2 DEF Signed
  <2>7. Signed(ev)'
    <3>1. PICK s : s = slice'.round.slot[ev]
      OBVIOUS
    <3>2. s.task = t /\ s.out = out
      <4>1. s = [task |-> t, out |-> out]
        BY <2>1, <2>3, <3>1
      <4> QED
        BY <4>1
    <3>3. t \in LineOf(ev)'
      BY <1>1, <2>2, <2>6, LinesSameIs DEF LinesSame
    <3>4. log'[t].tip = tip'
      BY <1>2, <2>6
    <3>5. s.out = "pass" => Passed(s.task)'
      BY <2>1, <3>2 DEF Passed
    <3> QED
      BY <3>1, <3>2, <3>3, <3>4, <3>5 DEF Signed
  <2>8. \A e \in Evaluators \ {ev} : Signed(e)'
    BY <1>6, <2>2, <2>3, <2>4
  <2>9. RoundSigned'
    BY <1>1, <2>7, <2>8 DEF RoundSigned, Fixed
  <2>10. \A x \in Left' : x.op = "settle"
    BY <1>0, <2>2
  <2> QED
    BY <2>9, <2>10 DEF LandsKept, Sealed, Has
<1> QED
  BY <1>4, <1>5, <1>7, <1>8 DEF TaskEnds, SlotNone

\* A job that has been handed over is not followed.
LEMMA NotFollowed ==
    ASSUME job = "WrapUp", Idle
    PROVE  ~Next
<1>1. ~Listening /\ ~Followed
  BY DEF Listening, Followed
<1>2. ~Handle
  BY DEF Handle, EnterWork, EnterRefused, StartAttempt, Unclaim, Place, PlaceFails, Stamp,
     EnterEvaluation, LaunchEvaluator, InstallSlots, Settle, Finalize, Escalate, FillInbox, Retry,
     PreworkRetry, RevokeJob, Recover, Attach, Rebuild, Sweep, Doing
<1>3. ~StartJob /\ ~Scan /\ ~Report /\ ~Containers /\ ~Drain /\ ~Restart
  BY <1>1 DEF StartJob, Scan, Report, Containers, Drain, Restart, DeadlineScan, TimeoutScan, Exit,
     ContainerStarted, SubmitResult, SubmitEval, Push, BoxEnds, Vanish
<1>4. ~Operate
  BY <1>1 DEF Operate, ResolveEscalation, ResolveWork, ResolveEval, ClaimJob, UnclaimJob,
     SetRequireApproval, Revoke
<1> QED
  BY <1>2, <1>3, <1>4 DEF Next

LEMMA LandsSettled ==
    ASSUME Kept, OneTask, RestartEnds, Straight, LandsKept, Settle
    PROVE  LandsKept'
<1>0. TypeOK /\ KindTyped /\ TodoTyped
  BY DEF Kept, TypeOK
<1>1. /\ ~Idle /\ todo[1].op = "settle" /\ Calm /\ job = "Evaluation" /\ job' = job /\ log' = log
      /\ slice # None /\ slice' # None /\ slice'.cycle = slice.cycle
  BY <1>0, SettleIs DEF Settle
<1>2. After = {} /\ Left = {todo[1]}
  BY <1>1, NoRestartLeft DEF Busy, Straight
<1>3. Fixed /\ SameTasks /\ tip' = tip
  BY <1>1 DEF Calm
<1>4. Quiet /\ ~Has("escalate")
  BY <1>1, <1>2 DEF Quiet, SlotOps, Has
<1>5. CASE slice' = slice /\ Left' = After
  BY <1>0, <1>1, <1>2, <1>3, <1>4, <1>5, LandsCalm DEF Quiet
<1>6. CASE /\ slice' = slice /\ slice.round.stage + 1 \in 1..Len(Stages)
           /\ Then(LaunchStage(slice.round.stage + 1)) /\ Settled
  <2>1. PICK i : i = slice.round.stage + 1
    OBVIOUS
  <2>2. \A ev \in Evaluators : Signed(ev)
    BY <1>4, <1>6 DEF LandsKept, RoundSigned, Stale, Quiet, SlotOps, Settled
  <2>3. \A ev \in Evaluators : Signed(ev)'
    <3> SUFFICES ASSUME NEW ev \in Evaluators PROVE Signed(ev)'
      OBVIOUS
    <3>1. PICK s : s = slice.round.slot[ev]
      OBVIOUS
    <3>2. s.out # "none" => s.task \in LineOf(ev) /\ log[s.task].tip = tip
                            /\ (s.out = "pass" => Passed(s.task))
      BY <2>2, <3>1 DEF Signed
    <3>3. LineOf(ev)' = LineOf(ev)
      BY <1>1, <1>3, LinesAlike, LinesSameIs DEF LinesSame
    <3>4. slice'.round.slot[ev] = s
      BY <1>6, <3>1
    <3> QED
      BY <1>1, <1>3, <3>2, <3>3, <3>4 DEF Signed, Passed
  <2>4. i \in 1..Len(Stages) /\ Then(LaunchStage(i))
    BY <1>6, <2>1
  <2> QED
    BY <1>0, <1>1, <1>2, <1>3, <2>3, <2>4, LandsStage
<1>7. ASSUME ~Rounding', NEW x, Left' = {x} \cup After, x.op \notin {"slots", "finalize"}
      PROVE  LandsKept'
  BY <1>1, <1>2, <1>7, LandsNone
<1>8. CASE /\ Settled /\ ~(StagePassed /\ slice.round.stage < Len(Stages)) /\ ~Rounding'
           /\ Left' = {[op |-> "finalize", cycle |-> 0, n |-> 0, of |-> "none"]} \cup After
           /\ Outs((UNION {Stages[i] : i \in 1..slice.round.stage}) \cap Required) \subseteq {"pass"}
  <2>1. Verified
    BY <1>4, <1>8, AllSigned DEF Straight
  <2>2. Verified'
    BY <1>1, <1>3, <2>1, VerifiedStays DEF Fixed
  <2>3. \A x \in Left' : x.op # "slots"
    BY <1>2, <1>8
  <2> QED
    BY <1>1, <1>8, <2>2, <2>3 DEF LandsKept, Sealed, RoundSigned
<1>9. CASE ~Rounding' /\ \E why \in {"infra", "abort", "rework"} :
             Left' = {[op |-> "escalate", cycle |-> 0, n |-> 0, of |-> why]} \cup After
  BY <1>7, <1>9
<1>10. CASE ~Rounding' /\ Left' =
              {[op |-> "enter", cycle |-> slice.cycle + 1, n |-> 0, of |-> "none"]} \cup After
  BY <1>7, <1>10
<1> QED
  BY <1>0, <1>5, <1>6, <1>8, <1>9, <1>10, SettleIs

LEMMA LandsEvaluated ==
    ASSUME Kept, OneTask, RestartEnds, Straight, LandsKept, EnterEvaluation, job # "WrapUp"
    PROVE  LandsKept'
<1>0. TypeOK /\ KindTyped /\ TodoTyped /\ SliceTyped
  BY DEF Kept, TypeOK
<1>1. ~Idle /\ todo[1].op = "evaluate" /\ Calm /\ slice # None
  BY <1>0, EnterEvaluationIs
<1>2. After = {} /\ Left = {todo[1]}
  BY <1>1, NoRestartLeft DEF Busy, Straight
<1>3. ~Rounding
  <2>1. job # "Evaluation"
    BY <1>1, <1>2 DEF OneTask, RoundKept, BeginsFree
  <2> QED
    BY <1>0, <2>1 DEF SliceTyped
<1>4. CASE draining /\ job' = job /\ slice' = slice /\ Left' = After
  BY <1>2, <1>3, <1>4, LandsNone DEF Rounding
<1>5. CASE /\ job' = "Evaluation" /\ Stages = <<>> /\ ~Rounding'
           /\ Left' = {[op |-> "finalize", cycle |-> 0, n |-> 0, of |-> "none"]} \cup After
  <2>1. Required = {}
    BY <1>0, <1>5, LandsEmpty
  <2>2. Required' = Required
    BY <1>1 DEF Required, Calm, Fixed
  <2>3. Verified'
    BY <2>1, <2>2 DEF Verified
  <2>4. \A x \in Left' : x.op # "slots"
    BY <1>2, <1>5
  <2> QED
    BY <1>5, <2>3, <2>4 DEF LandsKept, Sealed, RoundSigned
<1>6. CASE /\ job' = "Evaluation" /\ 1 \in 1..Len(Stages) /\ Then(LaunchStage(1))
           /\ \A ev \in Evaluators : slice'.round.slot[ev].out = "none"
  <2>1. \A ev \in Evaluators : Signed(ev)'
    BY <1>6 DEF Signed
  <2>2. Fixed /\ job' # "WrapUp"
    BY <1>1, <1>6 DEF Calm
  <2> QED
    BY <1>0, <1>2, <1>6, <2>1, <2>2, LandsStage
<1> QED
  BY <1>0, <1>4, <1>5, <1>6, EnterEvaluationIs

LEMMA LandsFinal ==
    ASSUME Kept, OneTask, RestartEnds, Straight, LandsKept, Finalize
    PROVE  LandsKept'
<1>0. TypeOK /\ TodoTyped
  BY DEF Kept, TypeOK
<1>1. /\ ~Idle /\ todo[1].op = "finalize" /\ Fixed /\ log' = log /\ tip' = tip
      /\ job' = "WrapUp" /\ slice' = slice /\ Left' = After
  BY <1>0, FinalizeIs DEF Finalize, Calm
<1>2. After = {} /\ Left = {todo[1]}
  BY <1>1, NoRestartLeft DEF Busy, Straight
<1>3. ~Rounding'
  <2>1. ~Rounding
    BY <1>0, <1>1, <1>2 DEF TodoTyped, ChoreTyped
  <2> QED
    BY <1>1, <2>1 DEF Rounding
<1>4. Verified'
  <2>1. Verified
    BY <1>1, <1>2 DEF LandsKept, Has
  <2> QED
    BY <1>1, <2>1, VerifiedStays DEF Fixed
<1>5. Idle'
  <2>1. todo' \in Seq(Chores)
    BY <1>0, FinalizeTyped DEF TypeOK, TodoTyped
  <2>2. DOMAIN todo' = {}
    BY <1>1, <1>2 DEF Left
  <2>3. todo' = <<>>
    <3>1. Len(todo') \in Nat /\ DOMAIN todo' = 1..Len(todo')
      BY <2>1
    <3>2. Len(todo') = 0
      BY <2>2, <3>1
    <3> QED
      BY <2>1, <3>2, EmptySeq
  <2> QED
    BY <2>3 DEF Idle
<1> QED
  BY <1>1, <1>2, <1>3, <1>4, <1>5 DEF LandsKept, Sealed, RoundSigned

LEMMA LandsAside ==
    ASSUME Kept, OneTask, RestartEnds, BranchFree, Straight, LandsKept, Aside, job # "WrapUp"
    PROVE  LandsKept'
<1>0. TypeOK /\ TodoTyped /\ SliceTyped
  BY DEF Kept, TypeOK
<1>1. /\ Fixed /\ SameTasks /\ log' = log /\ job' = job /\ slice' = slice /\ Left' = Left
  BY <1>0, AsideIs
<1>2. CASE tip' = tip
  <2>1. LinesKept /\ Tasks' = Tasks
    BY <1>1, LinesAlike DEF SameTasks
  <2>2. Sealed' /\ RoundSigned'
    BY <1>0, <1>1, <1>2, <2>1, SignedStay DEF LandsKept, Rounding, Passed
  <2>3. Has("finalize")' => Verified'
    BY <1>1, <1>2, VerifiedStays DEF LandsKept, Has, Fixed
  <2> QED
    BY <1>1, <2>2, <2>3 DEF LandsKept
<1>3. CASE tip' # tip
  <2>1. job \in {"Work", "Revoked", "Escalated"} /\ ~Has("finalize")
    BY <1>3, PushedBefore DEF Straight
  <2>2. ~Rounding
    BY <1>0, <2>1 DEF SliceTyped
  <2>3. \A x \in Left : x.op \notin {"slots", "finalize"}
    BY <1>0, <2>1, <2>2 DEF TodoTyped, ChoreTyped, Has
  <2> QED
    BY <1>1, <2>1, <2>2, <2>3, LandsNone DEF Rounding
<1> QED
  BY <1>2, <1>3

LEMMA StraightBefore ==
    ASSUME TypeOK, [Next]_vars, Straight'
    PROVE  Straight /\ Reached
<1>1. Reached' /\ crashes' = 0
  BY DEF Straight, Reached
<1>2. Reached
  BY <1>1, ReachedBefore
<1>3. kind' = kind /\ OneInbox' = OneInbox /\ Faults' = Faults
  BY KindFixed, OneInboxStays DEF Faults
<1>4. crashes = 0
  BY <1>1, CrashesGrow
<1> QED
  BY <1>2, <1>3, <1>4 DEF Straight

\* Nothing follows the last phase.
LEMMA LandsOver ==
    ASSUME Kept, LandsKept, job = "WrapUp", [Next]_vars
    PROVE  LandsKept'
<1>1. TypeOK /\ SliceTyped /\ Idle /\ Verified
  BY DEF Kept, TypeOK, LandsKept
<1>2. UNCHANGED vars
  BY <1>1, NotFollowed
<1>3. Left = {} /\ ~Rounding
  BY <1>1, AfterIs DEF TypeOK, SliceTyped
<1>4. Left' = {} /\ ~Rounding'
  BY <1>2, <1>3 DEF vars, memory, Left, Rounding
<1>5. Verified' /\ Idle'
  BY <1>1, <1>2, VerifiedStays DEF vars, memory, Idle
<1> QED
  BY <1>4, <1>5 DEF LandsKept, Sealed, RoundSigned

LEMMA LandsNext ==
    ASSUME Kept, OneTask, RestartEnds, BranchFree, Straight, LandsKept, [Next]_vars, Straight'
    PROVE  LandsKept'
<1>0. /\ TypeOK /\ KindTyped /\ LogTyped /\ SliceTyped /\ TodoTyped /\ Unstarted /\ CyclesKept
      /\ After \subseteq Left /\ (Idle => Left = {} /\ After = {})
      /\ (~Idle => todo[1] \in Left /\ Left = {todo[1]} \cup After)
      /\ \A x \in After : x.op \in {"launch", "slots", "rebuild", "settle", "attach", "sweep"}
  BY KeptIs DEF Kept
<1>1. /\ \A x \in Left : x.op \notin RestartOps
      /\ ~Idle /\ ~Busy => After = {} /\ Left = {todo[1]}
  BY NoRestartLeft DEF Straight
<1>2. job # "Evaluation" => ~Rounding
  BY <1>0 DEF SliceTyped
<1>3. CASE job = "WrapUp"
  BY <1>3, LandsOver
<1> SUFFICES ASSUME job # "WrapUp" PROVE LandsKept'
  BY <1>3
<1>4. CASE EnterWork
  <2>1. ~Rounding' /\ job' = "Work" /\ \A x \in Left' : x.op = "attempt"
    BY <1>0, <1>1, <1>4, EnterWorkIs DEF Busy
  <2> QED
    BY <2>1, LandsNone
<1>5. CASE EnterRefused
  <2>1. /\ ~Idle /\ todo[1].op = "enter" /\ slice' = slice /\ job' # "WrapUp"
        /\ \A x \in Left' : x.op = "inbox"
    BY <1>0, <1>1, <1>5, EnterRefusedIs DEF Busy
  <2>2. ~Rounding'
    BY <1>0, <2>1 DEF TodoTyped, ChoreTyped, Rounding
  <2> QED
    BY <2>1, <2>2, LandsNone
<1>6. CASE StartAttempt
  <2>1. ~Idle /\ todo[1].op = "attempt" /\ slice' = slice /\ job' = job
    BY <1>0, <1>6, StartAttemptIs
  <2>2. \A x \in Left' : x.op \in {"unclaim", "place"}
    <3>1. After = {}
      BY <1>1, <2>1 DEF Busy
    <3> QED
      BY <1>0, <1>6, <3>1, StartAttemptIs
  <2>3. job = "Work"
    BY <1>0, <2>1 DEF CyclesKept, ChoreKept
  <2>4. ~Rounding'
    BY <1>2, <2>1, <2>3 DEF Rounding
  <2> QED
    BY <2>1, <2>2, <2>3, <2>4, LandsNone
<1>7. CASE Unclaim
  <2>1. ~Idle /\ todo[1].op = "unclaim" /\ Calm /\ job' = job /\ slice' = slice /\ Left' = After
    BY <1>0, <1>7, UnclaimIs
  <2>2. Left' = {} /\ \A x \in Left : x.op \notin SlotOps
    BY <1>1, <2>1 DEF Busy, SlotOps
  <2> QED
    BY <1>0, <2>1, <2>2, LandsCalm DEF Calm
<1>8. ASSUME ~Idle, todo[1].op \in {"place", "stamp"}, Fixed, SameTasks, tip' = tip, job' = job,
             slice' = slice, After \subseteq Left', \A x \in Left' : x \in After \/ x.op = "stamp"
      PROVE  LandsKept'
  <2>1. \A x : x.op \in SlotOps => (x \in Left' <=> x \in Left)
    BY <1>0, <1>8 DEF SlotOps
  <2>2. \A x \in Left' : x.op # "finalize"
    BY <1>0, <1>8
  <2> QED
    BY <1>0, <1>8, <2>1, <2>2, LandsCalm
<1>9. CASE Place
  BY <1>0, <1>8, <1>9, PlaceIs
<1>10. CASE Stamp
  BY <1>0, <1>8, <1>10, StampIs
<1>11. CASE PlaceFails
  BY <1>0, <1>11, PlaceFailsIs DEF Straight
<1>12. CASE EnterEvaluation
  BY <1>12, LandsEvaluated
<1>13. CASE LaunchEvaluator
  BY <1>13, LandsOneMore DEF Straight
<1>14. CASE InstallSlots
  BY <1>14, LandsInstalled DEF Straight
<1>15. CASE Settle
  BY <1>15, LandsSettled
<1>16. CASE Finalize
  BY <1>16, LandsFinal
<1>17. CASE Escalate
  <2>1. /\ slice' = None /\ job' # "WrapUp" /\ \A x \in Left' : x.op = "inbox"
    BY <1>0, <1>1, <1>17, EscalateIs DEF Busy
  <2> QED
    BY <2>1, LandsNone DEF Rounding
<1>18. CASE FillInbox
  <2>1. ~Idle /\ todo[1].op = "inbox" /\ slice' = slice /\ job' = job /\ Left' = {}
    BY <1>0, <1>1, <1>18, FillInboxIs DEF Busy
  <2>2. job \in {"Escalated", "Stalled"}
    BY <1>0, <2>1 DEF CyclesKept, ChoreKept
  <2>3. ~Rounding'
    BY <1>2, <2>1, <2>2 DEF Rounding
  <2> QED
    BY <2>1, <2>2, <2>3, LandsNone
<1>19. CASE Retry
  <2>1. ~Rounding' /\ job' # "WrapUp" /\ \A x \in Left' : x.op \in {"evaluate", "attempt"}
    BY <1>0, <1>1, <1>19, RetriedIs DEF Busy
  <2> QED
    BY <2>1, LandsNone
<1>20. CASE PreworkRetry
  <2>1. /\ job = "Stalled" /\ slice' = slice /\ job' # "WrapUp" /\ \A x \in Left' : x.op = "inbox"
    BY <1>0, <1>1, <1>20, PreworkRetryIs DEF Busy
  <2>2. ~Rounding'
    BY <1>2, <2>1 DEF Rounding
  <2> QED
    BY <2>1, <2>2, LandsNone
<1>21. CASE RevokeJob
  <2>1. /\ ~Idle /\ todo[1].op = "revoke" /\ slice' = None /\ job' \in {job, "Revoked"}
        /\ Left' = Left \/ Left' = After
    BY <1>0, <1>21, RevokeJobIs
  <2>2. \A x \in Left' : x.op = "revoke"
    BY <1>1, <2>1 DEF Busy
  <2> QED
    BY <2>1, <2>2, LandsNone DEF Rounding
<1>22. CASE Recover
  BY <1>0, <1>1, <1>22, RecoverLeft DEF RestartOps
<1>23. CASE Attach
  BY <1>0, <1>1, <1>23, AttachEnds DEF RestartOps
<1>24. CASE Rebuild
  BY <1>0, <1>1, <1>24, RebuildIs DEF RestartOps
<1>25. CASE Sweep
  BY <1>0, <1>1, <1>25, SweepIs DEF RestartOps
<1>26. CASE StartJob
  <2>1. /\ slice' = slice /\ slice = None /\ job' = job /\ \A x \in Left' : x.op = "enter"
    BY <1>0, <1>26, StartJobIs
  <2> QED
    BY <2>1, LandsNone DEF Rounding
<1>27. CASE Revoke
  <2>1. /\ Idle /\ Calm /\ job' = job /\ slice' = slice /\ \A x \in Left' : x.op = "revoke"
    BY <1>0, <1>27, RevokeIs
  <2>2. \A x : x.op \in SlotOps => (x \in Left' <=> x \in Left)
    BY <1>0, <2>1 DEF SlotOps
  <2> QED
    BY <1>0, <2>1, <2>2, LandsCalm DEF Calm
<1>28. CASE DeadlineScan
  BY <1>0, <1>28, DeadlineScanIs, OneInboxIs DEF Straight
<1>29. ASSUME NEW t \in Tasks, Exit(t) PROVE LandsKept'
  BY <1>0, <1>29, ExitEnds, LandsEnd DEF Unmoved
<1>30. ASSUME NEW t \in Tasks, TimeoutScan(t) PROVE LandsKept'
  BY <1>0, <1>30, TimeoutEnds, LandsEnd DEF Unmoved
<1>31. ASSUME Idle, Fixed, tip' = tip, job' = job, Left' = Left, NEW t \in Tasks,
              Tasks' = Tasks, \A u \in Tasks \ {t} : log'[u] = log[u],
              log'[t].phase = log[t].phase, log'[t].cycle = log[t].cycle,
              log'[t].about = log[t].about, log'[t].tip = log[t].tip, log[t].st # "Done",
              slice'.cycle = slice.cycle, slice'.round = slice.round, Rounding' => Rounding
       PROVE  LandsKept'
  <2>1. LinesKept
    BY <1>31, LinesOne
  <2>2. \A u \in Tasks : log'[u].tip = log[u].tip /\ (Passed(u) => Passed(u)')
    BY <1>31 DEF Passed
  <2>3. Left' = {} /\ Left = {}
    BY <1>0, <1>31
  <2> QED
    BY <1>0, <1>31, <2>1, <2>2, <2>3, LandsStay
<1>32. ASSUME NEW t \in Tasks, SubmitEval(t) PROVE LandsKept'
  <2>1. /\ Idle /\ Fixed /\ Unmoved /\ Left' = Left /\ slice' = slice /\ log[t].st # "Done"
        /\ \E v : Answered(t, "Done", v)
    BY <1>0, <1>32, SubmitEvalIs
  <2> QED
    BY <1>31, <2>1 DEF Answered, Unmoved, Rounding
<1>33. ASSUME NEW t \in Tasks, ContainerStarted(t) PROVE LandsKept'
  <2>1. Idle /\ Fixed /\ SameTasks /\ Unmoved /\ Left' = Left /\ slice' = slice
    BY <1>0, <1>33, ContainerStartedIs DEF Still
  <2> QED
    BY <1>0, <2>1, LandsCalm DEF Unmoved
<1>34. ASSUME NEW t \in Tasks, SubmitResult(t) PROVE LandsKept'
  <2>1. /\ Idle /\ Fixed /\ SameTasks /\ Unmoved /\ Left' = Left /\ slice # None
        /\ slice'.cycle = slice.cycle /\ slice'.round = slice.round
    BY <1>0, <1>34, SubmitResultIs DEF Still
  <2>2. LinesKept /\ Tasks' = Tasks
    BY <2>1, LinesAlike DEF SameTasks
  <2>3. \A u \in Tasks : log'[u].tip = log[u].tip /\ (Passed(u) => Passed(u)')
    BY <2>1 DEF SameTasks, Alike, Passed
  <2>4. Left' = {} /\ Left = {} /\ (Rounding' => Rounding)
    BY <1>0, <2>1 DEF Rounding
  <2> QED
    BY <1>0, <2>1, <2>2, <2>3, <2>4, LandsStay DEF Unmoved
<1>35. ASSUME NEW t \in Tasks, ResolveEscalation(t) PROVE LandsKept'
  <2>1. /\ ~Rounding' /\ job' # "WrapUp"
        /\ \A x \in Left' : x.op \in {"retry", "prework", "evaluate", "revoke"}
    BY <1>0, <1>35, ResolveEscalationIs DEF Unmoved
  <2> QED
    BY <2>1, LandsNone
<1>36. ASSUME NEW t \in Tasks, ResolveWork(t) PROVE LandsKept'
  <2>1. /\ ~Rounding' /\ job' # "WrapUp"
        /\ \A x \in Left' : x.op \in {"attempt", "escalate", "evaluate"}
    BY <1>0, <1>36, ResolveWorkIs DEF Unmoved
  <2> QED
    BY <2>1, LandsNone
<1>37. ASSUME NEW t \in Tasks, ResolveEval(t) PROVE LandsKept'
  <2>1. /\ Idle /\ Fixed /\ Unmoved /\ Pending(t)
        /\ \E v : /\ Answered(t, "Done", v)
                  /\ TaskEnds(t) \/ (slice' = slice /\ Left' = Left)
    BY <1>0, <1>37, ResolveEvalIs
  <2>2. CASE TaskEnds(t)
    BY <2>1, <2>2, LandsEnd DEF Unmoved
  <2>3. CASE slice' = slice /\ Left' = Left
    BY <1>31, <2>1, <2>3 DEF Answered, Unmoved, Rounding, Pending
  <2> QED
    BY <2>1, <2>2, <2>3
<1>38. CASE SetRequireApproval
  <2>1. slice' = None /\ Left' = {} /\ job' # "WrapUp"
    BY <1>0, <1>38, ApprovalIs DEF Unmoved
  <2> QED
    BY <2>1, LandsNone DEF Rounding
<1>39. CASE Restart
  <2>1. crashes \in Nat /\ crashes' = crashes + 1 /\ crashes = 0
    BY <1>0, <1>39, RestartLeft DEF Straight
  <2> QED
    BY <2>1 DEF Straight
<1>40. CASE Aside
  BY <1>40, LandsAside
<1> QED
  BY <1>4, <1>5, <1>6, <1>7, <1>9, <1>10, <1>11, <1>12, <1>13, <1>14, <1>15, <1>16, <1>17,
     <1>18, <1>19, <1>20, <1>21, <1>22, <1>23, <1>24, <1>25, <1>26, <1>27, <1>28, <1>29, <1>30,
     <1>32, <1>33, <1>34, <1>35, <1>36, <1>37, <1>38, <1>39, <1>40
     DEF Next, Handle, Scan, Report, Operate, Containers, Aside

\* AlwaysLandsEvaluated: what goes on to landing is the commit whose every required
\* evaluator has passed it, whatever the order of verdicts, exits, losses, retries
\* and answers (eval.rs reduce and finalize), under the conditions
\* LandsWhatWasEvaluated names.
THEOREM AlwaysLandsEvaluated == Spec => []LandsWhatWasEvaluated
<1>1. Init => RestartEnds /\ BranchFree /\ LandsKept
  BY DEF Init, RestartEnds, BranchFree, Has, Left, Tasks, LandsKept, Sealed, RoundSigned, Rounding
<1>2. Kept /\ RestartEnds /\ [Next]_vars => RestartEnds'
  BY RestartNext DEF Kept
<1>3. /\ Kept /\ (OneInbox => OneTask) /\ RestartEnds /\ (Reached => BranchFree) /\ [Next]_vars
      => (Reached => BranchFree)'
  <2> SUFFICES ASSUME Kept, OneInbox => OneTask, RestartEnds, Reached => BranchFree, [Next]_vars,
                      Reached'
               PROVE  BranchFree'
    OBVIOUS
  <2>1. Reached
    BY ReachedBefore DEF Kept
  <2> QED
    BY <2>1, BranchNext DEF Reached
<1>4. /\ Kept /\ (OneInbox => OneTask) /\ RestartEnds /\ (Reached => BranchFree)
      /\ (Straight => LandsKept) /\ [Next]_vars
      => (Straight => LandsKept)'
  <2> SUFFICES ASSUME Kept, OneInbox => OneTask, RestartEnds, Reached => BranchFree,
                      Straight => LandsKept, [Next]_vars, Straight'
               PROVE  LandsKept'
    OBVIOUS
  <2>1. Straight /\ Reached
    BY StraightBefore DEF Kept
  <2> QED
    BY <2>1, LandsNext DEF Straight
<1>5. (Straight => LandsKept) => LandsWhatWasEvaluated
  BY DEF LandsWhatWasEvaluated, Straight, LandsKept, Verified
<1> QED
  BY <1>1, <1>2, <1>3, <1>4, <1>5, AlwaysKept, PTL DEF Spec
==============================================================================
