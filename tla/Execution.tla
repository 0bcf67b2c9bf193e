------------------------------- MODULE Execution -------------------------------
(***************************************************************************)
(* The execution of one job: its cycles of Work and Evaluation, the task   *)
(* log they leave, the containers that run the tasks, escalation and what  *)
(* an operator does about it, claims, timeouts, the drain, and the rebuild *)
(* after a restart.  The job begins Ready and leaves this module when it   *)
(* is handed to the landing queue (module MergeGate).                      *)
(*                                                                         *)
(* The dispatcher is one actor.  A message is handled when `todo' is empty;*)
(* what the handler does after its first write is in `todo', one chore per *)
(* write, and the process may die between any two of them.  A chore is     *)
(*   enter       begin cycle `cycle' of Work                               *)
(*   attempt     create attempt n of cycle `cycle'                         *)
(*   place       place the container of task n                             *)
(*   stamp       record the id of the container of task n                  *)
(*   unclaim     the claim has been used                                   *)
(*   evaluate    enter Evaluation                                          *)
(*   launch      create attempt n of evaluator `of'                        *)
(*   slots       the round waits for the tasks just created                *)
(*   settle      wait, go on to the next stage, or reduce the round        *)
(*   finalize    hand the job to the landing queue                         *)
(*   escalate    escalate because of `of'; task n has failed               *)
(*   inbox       create the escalation task                                *)
(*   retry, prework, revoke   carry out what the operator chose            *)
(*   recover, attach, rebuild, sweep   the steps of a restart              *)
(*                                                                         *)
(* Sources: dispatcher/src/exec.rs, eval.rs, reconcile.rs, scan.rs,        *)
(* core.rs, launch_queue.rs (monitors); domain/src/decide/work.rs, eval.rs *)
(* and escalation.rs.                                                      *)
(*                                                                         *)
(* Abstracted: prompts, results and findings, except who wrote the summary *)
(* of an attempt and which commit an evaluator saw; a launch that finds no *)
(* free slot (module Fleet); the gate fix and the publish command          *)
(* (module MergeGate).                                                     *)
(***************************************************************************)
EXTENDS Integers, FiniteSets, SequencesExt

CONSTANTS
    None,
    EvType,        \* type of each evaluator
    Kinds,         \* what the job may be, and what may happen to it
    MaxTasks       \* bound: tasks of any job

(***************************************************************************)
(* A kind is the job type the execution reads, the faults that may happen, *)
(* and the bounds of the instance: the tasks of the job, the commits on    *)
(* its branch and the restarts of the dispatcher.  Faults:                 *)
(*   launch       a container is refused when it is placed                 *)
(*   setup        a launch fails before its container is placed            *)
(*   contract     the launch-time validation fails                         *)
(*   vanish       a container disappears                                   *)
(*   unreachable  the node of a container does not answer at a restart     *)
(*   unstamped    a timeout hits a container whose id is not yet recorded  *)
(*   deadline     the job passes its deadline                              *)
(*   drain        the dispatcher drains before a restart                   *)
(*   claim        an operator claims attempts                              *)
(*   operator     an operator revokes, and pushes to an escalated job      *)
(*   approval     an operator asks for a sign-off, or no longer            *)
(*   late         a submission is delivered again, or after its container  *)
(*                has ended: the channel sends it until it has an answer   *)
(***************************************************************************)
FaultKinds == {"launch", "setup", "contract", "vanish", "unreachable", "unstamped",
               "deadline", "drain", "claim", "operator", "approval", "late"}

\* The sign-off of an operator: a name no job type may use.
Approval == "approval"

\* What JobType.validate accepts: budgets belong to the work they are spent on.
ValidJobType(k) ==
    /\ k.work = "human" => k.workRetries = 0
    /\ k.work = "command" => k.reworks = 0
    /\ Approval \notin UNION {k.stages[i] : i \in DOMAIN k.stages}

\* An evaluator has a name of its own, and one stage.
ASSUME EvaluatorsAssumption ==
    /\ IsFiniteSet(DOMAIN EvType)
    /\ EvType \in [DOMAIN EvType -> {"agent", "command", "human"}]
    /\ DOMAIN EvType \cap {"all", "none"} = {}
    /\ \A k \in Kinds : \A i, j \in DOMAIN k.stages :
          i # j => k.stages[i] \cap k.stages[j] = {}

ASSUME KindsAssumption ==
    \A k \in Kinds :
      /\ k.work \in {"agent", "command", "human"}
      /\ k.stages \in Seq(SUBSET DOMAIN EvType)
      /\ k.required \subseteq UNION {k.stages[i] : i \in DOMAIN k.stages}
      /\ Approval \in DOMAIN EvType /\ EvType[Approval] = "human"
      /\ ValidJobType(k)
      /\ k.faults \subseteq FaultKinds
      /\ {k.workRetries, k.evalRetries, k.reworks, k.cap, k.tasks, k.pushes, k.crashes}
             \subseteq Nat
      /\ k.tasks <= MaxTasks

\* What a round knows of its evaluators, and what is in memory of a job.
Outcomes == {"none", "open", "pass", "fail", "abort", "infra"}
Rounds(evs) == [stage : Nat, slot : [evs -> [task : Nat, out : Outcomes]]]
Slices(evs) == [cycle : Nat, reworks : Nat, sub : Nat, round : {None} \cup Rounds(evs)]

ASSUME NoneAssumption ==
    \A evs \in SUBSET DOMAIN EvType : None \notin Rounds(evs) /\ None \notin Slices(evs)

VARIABLES
    kind,      \* the kind of the job: it does not change
    approval,  \* the job requires the sign-off of an operator
    job,       \* state of the job record
    log,       \* the task log: a sequence of task records
    box,       \* the container of each task
    tip,       \* number of commits on the job branch
    claim,     \* the next attempt is claimed by a human
    esc,       \* the escalation stamped on the job
    slice,     \* execution state in memory: None, or cycle, reworks, sub, round
    watched,   \* tasks whose exit a monitor waits for
    draining,
    todo,      \* chores of the handler in progress
    crashes

memory == <<slice, watched, draining, todo>>
vars == <<kind, approval, job, log, box, tip, claim, esc, memory, crashes>>

\* The job type, and its budgets; RelaunchCap is INFRA_RELAUNCH_CAP.
WorkType == kind.work

\* The sign-off comes after every other evaluator, and is required.
WithApproval(stages) == stages \o IF approval THEN <<{Approval}>> ELSE <<>>
Stages == WithApproval(kind.stages)
Evaluators == UNION {Stages[i] : i \in DOMAIN Stages}
Required == kind.required \cup IF approval THEN {Approval} ELSE {}
WorkRetries == kind.workRetries
EvalRetries == kind.evalRetries
ReworkBudget == kind.reworks
RelaunchCap == kind.cap
Faults == kind.faults

Ended == {"ok", "bad", "silent", "refused", "gone"}
Tasks == DOMAIN log

-----------------------------------------------------------------------------
(* The task log. *)

Lineage(phase, c, about) ==
    {t \in Tasks : log[t].phase = phase /\ log[t].cycle = c /\ log[t].about = about}
WorkTasks(c) == Lineage("Work", c, "none")
Latest(ts) == IF ts = {} THEN 0 ELSE Max(ts)
TopCycle == Max({1} \cup {log[t].cycle : t \in Tasks})
Pending(t) == log[t].st = "Pending"

TypeOf(t) ==
    CASE log[t].phase = "Work"       -> WorkType
      [] log[t].phase = "Evaluation" -> EvType[log[t].about]
      [] OTHER -> "human"

NewTask(phase, about, c, n, st) ==
    [phase |-> phase, about |-> about, cycle |-> c, attempt |-> n, st |-> st,
     cid |-> FALSE, loss |-> FALSE, verdict |-> "none", by |-> 0,
     tip |-> IF phase = "Evaluation" THEN tip ELSE 0]

Create(task) ==
    /\ Len(log) < kind.tasks
    /\ log' = Append(log, task)
    /\ box' = Append(box, "none")

-----------------------------------------------------------------------------
(* The actor. *)

Idle == todo = <<>>
Doing(op) == ~Idle /\ Head(todo).op = op
Do(op, c, n, of) == <<[op |-> op, cycle |-> c, n |-> n, of |-> of]>>

\* The handler goes on with `chores', and then with those it had already.
Then(chores) == todo' = chores \o IF Idle THEN <<>> ELSE Tail(todo)

Launches(evs, n) ==
    [i \in 1..Cardinality(evs) |->
        [op |-> "launch", cycle |-> 0, n |-> n, of |-> SetToSeq(evs)[i]]]
LaunchStage(i) == Launches(Stages[i], 1) \o Do("slots", 0, i, "all")
Relaunch(ev, n) == Do("launch", 0, n, ev) \o Do("slots", 0, 0, ev)

-----------------------------------------------------------------------------
(* The execution slice and its round of evaluators. *)

EmptyRound == [stage |-> 1, slot |-> [ev \in Evaluators |-> [task |-> 0, out |-> "none"]]]

\* Mutant of Rebuilt: the new slice is at the cycle after the last one.
RebuiltAhead ==
    [cycle |-> TopCycle + 1, reworks |-> 0, sub |-> 0, round |-> None]

\* What is rebuilt from the log when there is no slice; the reworks are not.
Rebuilt ==
    LET last == Latest(WorkTasks(TopCycle)) IN
    [cycle |-> TopCycle, reworks |-> 0,
     sub |-> IF last = 0 THEN 0 ELSE log[last].by, round |-> None]
Ensured == IF slice = None THEN Rebuilt ELSE slice

Rounding == slice # None /\ slice.round # None
OpenSlot(t) ==
    /\ Rounding /\ log[t].phase = "Evaluation"
    /\ slice.round.slot[log[t].about] = [task |-> t, out |-> "open"]

\* The round a restart reads from the log: the last stage with a task is the
\* one in flight, and what has no verdict in an earlier one is a failure.
RoundFromLog(c) ==
    LET last(ev) == Latest(Lineage("Evaluation", c, ev))
        stage == Max({1} \cup {i \in DOMAIN Stages : \E ev \in Stages[i] : last(ev) # 0})
        out(ev) ==
          IF last(ev) = 0 THEN "infra"
          ELSE IF log[last(ev)].st = "Done"
                 THEN CASE log[last(ev)].verdict = "acted"  -> "pass"
                        [] log[last(ev)].verdict = "closed" -> "fail"
                        [] OTHER -> log[last(ev)].verdict
          ELSE IF log[last(ev)].st = "Failed" \/ ev \notin Stages[stage] THEN "infra" ELSE "open"
        ran == UNION {Stages[i] : i \in 1..stage}
    IN  [stage |-> stage,
         slot |-> [ev \in Evaluators |->
                     IF ev \in ran THEN [task |-> last(ev), out |-> out(ev)]
                     ELSE [task |-> 0, out |-> "none"]]]

-----------------------------------------------------------------------------
(* Decisions on the end of a task. *)

RetryWork(t) ==
    IF log[t].attempt <= WorkRetries
      THEN Do("attempt", log[t].cycle, log[t].attempt + 1, "none")
      ELSE Do("escalate", 0, t, "work")

\* An agent that exits 0 must leave a summary or commits.
WorkExited(t, how) ==
    LET by == IF log[t].by # 0 THEN log[t].by ELSE slice.sub
        produced == by # 0 \/ tip > 0 \/ job # "Work" \/ WorkType # "agent"
    IN  IF slice = None \/ log[t].st # "Running"
          THEN UNCHANGED <<log, slice>> /\ Then(<<>>)
        ELSE IF how = "ok" /\ produced
          THEN /\ log' = [log EXCEPT ![t].st = "Done", ![t].by = by]
               /\ UNCHANGED slice
               /\ Then(Do("evaluate", 0, 0, "none"))
          ELSE /\ log' = [log EXCEPT ![t].st = "Failed"]
               /\ UNCHANGED slice
               /\ Then(RetryWork(t))

Losses(t) ==
    Cardinality({u \in Lineage(log[t].phase, log[t].cycle, log[t].about) : log[u].loss} \ {t})

LostOr(t, again) ==
    IF Losses(t) + 1 > RelaunchCap THEN Do("escalate", 0, t, "loss") ELSE again

\* Mutant of SlotIs: nobody asks whether the round is settled.
SlotQuiet(t, out) ==
    /\ slice' = [slice EXCEPT !.round.slot[log[t].about].out = out]
    /\ Then(<<>>)

SlotIs(t, out) ==
    /\ slice' = [slice EXCEPT !.round.slot[log[t].about].out = out]
    /\ Then(Do("settle", 0, 0, "none"))

\* A refusal spends a retry; an exit without a verdict does not.
EvalExited(t, how) ==
    LET ev == log[t].about
        n == log[t].attempt
        refused == how = "refused" /\ EvType[ev] = "command"
        verdict == IF EvType[ev] = "agent" THEN log[t].verdict
                   ELSE IF how = "ok" THEN "pass" ELSE IF how = "bad" THEN "fail" ELSE "none"
    IN  IF ~OpenSlot(t) THEN UNCHANGED <<log, slice>> /\ Then(<<>>)
        ELSE IF refused /\ n <= EvalRetries
          THEN /\ log' = [log EXCEPT ![t].st = "Failed"]
               /\ UNCHANGED slice
               /\ Then(Relaunch(ev, n + 1))
        ELSE IF refused
          THEN log' = [log EXCEPT ![t].st = "Failed"] /\ SlotIs(t, "infra")
        ELSE IF verdict = "none"
          THEN /\ log' = [log EXCEPT ![t].st = "Failed", ![t].loss = TRUE]
               /\ UNCHANGED slice
               /\ Then(LostOr(t, Relaunch(ev, n)))
          ELSE /\ log' = [log EXCEPT ![t].st = "Done", ![t].verdict = verdict]
               /\ SlotIs(t, verdict)

TaskExited(t, how) ==
    IF log[t].phase = "Work" THEN WorkExited(t, how) ELSE EvalExited(t, how)

\* A container that was lost while the dispatcher was away.
InfraLost(t) ==
    IF slice = None THEN UNCHANGED <<log, slice>> /\ Then(<<>>)
    ELSE /\ log' = [log EXCEPT ![t].st = "Failed", ![t].loss = TRUE]
         /\ UNCHANGED slice
         /\ Then(IF log[t].phase = "Work"
                   THEN LostOr(t, Do("attempt", log[t].cycle, log[t].attempt, "none"))
                 ELSE IF Rounding /\ slice.round.slot[log[t].about].task = t
                   THEN LostOr(t, Relaunch(log[t].about, log[t].attempt))
                 ELSE <<>>)

-----------------------------------------------------------------------------
(* The chores of a handler. *)

\* Entering Work keeps the reworks of the slice it replaces.
EnterWork ==
    /\ Doing("enter")
    /\ job' = "Work"
    /\ slice' = [cycle |-> Head(todo).cycle,
                 reworks |-> IF slice = None THEN 0 ELSE slice.reworks,
                 sub |-> 0, round |-> None]
    /\ UNCHANGED <<log, box, tip, claim, esc, watched, draining, crashes, kind, approval>>
    /\ Then(Do("attempt", Head(todo).cycle, 1, "none"))

\* The launch-time validation fails: the slice, if there is one, is kept.
EnterRefused ==
    /\ Doing("enter") /\ "contract" \in Faults
    /\ job' = IF job = "Ready" THEN "Stalled" ELSE "Escalated"
    /\ esc' = [why |-> "contract", failing |-> 0]
    /\ UNCHANGED <<log, box, tip, claim, slice, watched, draining, crashes, kind, approval>>
    /\ Then(Do("inbox", 0, 0, "none"))

\* An attempt is either launched or parked for a human.
StartAttempt ==
    LET parked == WorkType = "human" \/ claim IN
    /\ Doing("attempt")
    /\ IF draining \/ slice = None
         THEN UNCHANGED <<log, box>> /\ Then(<<>>)
         ELSE /\ Create(NewTask("Work", "none", Head(todo).cycle, Head(todo).n,
                                IF parked THEN "Pending" ELSE "Running"))
              /\ Then(IF claim THEN Do("unclaim", 0, 0, "none")
                      ELSE IF parked THEN <<>> ELSE Do("place", 0, Len(log) + 1, "none"))
    /\ UNCHANGED <<job, tip, claim, esc, slice, watched, draining, crashes, kind, approval>>

Unclaim ==
    /\ Doing("unclaim")
    /\ claim' = FALSE
    /\ UNCHANGED <<job, log, box, tip, esc, slice, watched, draining, crashes, kind, approval>>
    /\ Then(<<>>)

\* A command runs under the actor, which stamps its id; an agent reports it.
Place ==
    /\ Doing("place")
    /\ LET t == Head(todo).n IN
         \E placed \in {"up"} \cup IF "launch" \in Faults THEN {"refused"} ELSE {} :
           /\ box' = [box EXCEPT ![t] = placed]
           /\ watched' = watched \cup {t}
           /\ Then(IF placed = "up" /\ TypeOf(t) = "command"
                     THEN Do("stamp", 0, t, "none") ELSE <<>>)
    /\ UNCHANGED <<job, log, tip, claim, esc, slice, draining, crashes, kind, approval>>

\* Nothing is placed, the error ends the handler, and the task stays Running.
PlaceFails ==
    /\ Doing("place") /\ "setup" \in Faults
    /\ todo' = <<>>
    /\ UNCHANGED <<job, log, box, tip, claim, esc, slice, watched, draining, crashes, kind, approval>>

Stamp ==
    /\ Doing("stamp")
    /\ log' = [log EXCEPT ![Head(todo).n].cid = TRUE]
    /\ UNCHANGED <<job, box, tip, claim, esc, slice, watched, draining, crashes, kind, approval>>
    /\ Then(<<>>)

\* Draining, the job is left in the state it is in.
EnterEvaluation ==
    /\ Doing("evaluate")
    /\ IF draining \/ slice = None
         THEN UNCHANGED <<job, slice>> /\ Then(<<>>)
         ELSE /\ job' = "Evaluation"
              /\ slice' = [slice EXCEPT !.round = IF Stages = <<>> THEN None ELSE EmptyRound]
              /\ Then(IF Stages = <<>> THEN Do("finalize", 0, 0, "none") ELSE LaunchStage(1))
    /\ UNCHANGED <<log, box, tip, claim, esc, watched, draining, crashes, kind, approval>>

LaunchEvaluator ==
    /\ Doing("launch")
    /\ LET ev == Head(todo).of
           human == EvType[ev] = "human"
       IN  /\ Create(NewTask("Evaluation", ev, slice.cycle, Head(todo).n,
                             IF human THEN "Pending" ELSE "Running"))
           /\ Then(IF human THEN <<>> ELSE Do("place", 0, Len(log) + 1, "none"))
    /\ UNCHANGED <<job, tip, claim, esc, slice, watched, draining, crashes, kind, approval>>

\* Mutant of InstallSlots: a relaunched slot keeps waiting for the lost task.
InstallStageOnly ==
    /\ Doing("slots")
    /\ slice' = IF Head(todo).of # "all" THEN slice
                ELSE [slice EXCEPT !.round.stage = Head(todo).n,
                        !.round.slot = [ev \in Evaluators |->
                          IF ev \in Stages[Head(todo).n]
                            THEN [task |-> Latest(Lineage("Evaluation", slice.cycle, ev)),
                                  out |-> "open"]
                            ELSE @[ev]]]
    /\ UNCHANGED <<job, log, box, tip, claim, esc, watched, draining, crashes, kind, approval>>
    /\ Then(<<>>)

InstallSlots ==
    /\ Doing("slots")
    /\ LET evs == IF Head(todo).of = "all" THEN Stages[Head(todo).n] ELSE {Head(todo).of} IN
         slice' = [slice EXCEPT
           !.round.stage = IF Head(todo).of = "all" THEN Head(todo).n ELSE @,
           !.round.slot = [ev \in Evaluators |->
              IF ev \in evs
                THEN [task |-> Latest(Lineage("Evaluation", slice.cycle, ev)), out |-> "open"]
                ELSE @[ev]]]
    /\ UNCHANGED <<job, log, box, tip, claim, esc, watched, draining, crashes, kind, approval>>
    /\ Then(<<>>)

Outs(evs) == {slice.round.slot[ev].out : ev \in evs}
Settled == Rounding /\ "open" \notin Outs(Stages[slice.round.stage])
StagePassed == Outs(Stages[slice.round.stage] \cap Required) \subseteq {"pass"}

\* Mutant of Reduce: an abort does not count against the round.
ReduceAborted ==
    LET outs == Outs((UNION {Stages[i] : i \in 1..slice.round.stage}) \cap Required) IN
    IF outs \subseteq {"pass", "abort"} THEN Do("finalize", 0, 0, "none")
    ELSE IF slice.reworks >= ReworkBudget THEN Do("escalate", 0, 0, "rework")
    ELSE Do("enter", slice.cycle + 1, 0, "none")

\* The verdict of all the stages that ran.
Reduce ==
    LET outs == Outs((UNION {Stages[i] : i \in 1..slice.round.stage}) \cap Required) IN
    IF "infra" \in outs THEN Do("escalate", 0, 0, "infra")
    ELSE IF outs \subseteq {"pass"} THEN Do("finalize", 0, 0, "none")
    ELSE IF "abort" \in outs THEN Do("escalate", 0, 0, "abort")
    ELSE IF WorkType = "command" \/ slice.reworks >= ReworkBudget
      THEN Do("escalate", 0, 0, "rework")
    ELSE Do("enter", slice.cycle + 1, 0, "none")

\* Mutant of Settle: a rework does not count.
SettleUncounted ==
    /\ Doing("settle")
    /\ IF ~Settled \/ draining
         THEN UNCHANGED slice /\ Then(<<>>)
       ELSE IF StagePassed /\ slice.round.stage < Len(Stages)
         THEN UNCHANGED slice /\ Then(LaunchStage(slice.round.stage + 1))
         ELSE slice' = [slice EXCEPT !.round = None] /\ Then(Reduce)
    /\ UNCHANGED <<job, log, box, tip, claim, esc, watched, draining, crashes, kind, approval>>

Settle ==
    /\ Doing("settle")
    /\ IF ~Settled \/ draining
         THEN UNCHANGED slice /\ Then(<<>>)
       ELSE IF StagePassed /\ slice.round.stage < Len(Stages)
         THEN UNCHANGED slice /\ Then(LaunchStage(slice.round.stage + 1))
         ELSE /\ slice' = [slice EXCEPT !.round = None,
                                        !.reworks = IF Reduce[1].op = "enter" THEN @ + 1 ELSE @]
              /\ Then(Reduce)
    /\ UNCHANGED <<job, log, box, tip, claim, esc, watched, draining, crashes, kind, approval>>

Finalize ==
    /\ Doing("finalize")
    /\ job' = "WrapUp"
    /\ UNCHANGED <<log, box, tip, claim, esc, slice, watched, draining, crashes, kind, approval>>
    /\ Then(<<>>)

\* The slice is dropped first; no job but one at work may be escalated.
Escalate ==
    /\ Doing("escalate")
    /\ slice' = None
    /\ IF job \in {"Work", "Evaluation"}
         THEN /\ job' = "Escalated"
              /\ esc' = [why |-> Head(todo).of, failing |-> Head(todo).n]
              /\ Then(Do("inbox", 0, 0, "none"))
         ELSE UNCHANGED <<job, esc>> /\ todo' = <<>>
    /\ UNCHANGED <<log, box, tip, claim, watched, draining, crashes, kind, approval>>

FillInbox ==
    /\ Doing("inbox")
    /\ Create(NewTask("Escalation", esc.why, TopCycle, 1, "Pending"))
    /\ UNCHANGED <<job, tip, claim, esc, slice, watched, draining, crashes, kind, approval>>
    /\ Then(<<>>)

-----------------------------------------------------------------------------
(* What an operator chose. *)

\* A Retry resumes at the phase that failed.
RetryPhase ==
    IF esc.failing # 0 THEN log[esc.failing].phase = "Evaluation"
    ELSE esc.why \in {"infra", "abort", "rework"}

Retry ==
    /\ Doing("retry")
    /\ slice' = Ensured
    /\ IF RetryPhase
         THEN UNCHANGED job /\ Then(Do("evaluate", 0, 0, "none"))
         ELSE /\ job' = "Work"
              /\ LET c == Ensured.cycle
                     n == Max({0} \cup {log[t].attempt : t \in WorkTasks(c)})
                 IN  Then(Do("attempt", c, n + 1, "none"))
    /\ UNCHANGED <<log, box, tip, claim, esc, watched, draining, crashes, kind, approval>>

\* A Stalled job is validated again; it may fail again.
PreworkRetry ==
    /\ Doing("prework")
    /\ \/ job' = "Ready" /\ Then(<<>>)
       \/ "contract" \in Faults /\ UNCHANGED job /\ Then(Do("inbox", 0, 0, "none"))
    /\ UNCHANGED <<log, box, tip, claim, esc, slice, watched, draining, crashes, kind, approval>>

Kill(ts) == [t \in Tasks |-> IF t \in ts /\ box[t] = "up" THEN "silent" ELSE box[t]]
Stamped == {t \in Tasks : log[t].st = "Running" /\ log[t].cid}

\* The containers are killed and the inbox is closed before the state is set.
RevokeJob ==
    /\ Doing("revoke")
    /\ IF \E t \in Tasks : Pending(t)
         THEN /\ box' = Kill(Stamped)
              /\ log' = [t \in Tasks |-> IF Pending(t)
                           THEN [log[t] EXCEPT !.st = "Done", !.verdict = "closed"] ELSE log[t]]
              /\ slice' = None
              /\ UNCHANGED <<job, todo>>
         ELSE box' = Kill(Stamped) /\ slice' = None /\ job' = "Revoked" /\ UNCHANGED log
              /\ Then(<<>>)
    /\ UNCHANGED <<tip, claim, esc, watched, draining, crashes, kind, approval>>

-----------------------------------------------------------------------------
(* The steps of a restart. *)

RecoverWork(c) ==
    LET last == Latest(WorkTasks(c)) IN
    IF last = 0 THEN Do("attempt", c, 1, "none")
    ELSE CASE log[last].st = "Pending" -> <<>>
           [] log[last].st = "Running" -> Do("attach", 0, last, "none")
           [] log[last].st = "Done"    -> Do("evaluate", 0, 0, "none")
           [] log[last].st = "Failed"  -> RetryWork(last)

Attaches(ts) ==
    [i \in 1..Cardinality(ts) |->
        [op |-> "attach", cycle |-> 0, n |-> SetToSeq(ts)[i], of |-> "none"]]

RecoverEvaluation(c) ==
    IF Stages = <<>> THEN Do("finalize", 0, 0, "none")
    ELSE LET last(ev) == Latest(Lineage("Evaluation", c, ev))
             evs == Stages[RoundFromLog(c).stage]
             running == {last(ev) : ev \in {e \in evs :
                                               last(e) # 0 /\ log[last(e)].st = "Running"}}
         IN  Launches({ev \in evs : last(ev) = 0}, 1) \o Do("rebuild", c, 0, "none")
             \o Attaches(running)
             \o IF \A ev \in evs : last(ev) # 0 /\ log[last(ev)].st \in {"Done", "Failed"}
                  THEN Do("settle", 0, 0, "none") ELSE <<>>

Recover ==
    LET inbox == \E t \in Tasks : log[t].phase = "Escalation" /\ Pending(t) IN
    /\ Doing("recover")
    /\ slice' = IF job \in {"Work", "Evaluation"} THEN Rebuilt ELSE None
    /\ Then(CASE job = "Work"       -> RecoverWork(Rebuilt.cycle)
              [] job = "Evaluation" -> RecoverEvaluation(Rebuilt.cycle)
              [] job \in {"Escalated", "Stalled"} /\ ~inbox -> Do("inbox", 0, 0, "none")
              [] OTHER -> <<>>)
    /\ UNCHANGED <<job, log, box, tip, claim, esc, watched, draining, crashes, kind, approval>>

\* A container that is not found, or whose node does not answer, is lost; one
\* that never reported an id is an ordinary failure.
Attach ==
    /\ Doing("attach")
    /\ LET t == Head(todo).n IN
         \/ /\ log[t].cid /\ (box[t] = "gone" \/ "unreachable" \in Faults)
            /\ InfraLost(t) /\ UNCHANGED watched
         \/ /\ log[t].cid /\ box[t] # "gone"
            /\ IF log[t].phase = "Work" \/ box[t] = "up"
                 THEN watched' = watched \cup {t} /\ UNCHANGED <<log, slice>> /\ Then(<<>>)
                 ELSE TaskExited(t, box[t]) /\ UNCHANGED watched
         \/ /\ ~log[t].cid
            /\ TaskExited(t, "silent") /\ UNCHANGED watched
    /\ UNCHANGED <<job, box, tip, claim, esc, draining, crashes, kind, approval>>

Rebuild ==
    /\ Doing("rebuild")
    /\ slice' = [slice EXCEPT !.round = RoundFromLog(Head(todo).cycle)]
    /\ UNCHANGED <<job, log, box, tip, claim, esc, watched, draining, crashes, kind, approval>>
    /\ Then(<<>>)

\* Containers of no Running task are killed, on the nodes that answer.
Sweep ==
    /\ Doing("sweep")
    /\ \/ box' = Kill({t \in Tasks : log[t].st # "Running"})
       \/ "unreachable" \in Faults /\ UNCHANGED box
    /\ UNCHANGED <<job, log, tip, claim, esc, slice, watched, draining, crashes, kind, approval>>
    /\ Then(<<>>)

-----------------------------------------------------------------------------
(* Messages. *)

\* What becomes of the job once it is handed over or revoked is not followed.
Listening == Idle /\ job \notin {"WrapUp", "Revoked"}
Followed == ~Idle \/ Listening

StartJob ==
    /\ Listening /\ job = "Ready" /\ ~draining
    /\ todo' = Do("enter", 1, 0, "none")
    /\ UNCHANGED <<job, log, box, tip, claim, esc, slice, watched, draining, crashes, kind, approval>>

\* The monitor removes the container when it has read what it left.
Exit(t) ==
    /\ Listening /\ t \in watched /\ box[t] \in Ended
    /\ watched' = watched \ {t}
    /\ box' = [box EXCEPT ![t] = "gone"]
    /\ TaskExited(t, IF box[t] = "gone" THEN "silent" ELSE box[t])
    /\ UNCHANGED <<job, tip, claim, esc, draining, crashes, kind, approval>>

ContainerStarted(t) ==
    /\ Listening /\ t \in watched /\ box[t] \notin {"none", "refused"} /\ ~log[t].cid
    /\ log' = [log EXCEPT ![t].cid = TRUE]
    /\ UNCHANGED <<job, box, tip, claim, esc, memory, crashes, kind, approval>>

\* request_with_retry: each attempt at a submission is a message of its own, and
\* one that waits in the mailbox outlives its container, but not the dispatcher.
Arrives(t) ==
    \/ box[t] = "up"
    \/ "late" \in Faults /\ crashes = 0 /\ box[t] \notin {"none", "refused"}

\* The summary is kept for the cycle, and on the attempt that is Running.
SubmitResult(t) ==
    /\ Listening /\ Arrives(t) /\ log[t].phase = "Work" /\ slice # None
    /\ slice' = [slice EXCEPT !.sub = t]
    /\ LET running == Latest({u \in WorkTasks(slice.cycle) : log[u].st = "Running"}) IN
         log' = IF running = 0 THEN log ELSE [log EXCEPT ![running].by = t]
    /\ UNCHANGED <<job, box, tip, claim, esc, watched, draining, todo, crashes, kind, approval>>

SubmitEval(t) ==
    /\ Listening /\ Arrives(t) /\ log[t].phase = "Evaluation" /\ TypeOf(t) = "agent"
    /\ log[t].st # "Done"
    /\ \E v \in {"pass", "fail", "abort"} :
         log' = [log EXCEPT ![t].st = "Done", ![t].verdict = v]
    /\ UNCHANGED <<job, box, tip, claim, esc, memory, crashes, kind, approval>>

-----------------------------------------------------------------------------
(* Operators: the state of the job, not the task, says what is accepted. *)

\* Mutant of Close: the answer is recorded and the task stays open.
CloseLeft(t, st, v) == log' = [log EXCEPT ![t].verdict = v]

Close(t, st, v) == log' = [log EXCEPT ![t].st = st, ![t].verdict = v]

ResolveEscalation(t) ==
    /\ Listening /\ Pending(t) /\ job \in {"Escalated", "Stalled"}
    /\ Close(t, "Done", "acted")
    /\ \/ Then(IF job = "Escalated" THEN Do("retry", 0, 0, "none")
               ELSE Do("prework", 0, 0, "none")) /\ UNCHANGED slice
       \/ job = "Escalated" /\ slice' = Ensured /\ Then(Do("evaluate", 0, 0, "none"))
       \/ "operator" \in Faults /\ Then(Do("revoke", 0, 0, "none")) /\ UNCHANGED slice
    /\ UNCHANGED <<job, box, tip, claim, esc, watched, draining, crashes, kind, approval>>

ResolveWork(t) ==
    /\ Listening /\ Pending(t) /\ job = "Work"
    /\ slice' = Ensured
    /\ \/ Close(t, "Done", "pass") /\ Then(Do("evaluate", 0, 0, "none"))
       \/ Close(t, "Failed", "fail") /\ Then(RetryWork(t))
    /\ UNCHANGED <<job, box, tip, claim, esc, watched, draining, crashes, kind, approval>>

\* The task is closed before it is asked whether the round waits for it.
ResolveEval(t) ==
    /\ Listening /\ Pending(t) /\ job = "Evaluation"
    /\ \E v \in {"pass", "fail", "abort"} :
         /\ Close(t, "Done", v)
         /\ IF OpenSlot(t) THEN SlotIs(t, v) ELSE UNCHANGED <<slice, todo>>
    /\ UNCHANGED <<job, box, tip, claim, esc, watched, draining, crashes, kind, approval>>

ClaimJob ==
    /\ Listening /\ "claim" \in Faults /\ ~claim /\ job \notin {"WrapUp", "Revoked"}
    /\ \A t \in Tasks : log[t].phase = "Work" =>
          log[t].st # "Running" /\ ~(Pending(t) /\ job = "Work")
    /\ claim' = TRUE
    /\ UNCHANGED <<job, log, box, tip, esc, memory, crashes, kind, approval>>

UnclaimJob ==
    /\ Listening /\ claim
    /\ claim' = FALSE
    /\ UNCHANGED <<job, log, box, tip, esc, memory, crashes, kind, approval>>

\* The criteria are resolved when the job enters Work.
SetRequireApproval ==
    /\ Listening /\ "approval" \in Faults /\ job \in {"Ready", "Stalled"}
    /\ approval' = ~approval
    /\ UNCHANGED <<job, log, box, tip, claim, esc, memory, crashes, kind>>

Revoke ==
    /\ Listening /\ "operator" \in Faults /\ job \notin {"WrapUp", "Revoked"}
    /\ todo' = Do("revoke", 0, 0, "none")
    /\ UNCHANGED <<job, log, box, tip, claim, esc, slice, watched, draining, crashes, kind, approval>>

-----------------------------------------------------------------------------
(* The clock, the containers and the process. *)

TimeoutScan(t) ==
    /\ Listening /\ slice # None /\ log[t].st = "Running"
    /\ log[t].cid \/ box[t] # "up" \/ "unstamped" \in Faults
    /\ box' = IF log[t].cid THEN Kill({t}) ELSE box
    /\ TaskExited(t, "silent")
    /\ UNCHANGED <<job, tip, claim, esc, watched, draining, crashes, kind, approval>>

\* The tasks whose containers it kills stay Running.
DeadlineScan ==
    /\ Listening /\ "deadline" \in Faults /\ job \in {"Ready", "Work", "Evaluation"}
    /\ ~\E t \in Tasks : log[t].about = "deadline" /\ log[t].verdict \in {"acted", "closed"}
    /\ box' = Kill(Stamped)
    /\ slice' = None
    /\ job' = IF job = "Ready" THEN "Stalled" ELSE "Escalated"
    /\ esc' = [why |-> "deadline", failing |-> 0]
    /\ todo' = Do("inbox", 0, 0, "none")
    /\ UNCHANGED <<log, tip, claim, watched, draining, crashes, kind, approval>>

\* Of a command all is read, of work whether it is 0, of a review nothing.
Endings(t) ==
    IF log[t].phase = "Work" THEN {"ok", "bad"}
    ELSE IF TypeOf(t) = "agent" THEN {"ok"} ELSE {"ok", "bad", "silent"}

BoxEnds(t) ==
    /\ Followed /\ box[t] = "up"
    /\ \E how \in Endings(t) : box' = [box EXCEPT ![t] = how]
    /\ UNCHANGED <<job, log, tip, claim, esc, memory, crashes, kind, approval>>

Vanish(t) ==
    /\ Followed /\ "vanish" \in Faults /\ box[t] \notin {"none", "refused", "gone"}
    /\ box' = [box EXCEPT ![t] = "gone"]
    /\ UNCHANGED <<job, log, tip, claim, esc, memory, crashes, kind, approval>>

\* A commit by the container of an agent, or by a human who has the job.
Push ==
    /\ Followed /\ tip < kind.pushes
    /\ \/ \E t \in Tasks : /\ log[t].phase = "Work"
                           /\ box[t] = "up" \/ Pending(t)
       \/ Idle /\ "operator" \in Faults /\ job = "Escalated"
    /\ WorkType # "command"
    /\ tip' = tip + 1
    /\ UNCHANGED <<job, log, box, claim, esc, memory, crashes, kind, approval>>

Drain ==
    /\ Listening /\ "drain" \in Faults /\ ~draining /\ crashes < kind.crashes
    /\ draining' = TRUE
    /\ UNCHANGED <<job, log, box, tip, claim, esc, slice, watched, todo, crashes, kind, approval>>

\* The process ends and starts again.  A drain that comes to its end stamps
\* the ids of the containers first; the sweep follows the recovery.
Restart ==
    /\ Followed /\ crashes < kind.crashes
    /\ crashes' = crashes + 1
    /\ log' = [t \in Tasks |-> IF draining /\ Idle /\ log[t].st = "Running" /\ box[t] = "up"
                                 THEN [log[t] EXCEPT !.cid = TRUE] ELSE log[t]]
    /\ slice' = None /\ watched' = {} /\ draining' = FALSE
    /\ todo' = Do("recover", 0, 0, "none") \o Do("sweep", 0, 0, "none")
    /\ UNCHANGED <<job, box, tip, claim, esc, kind, approval>>

Init ==
    /\ kind \in Kinds /\ approval = FALSE
    /\ job = "Ready" /\ log = <<>> /\ box = <<>> /\ tip = 0 /\ claim = FALSE
    /\ esc = [why |-> "none", failing |-> 0]
    /\ slice = None /\ watched = {} /\ draining = FALSE /\ todo = <<>> /\ crashes = 0

Handle ==
    \/ EnterWork \/ EnterRefused \/ StartAttempt \/ Unclaim \/ Place \/ PlaceFails \/ Stamp
    \/ EnterEvaluation \/ LaunchEvaluator \/ InstallSlots \/ Settle \/ Finalize
    \/ Escalate \/ FillInbox \/ Retry \/ PreworkRetry \/ RevokeJob
    \/ Recover \/ Attach \/ Rebuild \/ Sweep

Scan == DeadlineScan \/ \E t \in Tasks : TimeoutScan(t)

Report == \E t \in Tasks : Exit(t) \/ ContainerStarted(t) \/ SubmitResult(t) \/ SubmitEval(t)

Operate ==
    \/ \E t \in Tasks : ResolveEscalation(t) \/ ResolveWork(t) \/ ResolveEval(t)
    \/ ClaimJob \/ UnclaimJob \/ SetRequireApproval \/ Revoke

Containers == Push \/ \E t \in Tasks : BoxEnds(t) \/ Vanish(t)

Next ==
    Handle \/ StartJob \/ Scan \/ Report \/ Operate \/ Containers \/ Drain \/ Restart

Spec == Init /\ [][Next]_vars

\* The actor handles what it has, the monitors report, time passes, and an agent
\* is killed by its own monitor when it overruns (agent/src/claude.rs); what a
\* command does is seen to by the timeout scan alone.
FairSpec ==
    /\ Spec
    /\ WF_vars(Handle) /\ WF_vars(StartJob)
    /\ \A t \in 1..MaxTasks :
         /\ WF_vars(t \in Tasks /\ (Exit(t) \/ ContainerStarted(t)))
         /\ WF_vars(t \in Tasks /\ TimeoutScan(t))
         /\ WF_vars(t \in Tasks /\ TypeOf(t) = "agent" /\ BoxEnds(t))
    /\ WF_vars(draining /\ Restart)

-----------------------------------------------------------------------------
(* Properties. *)

InFlight == {t \in Tasks : log[t].phase = "Work" /\ log[t].st \in {"Running", "Pending"}}
Acted == Cardinality({t \in Tasks : log[t].phase = "Escalation" /\ log[t].verdict = "acted"})

\* The state of the job says what an answer is for, not the task it is given to:
\* beside a human evaluator of the job type, or after a deadline, which leaves
\* tasks open, an old task can be answered in the place of another.
OneInbox ==
    /\ "deadline" \notin Faults
    /\ \A i \in DOMAIN kind.stages : \A ev \in kind.stages[i] : EvType[ev] # "human"

\* At most one attempt at the work is in flight, and none once it is evaluated:
\* "at most one attempt in flight per job" (invariants.rs), kept by no single
\* guard but by the way launches, exits, claims and restarts fit together.
OneAttempt ==
    Idle /\ OneInbox =>
        Cardinality(InFlight) <= 1 /\ (job = "Evaluation" => InFlight = {})

\* No container works on the branch but that of the attempt in flight, as long
\* as every container can be reached and has reported its id, and no error cuts
\* a restart short before its sweep.
OneContainer ==
    /\ Idle /\ OneInbox /\ Faults \cap {"unreachable", "unstamped"} = {}
    /\ "setup" \in Faults => crashes = 0
    => \A t \in Tasks :
        log[t].phase = "Work" /\ box[t] = "up" => log[t].st = "Running" \/ job = "Revoked"

\* A job is handed over on the verdicts of its last cycle, each reached on the
\* commit that lands: what enter_evaluation and the fold of the round must agree
\* on.  (A restart rereads the verdicts of the cycle, whichever round they are of;
\* a relaunch that fails leaves the slot to the task before.)
LandsWhatWasEvaluated ==
    /\ job = "WrapUp" /\ crashes = 0
    /\ OneInbox /\ Faults \cap {"setup", "unstamped"} = {}
    => \A ev \in Required :
        LET t == Latest(Lineage("Evaluation", TopCycle, ev)) IN
        t # 0 /\ log[t].st = "Done" /\ log[t].verdict = "pass" /\ log[t].tip = tip

\* The rework budget of decide_product_failure bounds the cycles, but for a
\* grant of its own from every answered escalation, until a restart forgets what
\* has been spent.
ReworkBudgetHolds == crashes = 0 /\ OneInbox => TopCycle - 1 <= ReworkBudget * (1 + Acted)

\* work_retries and eval_retries bound the failures of a cycle; every answered
\* escalation grants them once more, and so does a restart that finds a rework
\* without an attempt and evaluates the cycle before again.
RetriesWithinBudget ==
    OneInbox => \A t \in Tasks :
        LET failures == Cardinality({u \in Lineage(log[t].phase, log[t].cycle, log[t].about) :
                                        log[u].st = "Failed" /\ ~log[u].loss})
            budget == IF log[t].phase = "Work" THEN WorkRetries ELSE EvalRetries
        IN  failures <= (1 + budget) * (1 + Acted + crashes)

\* Relaunches that spend no retry are bounded too (INFRA_RELAUNCH_CAP), in the
\* log, so that a restart does not forget them; it may take the last loss of an
\* attempt for a failure, and try again.
LossesWithinCap ==
    OneInbox => \A t \in Tasks :
        Cardinality({u \in Lineage(log[t].phase, log[t].cycle, log[t].about) : log[u].loss})
            <= RelaunchCap + 1 + Acted + crashes

\* A parked job has an open escalation task: the only way out of its state.
\* Kept by decide/escalation.rs and the heal of the restart; a drain may swallow
\* what an answer asks for, until the restart it is for.
InboxHolds ==
    Idle /\ ~draining /\ job \in {"Escalated", "Stalled"} =>
        \E t \in Tasks : log[t].phase = "Escalation" /\ Pending(t)

\* A revoked job keeps no live inbox item (close_pending_tasks).
NoInboxAfterRevoke == job = "Revoked" => \A t \in Tasks : ~Pending(t)

\* The slots of a round are the latest tasks of their evaluators, and an open
\* one has a task that is not over, but for a verdict already submitted: an
\* exit that arrives is never taken for that of another task.  (A relaunch that
\* fails leaves the slot to the task before.)
SlotsAreLatest ==
    Idle /\ Rounding /\ "setup" \notin Faults => \A ev \in Evaluators :
        LET slot == slice.round.slot[ev] IN
        /\ slot.task = IF slot.out = "none" THEN slot.task ELSE
                         Latest(Lineage("Evaluation", slice.cycle, ev))
        /\ slot.out = "open" => log[slot.task].st # "Failed"

\* An operator's answer takes the job out of the inbox it came from: no
\* escalation task is open while the job executes.
NoStaleEscalation ==
    Idle /\ OneInbox /\ job \in {"Work", "Evaluation"} =>
        \A t \in Tasks : log[t].phase = "Escalation" => ~Pending(t)

\* One attempt at the work, and one container that works on the branch.
OneAtATime == OneAttempt /\ OneContainer

\* Every budget of the job type bounds what it is for: reworks, retries, losses.
BudgetsHold == ReworkBudgetHolds /\ RetriesWithinBudget /\ LossesWithinCap

\* The inbox shows what waits for an operator, and nothing that does not.
InboxIsTrue == InboxHolds /\ NoInboxAfterRevoke /\ NoStaleEscalation

Waiting == \E t \in Tasks : Pending(t)

\* A job that executes gets somewhere: to the landing queue, to an operator, or
\* to a task that waits for a human.  No exit is lost for good, by a crash or
\* by the drain; the timeouts see to the containers that never end.  Where the
\* bound on the log is reached nothing is claimed.
MovesOn ==
    job \in {"Work", "Evaluation"} ~>
        job \notin {"Work", "Evaluation"} \/ Waiting \/ Len(log) = kind.tasks
================================================================================
