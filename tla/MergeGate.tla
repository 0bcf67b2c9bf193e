------------------------------- MODULE MergeGate -------------------------------
(***************************************************************************)
(* The landing pipeline of one project: the queue of jobs in WrapUp, the   *)
(* depth-1 merge gate, the promote compare-and-swap, the rework and        *)
(* gate-fix re-entries, the post-merge publish, and restart recovery.      *)
(*                                                                         *)
(* The dispatcher is one actor.  A message handler runs to its end before  *)
(* the next message is read, so while `pc' is not "idle" no other message  *)
(* is handled; but a handler awaits git and KV writes on the way, and the  *)
(* process can die at any of them.  Each value of `pc' is such a point:    *)
(*                                                                         *)
(*   idle     the mailbox              landed    the squash is on the trunk *)
(*   pump     pump_merges' loop        complete  complete_done, then pump   *)
(*   start    a candidate was popped   shipped   complete_done, then return *)
(*   opening  `gating' is set, stage not launched   reduce  gate_reduce     *)
(*   rebased  rework: branch rebased, base_ref not yet pinned               *)
(*   pinned   rework: base_ref pinned, job still in WrapUp                  *)
(*   launch   rework: job in Work, its task not created                     *)
(*   entry    enter_evaluation     fanout   in Evaluation, no evaluator yet *)
(*   recover  restart reconciliation                                        *)
(*                                                                         *)
(* Sources: domain/src/decide/merge_gate.rs and wrapup.rs (decisions),     *)
(* dispatcher/src/eval.rs and exec.rs (the folds that run them),           *)
(* reconcile.rs (restart), forge_ingest/origin.rs (the release hold).      *)
(*                                                                         *)
(* Abstracted: the default branch is its position `head' (a commit is only *)
(* ever added on top); a job branch is what a merge of it can find there.  *)
(* The run of a work task, or of a round of evaluators, is one step.  The  *)
(* exit of a gate task that is not an open slot of the round in flight is  *)
(* dropped by the code, and left out here.                                 *)
(***************************************************************************)
EXTENDS Integers, FiniteSets, SequencesExt

CONSTANTS
    Jobs,        \* job sequence numbers of the project
    None,        \* no job, no gate round, no pending rework
    Evals,       \* names of the required command evaluators
    Stage,       \* Stage[e]: the gate stage of evaluator e
    Gated,       \* jobs whose type declares those evaluators
    Publishes,   \* jobs whose type declares a wrap_up.run command
    ScratchOnly, \* jobs whose type declares wrap_up: none
    Faults,      \* what may go wrong in this instance
    MaxCycle,    \* bound: work cycles of one job
    MaxCrashes,  \* bound: restarts of the dispatcher
    MaxMoves     \* bound: origin releases, and commits made on the origin

(***************************************************************************)
(* Faults:                                                                 *)
(*   git            a git or KV call of a landing fails                    *)
(*   skew           a branch's config needs another dispatcher version, or *)
(*                  a declared secret has gone                             *)
(*   promote        git refuses to advance the default branch to a candidate *)
(*   stageLaunch    launching a gate stage fails part-way                  *)
(*   queueTimeout   a gate launch waits too long for a fleet slot          *)
(*   syncInGate     an origin sync moves the trunk while a gate runs       *)
(*   crashInRework  the process dies between a rework's new base_ref and   *)
(*                  its transition to Work                                 *)
(*   crashInFanout  the process dies between the transition to Evaluation  *)
(*                  and the creation of the evaluators' tasks              *)
(*   reworkInCycle  a job is worked on again, by an operator's retry or a  *)
(*                  restart's, in a cycle that has a publish task          *)
(***************************************************************************)
FaultKinds == {"git", "skew", "promote", "stageLaunch", "queueTimeout", "syncInGate",
               "crashInRework", "crashInFanout", "reworkInCycle"}

ASSUME NoneAssumption == None \notin Jobs
ASSUME StageAssumption == Evals # {} /\ IsFiniteSet(Evals) /\ Stage \in [Evals -> Nat]
ASSUME TypesAssumption == Gated \cup Publishes \cup ScratchOnly \subseteq Jobs
ASSUME FaultsAssumption == Faults \subseteq FaultKinds
ASSUME BoundsAssumption == MaxCycle \in Nat /\ MaxCrashes \in Nat /\ MaxMoves \in Nat

\* Gate-fix rounds allowed per landing.
GATE_FIX_BUDGET == 2

JobStates == {"Work", "Evaluation", "WrapUp", "Done", "Escalated", "Revoked"}
Terminal == {"Done", "Revoked"}

\* A job branch: nothing beyond its base, mergeable commits, or a conflict
\* committed with its markers for the agent to resolve.
Branches == {"empty", "clean", "markers"}

TaskStates == {"none", "running", "done", "failed"}

\* One evaluator of a gate round.
SlotStates == {"unlaunched", "open", "pass", "fail"}

\* A gate round: the head its candidate was built on, and its evaluators.
Rounds == [oldHead : Nat, slots : [Evals -> SlotStates]]
ASSUME RoundsAssumption == None \notin Rounds

\* Nothing has verified what the branch now holds.
Unverified == -1

VARIABLES
    \* --- persisted: job records, git, task log
    jstate,      \* Job.state
    base,        \* Job.base_ref, a position of the default branch
    branch,      \* contents of job/{seq}
    retryAt,     \* phase an escalation Retry resumes at
    cycle,       \* highest cycle in the job's task log
    workTask,    \* state of the latest work task of that cycle
    fixTask,     \* its rework_reason is GateCompileFix
    fixes,       \* cycles that have a work task stamped GateCompileFix
    evals,       \* what its evaluation tasks, the latest of each name, add up to
    publish,     \* state of the latest WrapUp-phase task of that cycle
    \* --- persisted: the project's default branch and its release record
    head,        \* position of the default branch
    ahead,       \* it has commits the origin's main branch has not
    held,        \* an origin release is Open
    \* --- in memory, lost by a crash
    exec,        \* jobs with an execution slice
    execCycle,   \* ExecState.cycle
    execFix,     \* ExecState.rework_reason is GateCompileFix
    fixUsed,     \* ExecState.gate_fix_used
    gate,        \* ExecState.gate: the gate round in flight
    queue,       \* MergeGateState.queue
    gating,      \* MergeGateState.gating
    pending,     \* MergeGateState.pending_rework
    draining,    \* a graceful drain was requested
    \* --- the handler the actor is in: where, for which job, for a gate fix
    pc, cur, asFix, recovering,
    \* --- what the properties look at
    landed,      \* jobs whose branch, as it stands, is in the default branch
    stack,       \* position of the default branch job/{seq} is stacked on
    verified,    \* position the branch as it stands passed its checks on
    crashes, moves

taskVars  == <<cycle, workTask, fixTask, fixes, evals, publish>>
jobVars   == <<jstate, base, branch, retryAt, taskVars>>
trunkVars == <<head, ahead, held>>
execVars  == <<exec, execCycle, execFix, fixUsed, gate>>
queueVars == <<queue, gating, pending>>
actorVars == <<pc, cur, asFix, recovering>>
ghostVars == <<landed, stack, verified>>
boundVars == <<crashes, moves>>
vars == <<jobVars, trunkVars, execVars, queueVars, draining, actorVars, ghostVars,
          boundVars>>
--------------------------------------------------------------------------------
(***************************************************************************)
(* Helpers.                                                                *)
(***************************************************************************)
\* MergeGateState::enqueue: idempotent, and a gating job does not queue.
Enqueue(j) == IF j \in ToSet(queue) \/ gating = j THEN queue ELSE Append(queue, j)

\* Mutant of Without: a revoked job stays in the queue.
NeverRemoved(q, j) == q

\* MergeGateState::remove, of a queue that holds j at most once.
Without(q, j) ==
    IF j \in ToSet(q) THEN RemoveAt(q, CHOOSE i \in DOMAIN q : q[i] = j) ELSE q

\* force_gate: the current cycle is a gate-fix round.
ForceGate(j) == execCycle[j] \in fixes[j]

\* Mutant of FastPath: a gate fix on an unmoved head skips its gate.
FastPathSkipsFix(j) == head = base[j]

\* The branch is still where it was evaluated, and no gate fix awaits its gate.
FastPath(j) == head = base[j] /\ ~ForceGate(j)

\* group_stages(..).pop_front(): the evaluators of the lowest pending stage.
Unlaunched(slots) == {e \in Evals : slots[e] = "unlaunched"}
NextStage(slots) ==
    {e \in Unlaunched(slots) : \A f \in Unlaunched(slots) : Stage[e] <= Stage[f]}

NoSlots == [e \in Evals |-> "unlaunched"]
OpenStage(slots) ==
    [e \in Evals |-> IF e \in NextStage(slots) THEN "open" ELSE slots[e]]

OpenSlots(slots) == {e \in Evals : slots[e] = "open"}
Failed(slots) == {e \in Evals : slots[e] = "fail"}

\* first_stage_failed: the first stage fails while a later one is pending.
IsCompileFailure(slots) ==
    /\ Unlaunched(slots) # {}
    /\ \E e \in Failed(slots) : \A f \in Evals : Stage[e] <= Stage[f]

\* Mutant of ReturnFrom: the first job recovered ends the reconciliation.
ReconcilesOne(R) == "idle"

\* Where the actor goes when the handler is finished, or the next job's
\* recovery if the jobs R are still to be recovered.
ReturnFrom(R) == IF R = {} THEN "idle" ELSE "recover"

\* Mutant of FixesCounted: a restart gives the budget back.
FixesForgotten(j) == {0}

\* The gate-fix rounds used, counted in work tasks stamped with them: a round
\* whose task was retried counts more than once.
FixesCounted(j) ==
    IF fixes[j] = {} THEN {0}
    ELSE {n \in 1 .. GATE_FIX_BUDGET : Cardinality(fixes[j]) <= n}

\* ensure_exec_state: rebuild a missing execution slice from the task log.
EnsureExec(j) ==
    IF j \in exec
    THEN UNCHANGED execVars
    ELSE /\ exec' = exec \cup {j}
         /\ execCycle' = [execCycle EXCEPT ![j] = cycle[j]]
         /\ execFix' = [execFix EXCEPT ![j] = FALSE]
         /\ \E n \in FixesCounted(j) : fixUsed' = [fixUsed EXCEPT ![j] = n]
         /\ gate' = [gate EXCEPT ![j] = None]

\* active.remove(key): a slice carries its gate round away with it.
DropExec(j) ==
    /\ exec' = exec \ {j}
    /\ execCycle' = [execCycle EXCEPT ![j] = 0]
    /\ execFix' = [execFix EXCEPT ![j] = FALSE]
    /\ fixUsed' = [fixUsed EXCEPT ![j] = 0]
    /\ gate' = [gate EXCEPT ![j] = None]

\* Park the job for an operator, to be retried at phase `at'.
Escalate(j, at) ==
    /\ jstate' = [jstate EXCEPT ![j] = "Escalated"]
    /\ retryAt' = [retryAt EXCEPT ![j] = at]

\* launch_work_task: a new work task of cycle c, none while draining.
LaunchWork(j, c, fix) ==
    IF draining
    THEN UNCHANGED taskVars
    ELSE /\ cycle' = [cycle EXCEPT ![j] = c]
         /\ workTask' = [workTask EXCEPT ![j] = "running"]
         /\ fixTask' = [fixTask EXCEPT ![j] = fix]
         /\ fixes' = [fixes EXCEPT ![j] = IF fix THEN @ \cup {c} ELSE @]
         /\ evals' = [evals EXCEPT ![j] = IF c = cycle[j] THEN @ ELSE "none"]
         /\ publish' = [publish EXCEPT ![j] = IF c = cycle[j] THEN @ ELSE "none"]

\* rebase_onto_with_conflict: one commit on `to', with its markers if there is
\* a conflict (a conflict of binary files leaves none).
RebaseOnto(j, to, conflict) ==
    /\ stack' = [stack EXCEPT ![j] = to]
    /\ verified' = [verified EXCEPT ![j] = Unverified]
    /\ \E b \in (IF conflict THEN {"clean", "markers"} ELSE {branch[j]}) :
           branch' = [branch EXCEPT ![j] = b]
    /\ UNCHANGED landed

\* The default branch takes the job's squash (update-ref).
Land(j) ==
    /\ head' = head + 1
    /\ ahead' = TRUE
    /\ landed' = landed \cup {j}

Idle == pc = "idle"
--------------------------------------------------------------------------------
(***************************************************************************)
(* Messages of the phases before landing.                                  *)
(***************************************************************************)
\* What one work cycle may turn the branch into.
AfterWork(b) == CASE b = "empty" -> {"empty", "clean"}
                  [] b = "clean" -> {"clean"}
                  [] b = "markers" -> {"clean", "markers"}

\* finalize_pass: into WrapUp and the queue.  A wrap_up: none job is Done.
FinalizePass(j) ==
    IF j \in ScratchOnly
    THEN /\ jstate' = [jstate EXCEPT ![j] = "Done"]
         /\ DropExec(j)
         /\ UNCHANGED <<queue, pc>>
    ELSE /\ jstate' = [jstate EXCEPT ![j] = "WrapUp"]
         /\ queue' = Enqueue(j)
         /\ pc' = "pump"
         /\ UNCHANGED execVars

\* The work task exits successfully.  A gate fix goes straight back to the
\* gate; anything else, and a fix an operator passed by hand, is evaluated.
WorkFinished(j) ==
    /\ Idle /\ jstate[j] = "Work" /\ j \in exec /\ workTask[j] = "running"
    /\ workTask' = [workTask EXCEPT ![j] = "done"]
    /\ \E b \in AfterWork(branch[j]) : branch' = [branch EXCEPT ![j] = b]
    /\ landed' \in {landed, landed \ {j}}
    /\ verified' = [verified EXCEPT ![j] = Unverified]
    /\ \/ /\ fixTask[j]
          /\ FinalizePass(j)
          /\ UNCHANGED cur
       \/ /\ pc' = "entry" /\ cur' = j
          /\ UNCHANGED <<jstate, queue, execVars>>
    /\ UNCHANGED <<base, retryAt, cycle, fixTask, fixes, evals, publish, trunkVars,
                   gating, pending, draining, asFix, recovering, stack, boundVars>>

\* enter_evaluation.  A drain holds the job where it is.  Otherwise the branch
\* is rebased onto a moved head if it can be: a rebase that conflicts is left
\* for the landing.
EvaluationHeld(j) ==
    /\ pc = "entry" /\ cur = j /\ draining
    /\ pc' = ReturnFrom(recovering)
    /\ cur' = None
    /\ UNCHANGED <<jobVars, trunkVars, execVars, queueVars, draining, asFix, recovering,
                   ghostVars, boundVars>>

EvaluationEntered(j) ==
    /\ pc = "entry" /\ cur = j /\ ~draining
    /\ jstate' = [jstate EXCEPT ![j] = "Evaluation"]
    /\ verified' = [verified EXCEPT ![j] = Unverified]
    /\ \/ UNCHANGED <<base, stack>>
       \/ /\ head # base[j]
          /\ base' = [base EXCEPT ![j] = head]
          /\ stack' = [stack EXCEPT ![j] = head]
    /\ pc' = "fanout"
    /\ UNCHANGED <<branch, retryAt, taskVars, trunkVars, execVars, queueVars, draining,
                   cur, asFix, recovering, landed, boundVars>>

\* launch_eval_stage: the tasks of the new round.
EvaluatorsLaunched(j) ==
    /\ pc = "fanout" /\ cur = j
    /\ evals' = [evals EXCEPT ![j] = "running"]
    /\ pc' = ReturnFrom(recovering)
    /\ cur' = None
    /\ UNCHANGED <<jstate, base, branch, retryAt, cycle, workTask, fixTask, fixes, publish,
                   trunkVars, execVars, queueVars, draining, asFix, recovering, ghostVars,
                   boundVars>>

\* The evaluators pass the branch as it is stacked.  A drain holds the verdict.
EvalPassed(j) ==
    /\ Idle /\ jstate[j] = "Evaluation" /\ j \in exec /\ evals[j] = "running"
    /\ evals' = [evals EXCEPT ![j] = "done"]
    /\ verified' = [verified EXCEPT ![j] = stack[j]]
    /\ IF draining THEN UNCHANGED <<jstate, queue, pc, execVars>> ELSE FinalizePass(j)
    /\ UNCHANGED <<base, branch, retryAt, cycle, workTask, fixTask, fixes, publish,
                   trunkVars, gating, pending, draining, cur, asFix, recovering, landed,
                   stack, boundVars>>

\* decide_product_failure: the next work cycle, on the same base.
EvalRework(j) ==
    /\ execCycle[j] < MaxCycle
    /\ jstate' = [jstate EXCEPT ![j] = "Work"]
    /\ execCycle' = [execCycle EXCEPT ![j] = @ + 1]
    /\ execFix' = [execFix EXCEPT ![j] = FALSE]
    /\ LaunchWork(j, execCycle[j] + 1, FALSE)

\* The evaluators fail it.
EvalFailed(j) ==
    /\ Idle /\ jstate[j] = "Evaluation" /\ j \in exec /\ evals[j] = "running"
    /\ execCycle[j] < MaxCycle
    /\ IF draining
       THEN /\ evals' = [evals EXCEPT ![j] = "failed"]
            /\ UNCHANGED <<jstate, execCycle, execFix, cycle, workTask, fixTask, fixes,
                           publish>>
       ELSE EvalRework(j)
    /\ UNCHANGED <<base, branch, retryAt, trunkVars, exec, fixUsed, gate, queueVars,
                   draining, actorVars, ghostVars, boundVars>>

\* Retries, budgets or the job deadline run out in Work or Evaluation; the
\* deadline is retried at Work, whichever phase it found.
PhaseEscalated(j) ==
    /\ Idle /\ jstate[j] \in {"Work", "Evaluation"} /\ j \in exec
    /\ \E at \in {"Work", jstate[j]} : Escalate(j, at)
    /\ DropExec(j)
    /\ workTask' = [workTask EXCEPT ![j] = IF @ = "running" THEN "failed" ELSE @]
    /\ evals' = [evals EXCEPT ![j] = IF @ = "running" THEN "failed" ELSE @]
    /\ UNCHANGED <<base, branch, cycle, fixTask, fixes, publish, trunkVars, queueVars,
                   draining, actorVars, ghostVars, boundVars>>
--------------------------------------------------------------------------------
(***************************************************************************)
(* The landing fold: pump_merges and run_landing.                          *)
(***************************************************************************)
\* next_candidate holds: the handler that pumped is finished.
PumpHolds ==
    /\ pc = "pump"
    /\ queue = << >> \/ held \/ draining \/ gating # None
    /\ pc' = ReturnFrom(recovering)
    /\ cur' = None
    /\ UNCHANGED <<jobVars, trunkVars, execVars, queueVars, draining, asFix, recovering,
                   ghostVars, boundVars>>

\* Mutant of PumpPops: the depth of the gate is not looked at.
PopsDuringGate ==
    /\ pc = "pump"
    /\ queue # << >> /\ ~held /\ ~draining
    /\ cur' = Head(queue)
    /\ queue' = Tail(queue)
    /\ pc' = "start"
    /\ UNCHANGED <<jobVars, trunkVars, execVars, gating, pending, draining, asFix,
                   recovering, ghostVars, boundVars>>

\* next_candidate pops the front of the queue.
PumpPops ==
    /\ pc = "pump"
    /\ queue # << >> /\ ~held /\ ~draining /\ gating = None
    /\ cur' = Head(queue)
    /\ queue' = Tail(queue)
    /\ pc' = "start"
    /\ UNCHANGED <<jobVars, trunkVars, execVars, gating, pending, draining, asFix,
                   recovering, ghostVars, boundVars>>

\* LandingEvent::Start goes on only with a job that is still in WrapUp.
Landing(j) == pc = "start" /\ cur = j /\ jstate[j] = "WrapUp"

\* The landing ends in an escalation, and the queue moves on.
LandingEscalates(j) ==
    /\ Escalate(j, "Work")
    /\ DropExec(j)
    /\ pc' = "pump"
    /\ asFix' = FALSE
    /\ UNCHANGED <<base, branch, taskVars, trunkVars, queueVars, draining, cur,
                   recovering, ghostVars, boundVars>>

\* A config on the branch this dispatcher cannot read, or conflict markers the
\* agent left behind.
LandingRefused(j) ==
    /\ Landing(j)
    /\ "skew" \in Faults \/ branch[j] = "markers"
    /\ LandingEscalates(j)

\* A git or KV call fails before the job's change is in: escalate_finalize_failure.
\* One that fails after it ends in the same escalation, with the change in and a branch
\* that has nothing more to land; the model leaves it out.
LandingError(j) ==
    /\ "git" \in Faults
    /\ Landing(j) \/ (cur = j /\ pc \in {"rebased", "pinned"})
    /\ LandingEscalates(j)

\* No commits beyond base_ref: there is nothing to merge.
LandNothing(j) ==
    /\ Landing(j) /\ branch[j] = "empty"
    /\ pc' = "landed"
    /\ UNCHANGED <<jobVars, trunkVars, execVars, queueVars, draining, cur, asFix,
                   recovering, ghostVars, boundVars>>

\* The merge is clean and no gate is due: the SquashMerge of the fast path, or
\* the AdvanceDefault of a candidate whose job type has no gate evaluators.
LandUngated(j) ==
    /\ Landing(j) /\ branch[j] = "clean"
    /\ FastPath(j) \/ j \notin Gated
    /\ Land(j)
    /\ pc' = "landed"
    /\ UNCHANGED <<jobVars, held, execVars, queueVars, draining, cur, asFix, recovering,
                   stack, verified, boundVars>>

\* ... whose AdvanceDefault fails: here too the refusal is not read.
LandingUnread(j) ==
    /\ "promote" \in Faults
    /\ Landing(j) /\ branch[j] = "clean" /\ ~FastPath(j) /\ j \notin Gated
    /\ pc' = "landed"
    /\ UNCHANGED <<jobVars, trunkVars, execVars, queueVars, draining, cur, asFix,
                   recovering, ghostVars, boundVars>>

\* The merge conflicts: the conflict is committed on the branch for rework.
SquashConflict(j) ==
    /\ Landing(j) /\ branch[j] # "empty" /\ head # stack[j]
    /\ execCycle[j] < MaxCycle
    /\ pending' = "conflict"
    /\ RebaseOnto(j, head, TRUE)
    /\ pc' = "rebased"
    /\ asFix' = FALSE
    /\ UNCHANGED <<jstate, base, retryAt, taskVars, trunkVars, execVars, queue, gating,
                   draining, cur, recovering, boundVars>>

\* A clean candidate on a moved head: the gate slot is taken ...
OpenGate(j) ==
    /\ Landing(j) /\ branch[j] = "clean"
    /\ ~FastPath(j) /\ j \in Gated
    /\ gating' = j
    /\ pc' = "opening"
    /\ UNCHANGED <<jobVars, trunkVars, execVars, queue, pending, draining, cur, asFix,
                   recovering, ghostVars, boundVars>>

\* ... then the first stage is launched.
GateOpened(j) ==
    /\ pc = "opening" /\ cur = j
    /\ gate' = [gate EXCEPT ![j] = [oldHead |-> head, slots |-> OpenStage(NoSlots)]]
    /\ pc' = ReturnFrom(recovering)
    /\ cur' = None
    /\ UNCHANGED <<jobVars, trunkVars, exec, execCycle, execFix, fixUsed, queueVars,
                   draining, asFix, recovering, ghostVars, boundVars>>

\* launch_gate_stage fails: the pump's error arm escalates the job and moves
\* on, and `gating' keeps its value.
GateLaunchError(j) ==
    /\ "stageLaunch" \in Faults
    /\ pc = "opening" /\ cur = j
    /\ LandingEscalates(j)
--------------------------------------------------------------------------------
(***************************************************************************)
(* The gate round.                                                         *)
(***************************************************************************)
\* The job's gate round, with e among its open slots.
GateRuns(j, e) ==
    /\ Idle /\ j \in exec /\ gate[j] # None
    /\ gate[j].slots[e] = "open"

\* A gate command exits, or times out.  The last one of its stage either opens
\* the next stage or, in the same handler, reduces the round.
GateExited(j, e, pass) ==
    LET slots == [gate[j].slots EXCEPT ![e] = IF pass THEN "pass" ELSE "fail"]
        staged == OpenSlots(slots) = {}
        advances == staged /\ Failed(slots) = {} /\ Unlaunched(slots) # {}
    IN /\ GateRuns(j, e)
       /\ pass \/ execCycle[j] < MaxCycle
       /\ \/ /\ ~advances
             /\ gate' = [gate EXCEPT ![j].slots = slots]
          \/ /\ advances
             /\ gate' = [gate EXCEPT ![j].slots = OpenStage(slots)]
          \/ /\ advances /\ "stageLaunch" \in Faults
             /\ gate' = [gate EXCEPT ![j].slots = slots]
       /\ IF staged /\ ~advances
          THEN pc' = "reduce" /\ cur' = j
          ELSE UNCHANGED <<pc, cur>>
       /\ UNCHANGED <<jobVars, trunkVars, exec, execCycle, execFix, fixUsed, queueVars,
                      draining, asFix, recovering, ghostVars, boundVars>>

\* Mutant of GateLaunchExpired: the round is given up, and nobody is told.
GateLaunchDropped(j, e) ==
    /\ "queueTimeout" \in Faults
    /\ GateRuns(j, e)
    /\ gating' = None
    /\ DropExec(j)
    /\ UNCHANGED <<jobVars, trunkVars, queue, pending, draining, actorVars, ghostVars,
                   boundVars>>

\* expire_queued_launch of a gate command that never got a fleet slot.
GateLaunchExpired(j, e) ==
    /\ "queueTimeout" \in Faults
    /\ GateRuns(j, e)
    /\ Escalate(j, "Evaluation")
    /\ DropExec(j)
    /\ UNCHANGED <<base, branch, taskVars, trunkVars, queueVars, draining, actorVars,
                   ghostVars, boundVars>>

\* gate_reduce takes the round out of the slice and frees the gate.
Reducing(j) ==
    /\ pc = "reduce" /\ cur = j /\ gate[j] # None
    /\ gating' = None
    /\ gate' = [gate EXCEPT ![j] = None]

\* GateVerdict, no failure: promote the candidate if the head has not moved.
\* A refusal becomes the next event, but the step already decided is
\* FinishLanding, which does not read it.
GatePassed(j) ==
    /\ Reducing(j) /\ Failed(gate[j].slots) = {}
    /\ verified' = [verified EXCEPT ![j] = gate[j].oldHead]
    /\ \/ head = gate[j].oldHead /\ Land(j)
       \/ /\ head # gate[j].oldHead \/ "promote" \in Faults
          /\ UNCHANGED <<head, ahead, landed>>
    /\ pc' = "landed"
    /\ UNCHANGED <<jobVars, held, exec, execCycle, execFix, fixUsed, queue, pending,
                   draining, cur, asFix, recovering, stack, boundVars>>

GetsFix(j) == IsCompileFailure(gate[j].slots) /\ fixUsed[j] < GATE_FIX_BUDGET

\* GateVerdict, failures: a gate fix or a full rework, on the head the gate saw.
GateFailed(j) ==
    /\ Reducing(j) /\ Failed(gate[j].slots) # {}
    /\ RebaseOnto(j, gate[j].oldHead, FALSE)
    /\ asFix' = GetsFix(j)
    /\ pending' = IF GetsFix(j) THEN pending ELSE "gate"
    /\ pc' = "rebased"
    /\ UNCHANGED <<jstate, base, retryAt, taskVars, trunkVars, exec, execCycle, execFix,
                   fixUsed, queue, draining, cur, recovering, boundVars>>
--------------------------------------------------------------------------------
(***************************************************************************)
(* Re-entering Work from the landing.                                      *)
(***************************************************************************)
\* Rebased pins the head it now reads; launch_gate_fix pins the gate's head.
PinBase(j) ==
    /\ pc = "rebased" /\ cur = j
    /\ base' = [base EXCEPT ![j] = IF asFix THEN stack[j] ELSE head]
    /\ pending' = IF asFix THEN pending ELSE None
    /\ fixUsed' = [fixUsed EXCEPT ![j] = IF asFix THEN @ + 1 ELSE @]
    /\ pc' = "pinned"
    /\ UNCHANGED <<jstate, branch, retryAt, taskVars, trunkVars, exec, execCycle, execFix,
                   gate, queue, gating, draining, cur, asFix, recovering, ghostVars,
                   boundVars>>

\* enter_work: the contract no longer loads at base_ref, or a secret has gone.
\* The job is parked with the slice of the previous cycle.
WorkEntryRefused(j) ==
    /\ pc = "pinned" /\ cur = j /\ "skew" \in Faults
    /\ Escalate(j, "Work")
    /\ pc' = "pump"
    /\ asFix' = FALSE
    /\ UNCHANGED <<base, branch, taskVars, trunkVars, execVars, queueVars, draining, cur,
                   recovering, ghostVars, boundVars>>

\* enter_work: the transition and the new cycle's slice ...
WorkEntered(j) ==
    /\ pc = "pinned" /\ cur = j
    /\ jstate' = [jstate EXCEPT ![j] = "Work"]
    /\ execCycle' = [execCycle EXCEPT ![j] = @ + 1]
    /\ execFix' = [execFix EXCEPT ![j] = asFix]
    /\ pc' = "launch"
    /\ UNCHANGED <<base, branch, retryAt, taskVars, trunkVars, exec, fixUsed, gate,
                   queueVars, draining, cur, asFix, recovering, ghostVars, boundVars>>

\* ... then its work task.
WorkLaunched(j) ==
    /\ pc = "launch" /\ cur = j
    /\ LaunchWork(j, execCycle[j], asFix)
    /\ pc' = "pump"
    /\ asFix' = FALSE
    /\ UNCHANGED <<jstate, base, branch, retryAt, trunkVars, execVars, queueVars, draining,
                   cur, recovering, ghostVars, boundVars>>
--------------------------------------------------------------------------------
(***************************************************************************)
(* After the landing: the publish, and Done.                               *)
(***************************************************************************)
\* decide_landed: launch the publish, which a drain swallows, or complete.
Landed(j) ==
    /\ pc = "landed" /\ cur = j
    /\ IF j \in Publishes
       THEN /\ pc' = "pump"
            /\ publish' = [publish EXCEPT ![j] = IF draining THEN @ ELSE "running"]
       ELSE /\ pc' = "complete"
            /\ UNCHANGED publish
    /\ UNCHANGED <<jstate, base, branch, retryAt, cycle, workTask, fixTask, fixes,
                   evals, trunkVars, execVars, queueVars, draining, cur, asFix, recovering,
                   ghostVars, boundVars>>

\* decide_completing: Done, and the execution slice is released.
Completed(j) ==
    /\ pc \in {"complete", "shipped"} /\ cur = j
    /\ jstate' = [jstate EXCEPT ![j] = "Done"]
    /\ DropExec(j)
    /\ pc' = IF pc = "complete" THEN "pump" ELSE ReturnFrom(recovering)
    /\ cur' = IF pc = "complete" THEN cur ELSE None
    /\ UNCHANGED <<base, branch, retryAt, taskVars, trunkVars, queueVars, draining, asFix,
                   recovering, ghostVars, boundVars>>

\* Mutant of PublishExited: a failed publish is recorded, and nobody is told.
PublishFailsQuietly(j, pass) ==
    /\ Idle /\ j \in exec /\ publish[j] = "running"
    /\ publish' = [publish EXCEPT ![j] = IF pass THEN "done" ELSE "failed"]
    /\ IF pass THEN pc' = "shipped" /\ cur' = j ELSE UNCHANGED <<pc, cur>>
    /\ UNCHANGED <<jstate, base, branch, retryAt, cycle, workTask, fixTask, fixes, evals,
                   trunkVars, execVars, queueVars, draining, asFix, recovering, ghostVars,
                   boundVars>>

\* The publish command exits: decide_publish_exited.
PublishExited(j, pass) ==
    /\ Idle /\ j \in exec /\ publish[j] = "running"
    /\ publish' = [publish EXCEPT ![j] = IF pass THEN "done" ELSE "failed"]
    /\ IF pass
       THEN /\ pc' = "shipped" /\ cur' = j
            /\ UNCHANGED <<jstate, retryAt, execVars>>
       ELSE /\ Escalate(j, "WrapUp")
            /\ DropExec(j)
            /\ UNCHANGED <<pc, cur>>
    /\ UNCHANGED <<base, branch, cycle, workTask, fixTask, fixes, evals, trunkVars, queueVars,
                   draining, asFix, recovering, ghostVars, boundVars>>
--------------------------------------------------------------------------------
(***************************************************************************)
(* The operator.                                                           *)
(***************************************************************************)
\* Retry of a Work escalation: a new work task of the same cycle.
RetryWork(j) ==
    /\ Idle /\ jstate[j] = "Escalated" /\ retryAt[j] = "Work"
    /\ publish[j] = "none" \/ "reworkInCycle" \in Faults
    /\ EnsureExec(j)
    /\ jstate' = [jstate EXCEPT ![j] = "Work"]
    /\ LaunchWork(j, execCycle'[j], execFix'[j])
    /\ UNCHANGED <<base, branch, retryAt, trunkVars, queueVars, draining, actorVars,
                   ghostVars, boundVars>>

\* Retry of an Evaluation or gate escalation, or any escalation resolved by
\* hand: the branch as it stands is evaluated.  (Bound: one that would land
\* again counts as a move.)
ReEvaluate(j) ==
    /\ Idle /\ jstate[j] = "Escalated"
    /\ j \in landed => moves < MaxMoves
    /\ EnsureExec(j)
    /\ pc' = "entry" /\ cur' = j
    /\ moves' = IF j \in landed THEN moves + 1 ELSE moves
    /\ UNCHANGED <<jobVars, trunkVars, queueVars, draining, asFix, recovering, ghostVars,
                   crashes>>

\* Mutant of RetryPublish: any escalated job of such a type resumes at its publish.
RetryPublishAnyway(j) ==
    /\ Idle /\ jstate[j] = "Escalated" /\ j \in Publishes
    /\ EnsureExec(j)
    /\ jstate' = [jstate EXCEPT ![j] = "WrapUp"]
    /\ publish' = [publish EXCEPT ![j] = IF draining THEN @ ELSE "running"]
    /\ UNCHANGED <<base, branch, retryAt, cycle, workTask, fixTask, fixes, evals, trunkVars,
                   queueVars, draining, actorVars, ghostVars, boundVars>>

\* Retry of a failed publish: back to WrapUp, only the publish is run.
RetryPublish(j) ==
    /\ Idle /\ jstate[j] = "Escalated" /\ retryAt[j] = "WrapUp"
    /\ EnsureExec(j)
    /\ jstate' = [jstate EXCEPT ![j] = "WrapUp"]
    /\ publish' = [publish EXCEPT ![j] = IF draining THEN @ ELSE "running"]
    /\ UNCHANGED <<base, branch, retryAt, cycle, workTask, fixTask, fixes, evals, trunkVars,
                   queueVars, draining, actorVars, ghostVars, boundVars>>

\* revoke_job: out of the queue and the gate, whose slot is free again.
Revoke(j) ==
    /\ Idle /\ jstate[j] \notin Terminal
    /\ jstate' = [jstate EXCEPT ![j] = "Revoked"]
    /\ DropExec(j)
    /\ branch' = [branch EXCEPT ![j] = "empty"]
    /\ stack' = [stack EXCEPT ![j] = base[j]]
    /\ verified' = [verified EXCEPT ![j] = Unverified]
    /\ queue' = Without(queue, j)
    /\ gating' = IF gating = j THEN None ELSE gating
    /\ pending' = IF gating = j THEN None ELSE pending
    /\ pc' = "pump"
    /\ UNCHANGED <<base, retryAt, taskVars, trunkVars, draining, cur, asFix, recovering,
                   landed, boundVars>>

Drain ==
    /\ Idle /\ ~draining
    /\ draining' = TRUE
    /\ UNCHANGED <<jobVars, trunkVars, execVars, queueVars, actorVars, ghostVars,
                   boundVars>>
--------------------------------------------------------------------------------
(***************************************************************************)
(* The origin repository.                                                  *)
(***************************************************************************)
\* Mutant of OriginRelease: it does not wait for the gate.
OriginReleaseInGate ==
    /\ Idle /\ ~held /\ ahead
    /\ held' = TRUE
    /\ UNCHANGED <<jobVars, head, ahead, execVars, queueVars, draining, actorVars,
                   ghostVars, boundVars>>

\* origin_release: push what has landed and hold the queue.
OriginRelease ==
    /\ Idle /\ ~held /\ gating = None /\ ahead
    /\ held' = TRUE
    /\ UNCHANGED <<jobVars, head, ahead, execVars, queueVars, draining, actorVars,
                   ghostVars, boundVars>>

\* origin_sync of a release merged at the origin: the default branch is reset
\* to the origin's, the hold is lifted, and held landings resume.
ReleaseMerged ==
    /\ Idle /\ held /\ moves < MaxMoves
    /\ head' = head + 1
    /\ ahead' = FALSE
    /\ held' = FALSE
    /\ pc' = "pump"
    /\ moves' = moves + 1
    /\ UNCHANGED <<jobVars, execVars, queueVars, draining, cur, asFix, recovering,
                   ghostVars, crashes>>

\* origin_sync of a release closed unmerged.
ReleaseClosed ==
    /\ Idle /\ held
    /\ held' = FALSE
    /\ pc' = "pump"
    /\ UNCHANGED <<jobVars, head, ahead, execVars, queueVars, draining, cur, asFix,
                   recovering, ghostVars, boundVars>>

\* Mutant of FastForward: the branch is reset to the commit it forked from.
ResetBehind ==
    /\ Idle /\ ~held /\ ~ahead /\ moves < MaxMoves
    /\ head' = head - 1
    /\ moves' = moves + 1
    /\ UNCHANGED <<jobVars, ahead, held, execVars, queueVars, draining, actorVars,
                   ghostVars, crashes>>

\* origin_sync with no release open: nothing unreleased here, and the origin
\* has commits.  Whether a gate is in flight is not asked.
FastForward ==
    /\ Idle /\ ~held /\ ~ahead /\ moves < MaxMoves
    /\ gating = None \/ "syncInGate" \in Faults
    /\ head' = head + 1
    /\ moves' = moves + 1
    /\ UNCHANGED <<jobVars, ahead, held, execVars, queueVars, draining, actorVars,
                   ghostVars, crashes>>
--------------------------------------------------------------------------------
(***************************************************************************)
(* Crash and restart.                                                      *)
(***************************************************************************)
Crash ==
    /\ crashes < MaxCrashes
    /\ pc = "pinned" => "crashInRework" \in Faults
    /\ pc = "fanout" => "crashInFanout" \in Faults
    /\ crashes' = crashes + 1
    /\ exec' = {}
    /\ execCycle' = [j \in Jobs |-> 0]
    /\ execFix' = [j \in Jobs |-> FALSE]
    /\ fixUsed' = [j \in Jobs |-> 0]
    /\ gate' = [j \in Jobs |-> None]
    /\ queue' = << >> /\ gating' = None /\ pending' = None
    /\ draining' = FALSE
    /\ recovering' = {j \in Jobs : jstate[j] \in {"Work", "Evaluation", "WrapUp"}}
    /\ pc' = ReturnFrom(recovering')
    /\ cur' = None
    /\ asFix' = FALSE
    /\ UNCHANGED <<jobVars, trunkVars, ghostVars, moves>>

Recovering(j) ==
    /\ pc = "recover" /\ j \in recovering
    /\ recovering' = recovering \ {j}
    /\ UNCHANGED <<trunkVars, gating, pending, draining, asFix, boundVars>>

\* recover_work: re-attach, evaluate, or retry or escalate a failed attempt.
RecoverWork(j) ==
    /\ Recovering(j) /\ jstate[j] = "Work"
    /\ \/ /\ workTask[j] = "running"
          /\ EnsureExec(j)
          /\ pc' = ReturnFrom(recovering')
          /\ UNCHANGED <<jobVars, cur>>
       \/ /\ workTask[j] = "done"
          /\ EnsureExec(j)
          /\ pc' = "entry" /\ cur' = j
          /\ UNCHANGED jobVars
       \/ /\ workTask[j] = "failed"
          /\ publish[j] = "none" \/ "reworkInCycle" \in Faults
          /\ EnsureExec(j)
          /\ LaunchWork(j, cycle[j], FALSE)
          /\ pc' = ReturnFrom(recovering')
          /\ UNCHANGED <<jstate, base, branch, retryAt, cur>>
       \/ /\ workTask[j] = "failed"
          /\ Escalate(j, "Work")
          /\ DropExec(j)
          /\ pc' = ReturnFrom(recovering')
          /\ UNCHANGED <<base, branch, taskVars, cur>>
    /\ UNCHANGED <<queue, ghostVars>>

\* The recovered round has passed: finalize_pass.
RecoveredPass(j) ==
    /\ UNCHANGED <<base, branch, retryAt, taskVars>>
    /\ IF j \in ScratchOnly
       THEN /\ jstate' = [jstate EXCEPT ![j] = "Done"]
            /\ DropExec(j)
            /\ pc' = ReturnFrom(recovering')
            /\ UNCHANGED queue
       ELSE /\ jstate' = [jstate EXCEPT ![j] = "WrapUp"]
            /\ EnsureExec(j)
            /\ queue' = Enqueue(j)
            /\ pc' = "pump"

\* recover_evaluation takes the latest task of each evaluator in this cycle for
\* the round: it launches it, re-attaches to it, or reduces it.
RecoverEvaluation(j) ==
    /\ Recovering(j) /\ jstate[j] = "Evaluation"
    /\ \/ /\ evals[j] \in {"none", "running"}
          /\ EnsureExec(j)
          /\ evals' = [evals EXCEPT ![j] = "running"]
          /\ pc' = ReturnFrom(recovering')
          /\ UNCHANGED <<jstate, base, branch, retryAt, cycle, workTask, fixTask, fixes,
                         publish, queue>>
       \/ /\ evals[j] = "done"
          /\ RecoveredPass(j)
       \/ /\ evals[j] = "failed" /\ cycle[j] < MaxCycle
          /\ exec' = exec \cup {j}
          /\ jstate' = [jstate EXCEPT ![j] = "Work"]
          /\ execCycle' = [execCycle EXCEPT ![j] = cycle[j] + 1]
          /\ \E n \in FixesCounted(j) : fixUsed' = [fixUsed EXCEPT ![j] = n]
          /\ LaunchWork(j, cycle[j] + 1, FALSE)
          /\ pc' = ReturnFrom(recovering')
          /\ UNCHANGED <<base, branch, retryAt, execFix, gate, queue>>
       \/ /\ evals[j] = "failed"
          /\ Escalate(j, "Evaluation")
          /\ DropExec(j)
          /\ pc' = ReturnFrom(recovering')
          /\ UNCHANGED <<base, branch, taskVars, queue>>
    /\ UNCHANGED <<cur, ghostVars>>

\* recover_wrapup: with a publish task in the log the squash is taken to have
\* landed, and the publish is recovered; otherwise the job is queued again.
RecoverWrapUp(j) ==
    /\ Recovering(j) /\ jstate[j] = "WrapUp"
    /\ \/ /\ publish[j] = "none"
          /\ EnsureExec(j)
          /\ queue' = Enqueue(j)
          /\ pc' = "pump"
          /\ UNCHANGED <<cur, jobVars>>
       \/ /\ publish[j] = "running"
          /\ EnsureExec(j)
          /\ pc' = ReturnFrom(recovering')
          /\ UNCHANGED <<queue, cur, jobVars>>
       \/ /\ publish[j] = "done"
          /\ EnsureExec(j)
          /\ pc' = "shipped" /\ cur' = j
          /\ UNCHANGED <<queue, jobVars>>
       \/ /\ publish[j] = "failed"
          /\ Escalate(j, "WrapUp")
          /\ DropExec(j)
          /\ pc' = ReturnFrom(recovering')
          /\ UNCHANGED <<queue, cur, base, branch, taskVars>>
    /\ UNCHANGED ghostVars
--------------------------------------------------------------------------------
Init ==
    /\ jstate = [j \in Jobs |-> "Work"]
    /\ base = [j \in Jobs |-> 0]
    /\ branch = [j \in Jobs |-> "empty"]
    /\ retryAt = [j \in Jobs |-> "Work"]
    /\ cycle = [j \in Jobs |-> 1]
    /\ workTask = [j \in Jobs |-> "running"]
    /\ fixTask = [j \in Jobs |-> FALSE]
    /\ fixes = [j \in Jobs |-> {}]
    /\ evals = [j \in Jobs |-> "none"]
    /\ publish = [j \in Jobs |-> "none"]
    /\ head = 0 /\ ahead = FALSE /\ held = FALSE
    /\ exec = Jobs
    /\ execCycle = [j \in Jobs |-> 1]
    /\ execFix = [j \in Jobs |-> FALSE]
    /\ fixUsed = [j \in Jobs |-> 0]
    /\ gate = [j \in Jobs |-> None]
    /\ queue = << >> /\ gating = None /\ pending = None
    /\ draining = FALSE
    /\ pc = "idle" /\ cur = None /\ asFix = FALSE /\ recovering = {}
    /\ landed = {}
    /\ stack = [j \in Jobs |-> 0]
    /\ verified = [j \in Jobs |-> Unverified]
    /\ crashes = 0 /\ moves = 0

\* The steps of a handler or of reconciliation that has begun.
ActorStep ==
    \/ PumpHolds \/ PumpPops
    \/ \E j \in Jobs :
          \/ EvaluationHeld(j) \/ EvaluationEntered(j) \/ EvaluatorsLaunched(j)
          \/ LandingRefused(j) \/ LandingError(j) \/ LandNothing(j) \/ LandUngated(j)
          \/ LandingUnread(j) \/ SquashConflict(j) \/ OpenGate(j) \/ GateOpened(j)
          \/ GateLaunchError(j) \/ GatePassed(j) \/ GateFailed(j)
          \/ PinBase(j) \/ WorkEntryRefused(j) \/ WorkEntered(j) \/ WorkLaunched(j)
          \/ Landed(j) \/ Completed(j)
          \/ RecoverWork(j) \/ RecoverEvaluation(j) \/ RecoverWrapUp(j)

\* The messages that start a handler.
Phases == \E j \in Jobs :
    WorkFinished(j) \/ EvalPassed(j) \/ EvalFailed(j) \/ PhaseEscalated(j)
GateExits == \E j \in Jobs, e \in Evals : \E pass \in BOOLEAN : GateExited(j, e, pass)
GateExpires == \E j \in Jobs, e \in Evals : GateLaunchExpired(j, e)
PublishExits(j) == \E pass \in BOOLEAN : PublishExited(j, pass)
Operator == Drain \/ \E j \in Jobs :
    RetryWork(j) \/ ReEvaluate(j) \/ RetryPublish(j) \/ Revoke(j)
Origin == OriginRelease \/ ReleaseMerged \/ ReleaseClosed \/ FastForward

Next ==
    \/ ActorStep
    \/ Phases \/ GateExits \/ GateExpires \/ (\E j \in Jobs : PublishExits(j))
    \/ Operator \/ Origin \/ Crash

Spec == Init /\ [][Next]_vars

(***************************************************************************)
(* Fairness.  A handler that has begun runs on.  A gate or publish command *)
(* exits, or is killed by the task timeout scan; its exit is a message in  *)
(* the actor's first-in first-out mailbox, so it is handled however many   *)
(* other messages come: strong fairness, as it can be handled only between *)
(* two of them.  Nothing is assumed of operators, evaluators, origins.     *)
(***************************************************************************)
Fairness ==
    /\ WF_vars(ActorStep)
    /\ SF_vars(GateExits)
    /\ \A j \in Jobs : SF_vars(PublishExits(j))

FairSpec == Spec /\ Fairness
--------------------------------------------------------------------------------
(***************************************************************************)
(* Properties.                                                             *)
(***************************************************************************)
JobsTyped ==
    /\ jstate \in [Jobs -> JobStates]
    /\ base \in [Jobs -> Nat]
    /\ branch \in [Jobs -> Branches]
    /\ retryAt \in [Jobs -> {"Work", "Evaluation", "WrapUp"}]
TasksTyped ==
    /\ cycle \in [Jobs -> Nat]
    /\ workTask \in [Jobs -> TaskStates]
    /\ fixTask \in [Jobs -> BOOLEAN]
    /\ fixes \in [Jobs -> SUBSET Nat]
    /\ evals \in [Jobs -> TaskStates]
    /\ publish \in [Jobs -> TaskStates]
TrunkTyped == head \in Nat /\ ahead \in BOOLEAN /\ held \in BOOLEAN
ExecTyped ==
    /\ exec \subseteq Jobs
    /\ execCycle \in [Jobs -> Nat]
    /\ execFix \in [Jobs -> BOOLEAN]
    /\ fixUsed \in [Jobs -> Nat]
    /\ gate \in [Jobs -> Rounds \cup {None}]
QueueTyped ==
    /\ queue \in Seq(Jobs)
    /\ gating \in Jobs \cup {None}
    /\ pending \in {None, "conflict", "gate"}
ActorTyped ==
    /\ pc \in {"idle", "pump", "start", "opening", "reduce", "rebased", "pinned",
               "launch", "entry", "fanout", "landed", "complete", "shipped", "recover"}
    /\ cur \in Jobs \cup {None}
    /\ asFix \in BOOLEAN
    /\ recovering \subseteq Jobs
GhostsTyped ==
    /\ landed \subseteq Jobs
    /\ stack \in [Jobs -> Nat]
    /\ verified \in [Jobs -> Nat \cup {Unverified}]
BoundsTyped == crashes \in 0 .. MaxCrashes /\ moves \in 0 .. MaxMoves

\* Every variable holds a value the code can store there.
TypeOK ==
    /\ JobsTyped /\ TasksTyped /\ TrunkTyped /\ ExecTyped /\ QueueTyped
    /\ draining \in BOOLEAN
    /\ ActorTyped /\ GhostsTyped /\ BoundsTyped

\* A job that waits for the merge or is at its gate is in WrapUp, waits once,
\* and does not wait while it is gating (invariants.rs, merge_queue_is_wrapup).
QueueIsWrapUp ==
    /\ \A i \in DOMAIN queue : jstate[queue[i]] = "WrapUp"
    /\ \A i, k \in DOMAIN queue : queue[i] = queue[k] => i = k
    /\ gating # None => jstate[gating] = "WrapUp" /\ gating \notin ToSet(queue)

\* Between messages an occupied gate has a command running whose exit will move
\* it on: nothing else ever frees the gate, and every landing waits for it.
GateIsLive ==
    Idle /\ gating # None =>
        /\ gating \in exec /\ gate[gating] # None
        /\ OpenSlots(gate[gating].slots) # {}

\* Between messages a landing waits only for a release, a drain or the gate:
\* whoever lifts one of them pumps the queue.
QueueIsPumped ==
    Idle /\ queue # << >> => held \/ draining \/ gating # None

\* Between messages no job is lost in WrapUp: it is queued, at its gate, or its
\* publish runs, and it has the slice its gate evaluators are read from.
WrapUpIsDriven ==
    Idle /\ ~draining => \A j \in Jobs : jstate[j] = "WrapUp" =>
        /\ j \in ToSet(queue) \/ gating = j \/ publish[j] = "running"
        /\ j \in exec

\* The pipeline is driven: whatever is in it has something that moves it on.
PipelineIsDriven == GateIsLive /\ QueueIsPumped /\ WrapUpIsDriven

\* The head a gate round was built on stays the head until its verdict: the
\* single writer makes a race impossible (vcs, advance_default).
GateSeesHead == \A j \in Jobs : gate[j] # None => gate[j].oldHead = head

\* A Done job's work is in the default branch, if it had any.
DoneMeansLanded ==
    \A j \in Jobs \ ScratchOnly :
        jstate[j] = "Done" => j \in landed \/ branch[j] = "empty"

\* However the rounds, retries and restarts fall, a job gets no more gate-fix
\* rounds than the budget.
GateFixBudget == \A j \in Jobs : Cardinality(fixes[j]) <= GATE_FIX_BUDGET

\* Nothing of a gated type reaches the default branch without its checks having
\* passed against the very tree that lands.
Lands(j) == pc' = "landed" /\ pc # "landed" /\ cur' = j /\ head' # head
LandedIsVerified == [][\A j \in Gated : Lands(j) => verified'[j] = head]_vars

\* While an origin release is open the default branch does not move, so that
\* resetting it to the merged release loses nothing.
HoldFreezesHead == [][held /\ held' => head' = head]_vars

\* A job in WrapUp leaves it, unless an origin release holds the queue or the
\* dispatcher is draining.
LandingsEnd ==
    \A j \in Jobs : jstate[j] = "WrapUp" ~> jstate[j] # "WrapUp" \/ held \/ draining

\* The pipeline implements Trunk: whatever it does to the default branch, the
\* job branches and the jobs' outcomes is a step Trunk allows.
Promise == INSTANCE Trunk WITH
    trunk  <- head,
    frozen <- held,
    work   <- {j \in Jobs : branch[j] # "empty"},
    tested <- verified,
    done   <- {j \in Jobs : jstate[j] = "Done"}
ImplementsTrunk == Promise!Spec
================================================================================
