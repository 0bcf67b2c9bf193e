---------------------------- MODULE MergeGate_proofs ----------------------------
(***************************************************************************)
(* Theorems about MergeGate, for every set of jobs and evaluators, every   *)
(* set of faults and every bound.                                          *)
(***************************************************************************)
EXTENDS MergeGate, SequenceTheorems, FiniteSetTheorems, WellFoundedInduction, TLAPS

\* Removing an element leaves a sequence of jobs.
LEMMA WithoutTyped ==
    ASSUME NEW q \in Seq(Jobs), NEW j \in Jobs
    PROVE  Without(q, j) \in Seq(Jobs)
<1>1. CASE j \in ToSet(q)
  <2> DEFINE i == CHOOSE i \in DOMAIN q : q[i] = j
  <2>1. i \in 1 .. Len(q)
    BY <1>1 DEF ToSet
  <2> HIDE DEF i
  <2>2. \A k \in 1 .. Len(q) : q[k] \in Jobs
    OBVIOUS
  <2>3. SubSeq(q, 1, i - 1) \in Seq(Jobs)
    <3>1. \A k \in 1 .. i - 1 : q[k] \in Jobs
      BY <2>1, <2>2
    <3> QED
      BY <2>1, <3>1, SubSeqProperties
  <2>4. SubSeq(q, i + 1, Len(q)) \in Seq(Jobs)
    <3>1. \A k \in i + 1 .. Len(q) : q[k] \in Jobs
      BY <2>1, <2>2
    <3> QED
      BY <2>1, <3>1, SubSeqProperties
  <2>5. RemoveAt(q, i) \in Seq(Jobs)
    BY <2>3, <2>4, ConcatProperties DEF RemoveAt
  <2> QED
    BY <1>1, <2>5 DEF Without, i
<1>2. CASE j \notin ToSet(q)
  BY <1>2 DEF Without
<1> QED
  BY <1>1, <1>2

\* So does enqueueing one.
LEMMA EnqueueTyped ==
    ASSUME QueueTyped, NEW j \in Jobs
    PROVE  Enqueue(j) \in Seq(Jobs)
BY AppendProperties DEF Enqueue, QueueTyped

\* An execution slice rebuilt from a well typed task log is well typed, and so
\* is what is left when one is dropped.
LEMMA EnsureExecTyped ==
    ASSUME ExecTyped, TasksTyped, NEW j \in Jobs, EnsureExec(j)
    PROVE  ExecTyped'
<1>1. CASE j \in exec
  BY <1>1 DEF EnsureExec, ExecTyped, execVars
<1>2. CASE j \notin exec
  <2>1. PICK n \in FixesCounted(j) : fixUsed' = [fixUsed EXCEPT ![j] = n]
    BY <1>2 DEF EnsureExec
  <2>2. n \in Nat
    BY <2>1 DEF FixesCounted, GATE_FIX_BUDGET
  <2> QED
    BY ZenonT(60), <1>2, <2>1, <2>2 DEF EnsureExec, ExecTyped, TasksTyped
<1> QED
  BY <1>1, <1>2

LEMMA DropExecTyped ==
    ASSUME ExecTyped, NEW j \in Jobs, DropExec(j)
    PROVE  ExecTyped'
BY DEF DropExec, ExecTyped

\* A launch keeps the task log well typed.
LEMMA LaunchWorkTyped ==
    ASSUME TasksTyped, NEW j \in Jobs, NEW c \in Nat, NEW fix \in BOOLEAN, LaunchWork(j, c, fix)
    PROVE  TasksTyped'
<1>1. CASE draining
  BY <1>1 DEF LaunchWork, TasksTyped, taskVars
<1>2. CASE ~draining
  BY <1>2 DEF LaunchWork, TasksTyped, TaskStates
<1> QED
  BY <1>1, <1>2

\* What a step leaves alone stays well typed.
LEMMA Frame ==
    /\ JobsTyped /\ TasksTyped /\ UNCHANGED jobVars => JobsTyped' /\ TasksTyped'
    /\ TasksTyped /\ UNCHANGED taskVars => TasksTyped'
    /\ TrunkTyped /\ UNCHANGED trunkVars => TrunkTyped'
    /\ ExecTyped /\ UNCHANGED execVars => ExecTyped'
    /\ QueueTyped /\ UNCHANGED queueVars => QueueTyped'
    /\ ActorTyped /\ UNCHANGED actorVars => ActorTyped'
    /\ GhostsTyped /\ UNCHANGED ghostVars => GhostsTyped'
    /\ BoundsTyped /\ UNCHANGED boundVars => BoundsTyped'
<1>1. JobsTyped /\ TasksTyped /\ UNCHANGED jobVars => JobsTyped' /\ TasksTyped'
  BY DEF JobsTyped, TasksTyped, jobVars, taskVars
<1>2. TasksTyped /\ UNCHANGED taskVars => TasksTyped'
  BY DEF TasksTyped, taskVars
<1>3. TrunkTyped /\ UNCHANGED trunkVars => TrunkTyped'
  BY DEF TrunkTyped, trunkVars
<1>4. ExecTyped /\ UNCHANGED execVars => ExecTyped'
  BY DEF ExecTyped, execVars
<1>5. QueueTyped /\ UNCHANGED queueVars => QueueTyped'
  BY DEF QueueTyped, queueVars
<1>6. ActorTyped /\ UNCHANGED actorVars => ActorTyped'
  BY DEF ActorTyped, actorVars
<1>7. GhostsTyped /\ UNCHANGED ghostVars => GhostsTyped'
  BY DEF GhostsTyped, ghostVars
<1>8. BoundsTyped /\ UNCHANGED boundVars => BoundsTyped'
  BY DEF BoundsTyped, boundVars
<1> QED
  BY <1>1, <1>2, <1>3, <1>4, <1>5, <1>6, <1>7, <1>8
--------------------------------------------------------------------------------
\* The phases before the landing.
LEMMA PhaseSteps ==
    ASSUME TypeOK, NEW j \in Jobs,
           WorkFinished(j) \/ EvaluationHeld(j) \/ EvaluationEntered(j) \/
           EvaluatorsLaunched(j) \/ EvalPassed(j) \/ EvalFailed(j) \/
           PhaseEscalated(j)
    PROVE  TypeOK'
<1>1. CASE WorkFinished(j)
  <2>1. JobsTyped'
    BY <1>1 DEF TypeOK, WorkFinished, FinalizePass, AfterWork, Idle, JobsTyped,
       JobStates, Branches
  <2>2. TasksTyped'
    BY <1>1 DEF TypeOK, WorkFinished, FinalizePass, AfterWork, Idle, TasksTyped,
       TaskStates, ExecTyped
  <2>3. ExecTyped'
    BY <1>1, DropExecTyped, Frame DEF TypeOK, WorkFinished, FinalizePass, AfterWork,
       Idle, ExecTyped
  <2>4. QueueTyped'
    BY <1>1, EnqueueTyped DEF TypeOK, WorkFinished, FinalizePass, AfterWork, Idle,
       QueueTyped
  <2>5. ActorTyped'
    BY <1>1 DEF TypeOK, WorkFinished, FinalizePass, AfterWork, Idle, ActorTyped
  <2>6. GhostsTyped'
    BY <1>1 DEF TypeOK, WorkFinished, FinalizePass, AfterWork, Idle, GhostsTyped,
       TrunkTyped
  <2> QED
    BY <1>1, <2>1, <2>2, <2>3, <2>4, <2>5, <2>6, Frame DEF TypeOK, WorkFinished
<1>2. CASE EvaluationHeld(j)
  BY <1>2, Frame DEF TypeOK, EvaluationHeld, ReturnFrom, ActorTyped
<1>3. CASE EvaluationEntered(j)
  <2>1. JobsTyped'
    BY <1>3 DEF TypeOK, EvaluationEntered, TrunkTyped, JobsTyped, JobStates, Branches
  <2>2. ActorTyped'
    BY <1>3 DEF TypeOK, EvaluationEntered, TrunkTyped, ActorTyped
  <2>3. GhostsTyped'
    BY <1>3 DEF TypeOK, EvaluationEntered, TrunkTyped, GhostsTyped
  <2> QED
    BY <1>3, <2>1, <2>2, <2>3, Frame DEF TypeOK, EvaluationEntered
<1>4. CASE EvaluatorsLaunched(j)
  BY <1>4, Frame DEF TypeOK, EvaluatorsLaunched, ReturnFrom, JobsTyped, JobStates,
     Branches, TasksTyped, TaskStates, ActorTyped
<1>5. CASE EvalPassed(j)
  <2>1. JobsTyped'
    BY <1>5 DEF TypeOK, EvalPassed, FinalizePass, Idle, JobsTyped, JobStates, Branches
  <2>2. TasksTyped'
    BY <1>5 DEF TypeOK, EvalPassed, FinalizePass, Idle, TasksTyped, TaskStates,
       ExecTyped
  <2>3. ExecTyped'
    BY <1>5, DropExecTyped, Frame DEF TypeOK, EvalPassed, FinalizePass, Idle,
       ExecTyped
  <2>4. QueueTyped'
    BY <1>5, EnqueueTyped DEF TypeOK, EvalPassed, FinalizePass, Idle, QueueTyped
  <2>5. ActorTyped'
    BY <1>5 DEF TypeOK, EvalPassed, FinalizePass, Idle, ActorTyped
  <2>6. GhostsTyped'
    BY <1>5 DEF TypeOK, EvalPassed, FinalizePass, Idle, GhostsTyped, TrunkTyped
  <2> QED
    BY <1>5, <2>1, <2>2, <2>3, <2>4, <2>5, <2>6, Frame DEF TypeOK, EvalPassed
<1>6. CASE EvalFailed(j)
  <2>1. JobsTyped'
    BY <1>6 DEF TypeOK, EvalFailed, EvalRework, JobsTyped, JobStates, Branches
  <2>2. TasksTyped'
    <3>1. CASE draining
      BY <1>6, <3>1 DEF EvalFailed, TypeOK, TasksTyped, TaskStates
    <3>2. CASE ~draining
      <4>1. execCycle[j] + 1 \in Nat
        BY DEF TypeOK, ExecTyped
      <4>2. LaunchWork(j, execCycle[j] + 1, FALSE)
        BY <1>6, <3>2 DEF EvalFailed, EvalRework
      <4> QED
        BY <4>1, <4>2, LaunchWorkTyped DEF TypeOK
    <3> QED
      BY <3>1, <3>2
  <2>3. ExecTyped'
    <3>1. CASE draining
      BY <1>6, <3>1 DEF EvalFailed, TypeOK, ExecTyped
    <3>2. CASE ~draining
      <4>1. execCycle' \in [Jobs -> Nat]
        BY <1>6, <3>2 DEF EvalFailed, EvalRework, TypeOK, ExecTyped
      <4>2. execFix' \in [Jobs -> BOOLEAN]
        BY <1>6, <3>2 DEF EvalFailed, EvalRework, TypeOK, ExecTyped
      <4>3. UNCHANGED <<exec, fixUsed, gate>>
        BY <1>6 DEF EvalFailed
      <4> QED
        BY <4>1, <4>2, <4>3 DEF TypeOK, ExecTyped
    <3> QED
      BY <3>1, <3>2
  <2> QED
    BY <1>6, <2>1, <2>2, <2>3, Frame DEF TypeOK, EvalFailed
<1>7. CASE PhaseEscalated(j)
  <2>1. JobsTyped'
    BY <1>7 DEF TypeOK, PhaseEscalated, Escalate, JobsTyped, JobStates, Branches
  <2>2. TasksTyped'
    BY <1>7 DEF TypeOK, PhaseEscalated, Escalate, TasksTyped, TaskStates, ExecTyped
  <2>3. ExecTyped'
    BY <1>7, DropExecTyped DEF TypeOK, PhaseEscalated, Escalate, ExecTyped
  <2> QED
    BY <1>7, <2>1, <2>2, <2>3, Frame DEF TypeOK, PhaseEscalated
<1> QED
  BY <1>1, <1>2, <1>3, <1>4, <1>5, <1>6, <1>7

\* The landing fold.
LEMMA LandingSteps ==
    ASSUME TypeOK, NEW j \in Jobs,
           LandingRefused(j) \/ LandingError(j) \/ LandNothing(j) \/
           LandUngated(j) \/ LandingUnread(j) \/ SquashConflict(j) \/ OpenGate(j)
           \/ GateOpened(j) \/ GateLaunchError(j)
    PROVE  TypeOK'
<1>1. CASE LandingRefused(j)
  BY <1>1, DropExecTyped, Frame DEF TypeOK, LandingRefused, LandingEscalates,
     Escalate, JobsTyped, JobStates, Branches, ExecTyped, ActorTyped
<1>2. CASE LandingError(j)
  BY <1>2, DropExecTyped, Frame DEF TypeOK, LandingError, LandingEscalates, Escalate,
     JobsTyped, JobStates, Branches, ExecTyped, ActorTyped
<1>3. CASE LandNothing(j)
  BY <1>3, Frame DEF TypeOK, LandNothing, ActorTyped
<1>4. CASE LandUngated(j)
  BY <1>4, Frame DEF TypeOK, LandUngated, Land, TrunkTyped, ActorTyped, GhostsTyped
<1>5. CASE LandingUnread(j)
  BY <1>5, Frame DEF TypeOK, LandingUnread, ActorTyped
<1>6. CASE SquashConflict(j)
  <2>1. JobsTyped'
    BY <1>6 DEF TypeOK, SquashConflict, RebaseOnto, JobsTyped, JobStates, Branches
  <2>2. QueueTyped'
    BY <1>6 DEF TypeOK, SquashConflict, RebaseOnto, QueueTyped
  <2>3. ActorTyped'
    BY <1>6 DEF TypeOK, SquashConflict, RebaseOnto, ActorTyped
  <2>4. GhostsTyped'
    BY <1>6 DEF TypeOK, SquashConflict, RebaseOnto, GhostsTyped, TrunkTyped
  <2> QED
    BY <1>6, <2>1, <2>2, <2>3, <2>4, Frame DEF TypeOK, SquashConflict
<1>7. CASE OpenGate(j)
  BY <1>7, Frame DEF TypeOK, OpenGate, QueueTyped, ActorTyped
<1>8. CASE GateOpened(j)
  <2>1. ExecTyped'
    <3> DEFINE round == [oldHead |-> head, slots |-> OpenStage(NoSlots)]
    <3>1. OpenStage(NoSlots) \in [Evals -> SlotStates]
      BY DEF OpenStage, NoSlots, SlotStates
    <3>2. round \in Rounds
      BY <3>1 DEF Rounds, TypeOK, TrunkTyped
    <3> HIDE DEF round
    <3>3. gate' = [gate EXCEPT ![j] = round]
      BY <1>8 DEF GateOpened, round
    <3> QED
      BY <1>8, <3>2, <3>3 DEF GateOpened, TypeOK, ExecTyped
  <2>2. ActorTyped'
    BY <1>8 DEF TypeOK, GateOpened, Rounds, OpenStage, NoSlots, SlotStates,
       ReturnFrom, ActorTyped
  <2> QED
    BY <1>8, <2>1, <2>2, Frame DEF TypeOK, GateOpened
<1>9. CASE GateLaunchError(j)
  BY <1>9, DropExecTyped, Frame DEF TypeOK, GateLaunchError, LandingEscalates,
     Escalate, JobsTyped, JobStates, Branches, ExecTyped, ActorTyped
<1> QED
  BY <1>1, <1>2, <1>3, <1>4, <1>5, <1>6, <1>7, <1>8, <1>9

\* The gate round and the re-entry of Work.
LEMMA GateSteps ==
    ASSUME TypeOK, NEW j \in Jobs,
           GatePassed(j) \/ GateFailed(j) \/ PinBase(j) \/ WorkEntryRefused(j) \/
           WorkEntered(j) \/ WorkLaunched(j)
    PROVE  TypeOK'
<1>1. CASE GatePassed(j)
  <2>1. TrunkTyped'
    <3>1. head' \in Nat
      BY <1>1 DEF GatePassed, Land, TypeOK, TrunkTyped
    <3>2. ahead' \in BOOLEAN /\ held' \in BOOLEAN
      BY <1>1 DEF GatePassed, Land, TypeOK, TrunkTyped
    <3> QED
      BY <3>1, <3>2 DEF TrunkTyped
  <2>2. ExecTyped'
    BY <1>1 DEF TypeOK, GatePassed, Reducing, Land, Rounds, ExecTyped
  <2>3. QueueTyped'
    BY <1>1 DEF TypeOK, GatePassed, Reducing, Land, Rounds, QueueTyped
  <2>4. ActorTyped'
    BY <1>1 DEF TypeOK, GatePassed, Reducing, Land, Rounds, ActorTyped
  <2>5. GhostsTyped'
    <3>1. gate[j].oldHead \in Nat
      BY <1>1 DEF GatePassed, Reducing, Rounds, TypeOK, ExecTyped
    <3>2. verified' \in [Jobs -> Nat \cup {Unverified}]
      BY <1>1, <3>1 DEF GatePassed, TypeOK, GhostsTyped
    <3>3. landed' \subseteq Jobs
      BY <1>1 DEF GatePassed, Land, TypeOK, GhostsTyped
    <3> QED
      BY <1>1, <3>2, <3>3 DEF GatePassed, TypeOK, GhostsTyped
  <2> QED
    BY <1>1, <2>1, <2>2, <2>3, <2>4, <2>5, Frame DEF TypeOK, GatePassed, Reducing
<1>2. CASE GateFailed(j)
  <2>1. JobsTyped'
    BY <1>2 DEF TypeOK, GateFailed, Reducing, RebaseOnto, GetsFix, Rounds, JobsTyped,
       JobStates, Branches
  <2>2. ExecTyped'
    BY <1>2 DEF TypeOK, GateFailed, Reducing, RebaseOnto, GetsFix, Rounds, ExecTyped
  <2>3. QueueTyped'
    BY <1>2 DEF TypeOK, GateFailed, Reducing, RebaseOnto, GetsFix, Rounds, QueueTyped
  <2>4. ActorTyped'
    BY <1>2 DEF TypeOK, GateFailed, Reducing, RebaseOnto, GetsFix, Rounds, ActorTyped
  <2>5. GhostsTyped'
    <3>1. gate[j].oldHead \in Nat
      BY <1>2 DEF GateFailed, Reducing, Rounds, TypeOK, ExecTyped
    <3> QED
      BY <1>2, <3>1 DEF GateFailed, RebaseOnto, TypeOK, GhostsTyped
  <2> QED
    BY <1>2, <2>1, <2>2, <2>3, <2>4, <2>5, Frame DEF TypeOK, GateFailed, Reducing
<1>3. CASE PinBase(j)
  <2>1. JobsTyped'
    BY <1>3 DEF TypeOK, PinBase, TrunkTyped, GhostsTyped, JobsTyped, JobStates,
       Branches
  <2>2. ExecTyped'
    BY <1>3 DEF TypeOK, PinBase, TrunkTyped, GhostsTyped, ExecTyped
  <2>3. QueueTyped'
    BY <1>3 DEF TypeOK, PinBase, TrunkTyped, GhostsTyped, QueueTyped
  <2>4. ActorTyped'
    BY <1>3 DEF TypeOK, PinBase, TrunkTyped, GhostsTyped, ActorTyped
  <2> QED
    BY <1>3, <2>1, <2>2, <2>3, <2>4, Frame DEF TypeOK, PinBase
<1>4. CASE WorkEntryRefused(j)
  BY <1>4, Frame DEF TypeOK, WorkEntryRefused, Escalate, JobsTyped, JobStates,
     Branches, ActorTyped
<1>5. CASE WorkEntered(j)
  BY <1>5, Frame DEF TypeOK, WorkEntered, JobsTyped, JobStates, Branches, ExecTyped,
     ActorTyped
<1>6. CASE WorkLaunched(j)
  <2>1. JobsTyped'
    BY <1>6 DEF TypeOK, WorkLaunched, JobsTyped, JobStates, Branches
  <2>2. TasksTyped'
    <3>1. execCycle[j] \in Nat /\ asFix \in BOOLEAN
      BY DEF TypeOK, ExecTyped, ActorTyped
    <3> QED
      BY <1>6, <3>1, LaunchWorkTyped DEF WorkLaunched, TypeOK
  <2>3. ActorTyped'
    BY <1>6 DEF TypeOK, WorkLaunched, ActorTyped
  <2> QED
    BY <1>6, <2>1, <2>2, <2>3, Frame DEF TypeOK, WorkLaunched
<1> QED
  BY <1>1, <1>2, <1>3, <1>4, <1>5, <1>6

\* The publish, Done, and the operator.
LEMMA ShippingSteps ==
    ASSUME TypeOK, NEW j \in Jobs,
           Landed(j) \/ Completed(j) \/ RetryWork(j) \/ ReEvaluate(j) \/
           RetryPublish(j) \/ Revoke(j)
    PROVE  TypeOK'
<1>1. CASE Landed(j)
  BY <1>1, Frame DEF TypeOK, Landed, JobsTyped, JobStates, Branches, TasksTyped,
     TaskStates, ActorTyped
<1>2. CASE Completed(j)
  <2>1. JobsTyped'
    BY <1>2 DEF TypeOK, Completed, ReturnFrom, JobsTyped, JobStates, Branches
  <2>2. ExecTyped'
    BY <1>2, DropExecTyped DEF TypeOK, Completed, ReturnFrom, ExecTyped
  <2>3. ActorTyped'
    BY <1>2 DEF TypeOK, Completed, ReturnFrom, ActorTyped
  <2> QED
    BY <1>2, <2>1, <2>2, <2>3, Frame DEF TypeOK, Completed
<1>3. CASE RetryWork(j)
  <2>1. JobsTyped'
    BY <1>3 DEF TypeOK, RetryWork, JobsTyped, JobStates, Branches
  <2>2. TasksTyped'
    <3>1. ExecTyped'
      BY <1>3, EnsureExecTyped DEF RetryWork, TypeOK
    <3>2. execCycle'[j] \in Nat /\ execFix'[j] \in BOOLEAN
      BY <3>1 DEF ExecTyped
    <3> QED
      BY <1>3, <3>2, LaunchWorkTyped DEF RetryWork, TypeOK
  <2>3. ExecTyped'
    BY <1>3, EnsureExecTyped DEF TypeOK, RetryWork, ExecTyped
  <2> QED
    BY <1>3, <2>1, <2>2, <2>3, Frame DEF TypeOK, RetryWork
<1>4. CASE ReEvaluate(j)
  <2>1. ExecTyped'
    BY <1>4, EnsureExecTyped DEF TypeOK, ReEvaluate, ExecTyped
  <2>2. ActorTyped'
    BY <1>4 DEF TypeOK, ReEvaluate, ActorTyped
  <2>3. BoundsTyped'
    BY <1>4, BoundsAssumption DEF TypeOK, ReEvaluate, BoundsTyped
  <2> QED
    BY <1>4, <2>1, <2>2, <2>3, Frame DEF TypeOK, ReEvaluate
<1>5. CASE RetryPublish(j)
  <2>1. JobsTyped'
    BY <1>5 DEF TypeOK, RetryPublish, JobsTyped, JobStates, Branches
  <2>2. TasksTyped'
    BY <1>5 DEF TypeOK, RetryPublish, TasksTyped, TaskStates, ExecTyped
  <2>3. ExecTyped'
    BY <1>5, EnsureExecTyped DEF TypeOK, RetryPublish, ExecTyped
  <2> QED
    BY <1>5, <2>1, <2>2, <2>3, Frame DEF TypeOK, RetryPublish
<1>6. CASE Revoke(j)
  <2>1. JobsTyped'
    BY <1>6 DEF TypeOK, Revoke, JobsTyped, JobStates, Branches
  <2>2. ExecTyped'
    BY <1>6, DropExecTyped DEF TypeOK, Revoke, ExecTyped
  <2>3. QueueTyped'
    BY <1>6, WithoutTyped DEF TypeOK, Revoke, QueueTyped
  <2>4. ActorTyped'
    BY <1>6 DEF TypeOK, Revoke, ActorTyped
  <2>5. GhostsTyped'
    BY <1>6 DEF Revoke, TypeOK, GhostsTyped, JobsTyped
  <2> QED
    BY <1>6, <2>1, <2>2, <2>3, <2>4, <2>5, Frame DEF TypeOK, Revoke
<1> QED
  BY <1>1, <1>2, <1>3, <1>4, <1>5, <1>6

\* The recovery of one job.
LEMMA RecoverySteps ==
    ASSUME TypeOK, NEW j \in Jobs,
           RecoverWork(j) \/ RecoverEvaluation(j) \/ RecoverWrapUp(j)
    PROVE  TypeOK'
<1>1. CASE RecoverWork(j)
  <2>1. JobsTyped'
    BY <1>1 DEF TypeOK, RecoverWork, Recovering, Escalate, ReturnFrom, jobVars,
       JobsTyped, JobStates, Branches
  <2>2. TasksTyped'
    <3>1. cycle[j] \in Nat
      BY DEF TypeOK, TasksTyped
    <3>2. UNCHANGED taskVars \/ LaunchWork(j, cycle[j], FALSE)
      BY <1>1 DEF RecoverWork, jobVars
    <3> QED
      BY <3>1, <3>2, LaunchWorkTyped, Frame DEF TypeOK
  <2>3. ExecTyped'
    BY <1>1, EnsureExecTyped, DropExecTyped DEF TypeOK, RecoverWork, Recovering,
       Escalate, ReturnFrom, jobVars, ExecTyped
  <2>4. QueueTyped'
    BY <1>1 DEF TypeOK, RecoverWork, Recovering, Escalate, ReturnFrom, jobVars,
       QueueTyped
  <2>5. ActorTyped'
    BY <1>1 DEF TypeOK, RecoverWork, Recovering, Escalate, ReturnFrom, jobVars,
       ActorTyped
  <2> QED
    BY <1>1, <2>1, <2>2, <2>3, <2>4, <2>5, Frame DEF TypeOK, RecoverWork, Recovering
<1>2. CASE RecoverEvaluation(j)
  <2>1. JobsTyped'
    BY <1>2 DEF TypeOK, RecoverEvaluation, RecoveredPass, Recovering, Escalate,
       ReturnFrom, JobsTyped, JobStates, Branches
  <2>2. TasksTyped'
    <3>1. cycle[j] + 1 \in Nat
      BY DEF TypeOK, TasksTyped
    <3>2. \/ UNCHANGED taskVars
          \/ LaunchWork(j, cycle[j] + 1, FALSE)
          \/ /\ evals' = [evals EXCEPT ![j] = "running"]
             /\ UNCHANGED <<cycle, workTask, fixTask, fixes, publish>>
      BY <1>2 DEF RecoverEvaluation, RecoveredPass
    <3>3. CASE /\ evals' = [evals EXCEPT ![j] = "running"]
               /\ UNCHANGED <<cycle, workTask, fixTask, fixes, publish>>
      BY <3>3 DEF TypeOK, TasksTyped, TaskStates
    <3> QED
      BY <3>1, <3>2, <3>3, LaunchWorkTyped, Frame DEF TypeOK
  <2>3. ExecTyped'
    <3>1. \/ EnsureExec(j)
          \/ DropExec(j)
          \/ /\ exec' = exec \cup {j}
             /\ execCycle' = [execCycle EXCEPT ![j] = cycle[j] + 1]
             /\ \E n \in FixesCounted(j) : fixUsed' = [fixUsed EXCEPT ![j] = n]
             /\ UNCHANGED <<execFix, gate>>
      BY <1>2 DEF RecoverEvaluation, RecoveredPass
    <3>2. FixesCounted(j) \subseteq Nat
      BY DEF FixesCounted, GATE_FIX_BUDGET
    <3>3. CASE /\ exec' = exec \cup {j}
               /\ execCycle' = [execCycle EXCEPT ![j] = cycle[j] + 1]
               /\ \E n \in FixesCounted(j) : fixUsed' = [fixUsed EXCEPT ![j] = n]
               /\ UNCHANGED <<execFix, gate>>
      BY <3>2, <3>3 DEF TypeOK, ExecTyped, TasksTyped
    <3> QED
      BY <3>1, <3>3, EnsureExecTyped, DropExecTyped DEF TypeOK
  <2>4. QueueTyped'
    BY <1>2, EnqueueTyped DEF TypeOK, RecoverEvaluation, RecoveredPass, Recovering,
       Escalate, ReturnFrom, QueueTyped
  <2>5. ActorTyped'
    BY <1>2 DEF TypeOK, RecoverEvaluation, RecoveredPass, Recovering, Escalate,
       ReturnFrom, ActorTyped
  <2> QED
    BY <1>2, <2>1, <2>2, <2>3, <2>4, <2>5, Frame DEF TypeOK, RecoverEvaluation,
       Recovering
<1>3. CASE RecoverWrapUp(j)
  <2>1. JobsTyped'
    BY <1>3 DEF TypeOK, RecoverWrapUp, Recovering, Escalate, ReturnFrom, jobVars,
       JobsTyped, JobStates, Branches
  <2>2. TasksTyped'
    <3>1. UNCHANGED taskVars
      BY <1>3 DEF RecoverWrapUp, jobVars
    <3> QED
      BY <3>1, Frame DEF TypeOK
  <2>3. ExecTyped'
    BY <1>3, EnsureExecTyped, DropExecTyped DEF TypeOK, RecoverWrapUp, Recovering,
       Escalate, ReturnFrom, jobVars, ExecTyped
  <2>4. QueueTyped'
    BY <1>3, EnqueueTyped DEF TypeOK, RecoverWrapUp, Recovering, Escalate, ReturnFrom,
       jobVars, QueueTyped
  <2>5. ActorTyped'
    BY <1>3 DEF TypeOK, RecoverWrapUp, Recovering, Escalate, ReturnFrom, jobVars,
       ActorTyped
  <2> QED
    BY <1>3, <2>1, <2>2, <2>3, <2>4, <2>5, Frame DEF TypeOK, RecoverWrapUp, Recovering
<1> QED
  BY <1>1, <1>2, <1>3

\* The exits of gate and publish commands.
LEMMA ExitSteps ==
    ASSUME TypeOK, NEW j \in Jobs, NEW e \in Evals, NEW pass \in BOOLEAN,
           GateExited(j, e, pass) \/ GateLaunchExpired(j, e) \/ PublishExited(j, pass)
    PROVE  TypeOK'
<1>1. CASE GateExited(j, e, pass)
  <2> DEFINE slots == [gate[j].slots EXCEPT ![e] = IF pass THEN "pass" ELSE "fail"]
  <2>1. gate[j] \in Rounds
    BY <1>1 DEF GateExited, GateRuns, TypeOK, ExecTyped
  <2>2. slots \in [Evals -> SlotStates]
    BY <2>1 DEF Rounds, SlotStates
  <2>3. OpenStage(slots) \in [Evals -> SlotStates]
    BY <2>2 DEF SlotStates, OpenStage
  <2>4. \/ gate' = [gate EXCEPT ![j].slots = slots]
        \/ gate' = [gate EXCEPT ![j].slots = OpenStage(slots)]
    BY <1>1 DEF GateExited
  <2> HIDE DEF slots
  <2>5. gate' \in [Jobs -> Rounds \cup {None}]
    BY <2>1, <2>2, <2>3, <2>4 DEF Rounds, TypeOK, ExecTyped
  <2>6. ExecTyped'
    BY <1>1, <2>5 DEF GateExited, TypeOK, ExecTyped
  <2>7. ActorTyped'
    BY <1>1 DEF GateExited, TypeOK, ActorTyped
  <2> QED
    BY <1>1, <2>6, <2>7, Frame DEF GateExited, TypeOK
<1>2. CASE GateLaunchExpired(j, e)
  BY <1>2, DropExecTyped, Frame
     DEF GateLaunchExpired, Escalate, TypeOK, JobsTyped, JobStates
<1>3. CASE PublishExited(j, pass)
  <2>1. JobsTyped' /\ TasksTyped'
    BY <1>3 DEF PublishExited, Escalate, TypeOK, JobsTyped, JobStates, TasksTyped, TaskStates
  <2>2. ExecTyped'
    BY <1>3, DropExecTyped, Frame DEF PublishExited, TypeOK
  <2>3. ActorTyped'
    BY <1>3 DEF PublishExited, TypeOK, ActorTyped
  <2> QED
    BY <1>3, <2>1, <2>2, <2>3, Frame DEF PublishExited, TypeOK
<1> QED
  BY <1>1, <1>2, <1>3

\* The steps that name no job.
LEMMA GlobalSteps ==
    ASSUME TypeOK,
           PumpHolds \/ PumpPops \/ Drain \/ OriginRelease \/ ReleaseMerged \/ ReleaseClosed
             \/ FastForward \/ Crash
    PROVE  TypeOK'
<1>1. CASE PumpHolds
  BY <1>1, Frame DEF PumpHolds, ReturnFrom, TypeOK, ActorTyped
<1>2. CASE PumpPops
  BY <1>2, HeadTailProperties, Frame DEF PumpPops, TypeOK, ActorTyped, QueueTyped
<1>3. CASE Drain
  BY <1>3, Frame DEF Drain, TypeOK
<1>4. CASE OriginRelease
  BY <1>4, Frame DEF OriginRelease, TypeOK, TrunkTyped
<1>5. CASE ReleaseMerged
  <2>1. head' \in Nat
    BY <1>5 DEF ReleaseMerged, TypeOK, TrunkTyped
  <2>2. ahead' \in BOOLEAN /\ held' \in BOOLEAN
    BY <1>5 DEF ReleaseMerged
  <2>3. ActorTyped'
    BY <1>5 DEF ReleaseMerged, TypeOK, ActorTyped
  <2>4. BoundsTyped'
    BY <1>5, BoundsAssumption DEF ReleaseMerged, TypeOK, BoundsTyped
  <2> QED
    BY <1>5, <2>1, <2>2, <2>3, <2>4, Frame DEF ReleaseMerged, TypeOK, TrunkTyped
<1>6. CASE ReleaseClosed
  BY <1>6, Frame DEF ReleaseClosed, TypeOK, TrunkTyped, ActorTyped
<1>7. CASE FastForward
  BY <1>7, BoundsAssumption, Frame DEF FastForward, TypeOK, TrunkTyped, BoundsTyped
<1>8. CASE Crash
  <2>1. ExecTyped' /\ QueueTyped'
    BY <1>8, EmptySeq DEF Crash, TypeOK, ExecTyped, QueueTyped
  <2>2. ActorTyped'
    BY <1>8 DEF Crash, ReturnFrom, TypeOK, ActorTyped
  <2>3. BoundsTyped'
    BY <1>8, BoundsAssumption DEF Crash, TypeOK, BoundsTyped
  <2> QED
    BY <1>8, <2>1, <2>2, <2>3, Frame DEF Crash, TypeOK
<1> QED
  BY <1>1, <1>2, <1>3, <1>4, <1>5, <1>6, <1>7, <1>8
--------------------------------------------------------------------------------
\* Every reachable state is well typed: no handler, fault or restart leaves a
\* value in a record, a slice or the queue that the code could not hold there.
THEOREM TypeCorrect == Spec => []TypeOK
<1>1. Init => TypeOK
  <2> SUFFICES ASSUME Init PROVE TypeOK
    OBVIOUS
  <2>1. JobsTyped /\ TasksTyped /\ TrunkTyped
    BY DEF Init, JobsTyped, TasksTyped, TrunkTyped, JobStates, Branches, TaskStates
  <2>2. ExecTyped /\ QueueTyped
    BY EmptySeq DEF Init, ExecTyped, QueueTyped
  <2>3. ActorTyped /\ GhostsTyped
    BY DEF Init, ActorTyped, GhostsTyped
  <2>4. BoundsTyped
    BY BoundsAssumption DEF Init, BoundsTyped
  <2> QED
    BY <2>1, <2>2, <2>3, <2>4 DEF Init, TypeOK
<1>2. TypeOK /\ [Next]_vars => TypeOK'
  <2> SUFFICES ASSUME TypeOK, [Next]_vars
               PROVE  TypeOK'
    OBVIOUS
  <2>1. CASE ActorStep
    BY <2>1, PhaseSteps, LandingSteps, GateSteps, ShippingSteps, RecoverySteps, GlobalSteps
       DEF ActorStep
  <2>2. CASE Phases
    BY <2>2, PhaseSteps DEF Phases
  <2>3. CASE GateExits \/ GateExpires \/ \E j \in Jobs : PublishExits(j)
    BY <2>3, ExitSteps, StageAssumption DEF GateExits, GateExpires, PublishExits
  <2>4. CASE Operator
    BY <2>4, ShippingSteps, GlobalSteps DEF Operator
  <2>5. CASE Origin \/ Crash
    BY <2>5, GlobalSteps DEF Origin
  <2>6. CASE UNCHANGED vars
    BY <2>6, Frame DEF vars, TypeOK
  <2> QED
    BY <2>1, <2>2, <2>3, <2>4, <2>5, <2>6 DEF Next
<1> QED
  BY <1>1, <1>2, PTL DEF Spec
--------------------------------------------------------------------------------
(***************************************************************************)
(* The default branch stands still where the code relies on it: while an   *)
(* origin release is open, and from the opening of a gate round to its     *)
(* verdict.  Both follow from who holds the gate, and when.                *)
(***************************************************************************)
\* A gate round belongs to the job at the gate.
GateOwned == \A j \in Jobs : gate[j] # None => gating = j

\* A release is open only while the gate is free.
HoldWaits == held => gating = None

\* A handler that may move the default branch, or take the gate, runs while no
\* release is open.
LandingOwned ==
    /\ pc = "start" => ~held /\ gating = None
    /\ pc = "opening" => ~held /\ gating = cur
    /\ pc = "reduce" => ~held

\* The inductive invariant: neither theorem below is inductive alone, as a
\* release opens on what the gate says, and the gate on what the pump saw.
GateInv == GateOwned /\ HoldWaits /\ LandingOwned
--------------------------------------------------------------------------------
\* No phase before the landing touches the gate: only its own slice goes.
LEMMA PhasesHold ==
    ASSUME TypeOK, GateInv, NEW j \in Jobs,
                      WorkFinished(j) \/ EvaluationHeld(j) \/ EvaluationEntered(j) \/
               EvaluatorsLaunched(j) \/ EvalPassed(j) \/ EvalFailed(j) \/
               PhaseEscalated(j)
    PROVE  GateInv'
<1>0. gate \in [Jobs -> Rounds \cup {None}] /\ gating \in Jobs \cup {None}
  BY DEF TypeOK, ExecTyped, QueueTyped
<1>1. CASE WorkFinished(j)
  BY <1>1, <1>0, NoneAssumption
          DEF GateInv, GateOwned, HoldWaits, LandingOwned, WorkFinished, FinalizePass,
         DropExec, trunkVars, execVars, queueVars, actorVars
<1>2. CASE EvaluationHeld(j)
  BY <1>2, <1>0, NoneAssumption
          DEF GateInv, GateOwned, HoldWaits, LandingOwned, EvaluationHeld, ReturnFrom,
         trunkVars, execVars, queueVars, actorVars
<1>3. CASE EvaluationEntered(j)
  BY <1>3, <1>0, NoneAssumption
          DEF GateInv, GateOwned, HoldWaits, LandingOwned, EvaluationEntered, trunkVars,
         execVars, queueVars, actorVars
<1>4. CASE EvaluatorsLaunched(j)
  BY <1>4, <1>0, NoneAssumption
          DEF GateInv, GateOwned, HoldWaits, LandingOwned, EvaluatorsLaunched,
         ReturnFrom, trunkVars, execVars, queueVars, actorVars
<1>5. CASE EvalPassed(j)
  BY <1>5, <1>0, NoneAssumption
          DEF GateInv, GateOwned, HoldWaits, LandingOwned, EvalPassed, FinalizePass,
         DropExec, trunkVars, execVars, queueVars, actorVars
<1>6. CASE EvalFailed(j)
  BY <1>6, <1>0, NoneAssumption
          DEF GateInv, GateOwned, HoldWaits, LandingOwned, EvalFailed, EvalRework,
         trunkVars, execVars, queueVars, actorVars
<1>7. CASE PhaseEscalated(j)
  BY <1>7, <1>0, NoneAssumption
          DEF GateInv, GateOwned, HoldWaits, LandingOwned, PhaseEscalated, Escalate,
         DropExec, trunkVars, execVars, queueVars, actorVars
<1> QED
  BY <1>1, <1>2, <1>3, <1>4, <1>5, <1>6, <1>7

\* The landing fold takes the gate only from a pump that found it free.
LEMMA LandingsHold ==
    ASSUME TypeOK, GateInv, NEW j \in Jobs,
                      LandingRefused(j) \/ LandingError(j) \/ LandNothing(j) \/
               LandUngated(j) \/ LandingUnread(j) \/ SquashConflict(j) \/ OpenGate(j) \/
               GateOpened(j) \/ GateLaunchError(j)
    PROVE  GateInv'
<1>0. gate \in [Jobs -> Rounds \cup {None}] /\ gating \in Jobs \cup {None}
  BY DEF TypeOK, ExecTyped, QueueTyped
<1>1. CASE LandingRefused(j)
  BY <1>1, <1>0, NoneAssumption
          DEF GateInv, GateOwned, HoldWaits, LandingOwned, LandingRefused,
         LandingEscalates, Escalate, DropExec, Landing, trunkVars, execVars, queueVars,
         actorVars
<1>2. CASE LandingError(j)
  BY <1>2, <1>0, NoneAssumption
          DEF GateInv, GateOwned, HoldWaits, LandingOwned, LandingError,
         LandingEscalates, Escalate, DropExec, Landing, trunkVars, execVars, queueVars,
         actorVars
<1>3. CASE LandNothing(j)
  BY <1>3, <1>0, NoneAssumption
          DEF GateInv, GateOwned, HoldWaits, LandingOwned, LandNothing, Landing,
         trunkVars, execVars, queueVars, actorVars
<1>4. CASE LandUngated(j)
  BY <1>4, <1>0, NoneAssumption
          DEF GateInv, GateOwned, HoldWaits, LandingOwned, LandUngated, Landing, Land,
         trunkVars, execVars, queueVars, actorVars
<1>5. CASE LandingUnread(j)
  BY <1>5, <1>0, NoneAssumption
          DEF GateInv, GateOwned, HoldWaits, LandingOwned, LandingUnread, Landing,
         trunkVars, execVars, queueVars, actorVars
<1>6. CASE SquashConflict(j)
  BY <1>6, <1>0, NoneAssumption
          DEF GateInv, GateOwned, HoldWaits, LandingOwned, SquashConflict, Landing,
         RebaseOnto, trunkVars, execVars, queueVars, actorVars
<1>7. CASE OpenGate(j)
  BY <1>7, <1>0, NoneAssumption
          DEF GateInv, GateOwned, HoldWaits, LandingOwned, OpenGate, Landing, trunkVars,
         execVars, queueVars, actorVars
<1>8. CASE GateOpened(j)
  BY <1>8, <1>0, NoneAssumption
          DEF GateInv, GateOwned, HoldWaits, LandingOwned, GateOpened, ReturnFrom,
         trunkVars, execVars, queueVars, actorVars
<1>9. CASE GateLaunchError(j)
  BY <1>9, <1>0, NoneAssumption
          DEF GateInv, GateOwned, HoldWaits, LandingOwned, GateLaunchError,
         LandingEscalates, Escalate, DropExec, trunkVars, execVars, queueVars, actorVars
<1> QED
  BY <1>1, <1>2, <1>3, <1>4, <1>5, <1>6, <1>7, <1>8, <1>9

\* A verdict frees the gate together with its round.
LEMMA GatesHold ==
    ASSUME TypeOK, GateInv, NEW j \in Jobs,
                      GatePassed(j) \/ GateFailed(j) \/ PinBase(j) \/
               WorkEntryRefused(j) \/ WorkEntered(j) \/ WorkLaunched(j) \/ Landed(j) \/
               Completed(j)
    PROVE  GateInv'
<1>0. gate \in [Jobs -> Rounds \cup {None}] /\ gating \in Jobs \cup {None}
  BY DEF TypeOK, ExecTyped, QueueTyped
<1>1. CASE GatePassed(j)
  BY <1>1, <1>0, NoneAssumption
          DEF GateInv, GateOwned, HoldWaits, LandingOwned, GatePassed, Reducing, Land,
         trunkVars, execVars, queueVars, actorVars
<1>2. CASE GateFailed(j)
  BY <1>2, <1>0, NoneAssumption
          DEF GateInv, GateOwned, HoldWaits, LandingOwned, GateFailed, Reducing,
         RebaseOnto, trunkVars, execVars, queueVars, actorVars
<1>3. CASE PinBase(j)
  BY <1>3, <1>0, NoneAssumption
          DEF GateInv, GateOwned, HoldWaits, LandingOwned, PinBase, trunkVars, execVars,
         queueVars, actorVars
<1>4. CASE WorkEntryRefused(j)
  BY <1>4, <1>0, NoneAssumption
          DEF GateInv, GateOwned, HoldWaits, LandingOwned, WorkEntryRefused, Escalate,
         trunkVars, execVars, queueVars, actorVars
<1>5. CASE WorkEntered(j)
  BY <1>5, <1>0, NoneAssumption
          DEF GateInv, GateOwned, HoldWaits, LandingOwned, WorkEntered, trunkVars,
         execVars, queueVars, actorVars
<1>6. CASE WorkLaunched(j)
  BY <1>6, <1>0, NoneAssumption
          DEF GateInv, GateOwned, HoldWaits, LandingOwned, WorkLaunched, trunkVars,
         execVars, queueVars, actorVars
<1>7. CASE Landed(j)
  BY <1>7, <1>0, NoneAssumption
          DEF GateInv, GateOwned, HoldWaits, LandingOwned, Landed, trunkVars, execVars,
         queueVars, actorVars
<1>8. CASE Completed(j)
  BY <1>8, <1>0, NoneAssumption
          DEF GateInv, GateOwned, HoldWaits, LandingOwned, Completed, DropExec,
         ReturnFrom, trunkVars, execVars, queueVars, actorVars
<1> QED
  BY <1>1, <1>2, <1>3, <1>4, <1>5, <1>6, <1>7, <1>8

\* An operator frees the gate only of the job whose slice goes.
LEMMA OperatorsHold ==
    ASSUME TypeOK, GateInv, NEW j \in Jobs,
           RetryWork(j) \/ ReEvaluate(j) \/ RetryPublish(j) \/ Revoke(j)
    PROVE  GateInv'
<1>0. gate \in [Jobs -> Rounds \cup {None}] /\ gating \in Jobs \cup {None}
  BY DEF TypeOK, ExecTyped, QueueTyped
<1>1. CASE RetryWork(j)
  BY <1>1, <1>0, NoneAssumption
          DEF GateInv, GateOwned, HoldWaits, LandingOwned, RetryWork, EnsureExec,
         trunkVars, execVars, queueVars, actorVars
<1>2. CASE ReEvaluate(j)
  BY <1>2, <1>0, NoneAssumption
          DEF GateInv, GateOwned, HoldWaits, LandingOwned, ReEvaluate, EnsureExec,
         trunkVars, execVars, queueVars, actorVars
<1>3. CASE RetryPublish(j)
  BY <1>3, <1>0, NoneAssumption
          DEF GateInv, GateOwned, HoldWaits, LandingOwned, RetryPublish, EnsureExec,
         trunkVars, execVars, queueVars, actorVars
<1>4. CASE Revoke(j)
  BY <1>4, <1>0, NoneAssumption
          DEF GateInv, GateOwned, HoldWaits, LandingOwned, Revoke, DropExec, trunkVars,
         execVars, queueVars, actorVars
<1> QED
  BY <1>1, <1>2, <1>3, <1>4

\* Reconciliation starts from a free gate.
LEMMA RecoveriesHold ==
    ASSUME TypeOK, GateInv, NEW j \in Jobs,
           RecoverWork(j) \/ RecoverEvaluation(j) \/ RecoverWrapUp(j)
    PROVE  GateInv'
<1>0. gate \in [Jobs -> Rounds \cup {None}] /\ gating \in Jobs \cup {None}
  BY DEF TypeOK, ExecTyped, QueueTyped
<1>1. CASE RecoverWork(j)
  BY <1>1, <1>0, NoneAssumption
          DEF GateInv, GateOwned, HoldWaits, LandingOwned, RecoverWork, Recovering,
         EnsureExec, DropExec, ReturnFrom, Escalate, jobVars, trunkVars, execVars,
         queueVars, actorVars
<1>2. CASE RecoverEvaluation(j)
  BY <1>2, <1>0, NoneAssumption
          DEF GateInv, GateOwned, HoldWaits, LandingOwned, RecoverEvaluation,
         Recovering, RecoveredPass, EnsureExec, DropExec, ReturnFrom, Escalate,
         trunkVars, execVars, queueVars, actorVars
<1>3. CASE RecoverWrapUp(j)
  BY <1>3, <1>0, NoneAssumption
          DEF GateInv, GateOwned, HoldWaits, LandingOwned, RecoverWrapUp, Recovering,
         EnsureExec, DropExec, ReturnFrom, Escalate, trunkVars, execVars, queueVars,
         actorVars
<1> QED
  BY <1>1, <1>2, <1>3

\* An exit that ends a round is of the job at the gate.
LEMMA ExitsHold ==
    ASSUME TypeOK, GateInv, NEW j \in Jobs, NEW e \in Evals, NEW pass \in BOOLEAN,
           GateExited(j, e, pass) \/ GateLaunchExpired(j, e) \/ PublishExited(j, pass)
    PROVE  GateInv'
<1>0. gate \in [Jobs -> Rounds \cup {None}] /\ gating \in Jobs \cup {None}
  BY DEF TypeOK, ExecTyped, QueueTyped
<1>1. CASE GateExited(j, e, pass)
  BY <1>1, <1>0, NoneAssumption
          DEF GateInv, GateOwned, HoldWaits, LandingOwned, GateExited, GateRuns,
         trunkVars, execVars, queueVars, actorVars
<1>2. CASE GateLaunchExpired(j, e)
  BY <1>2, <1>0, NoneAssumption
          DEF GateInv, GateOwned, HoldWaits, LandingOwned, GateLaunchExpired, Escalate,
         DropExec, trunkVars, execVars, queueVars, actorVars
<1>3. CASE PublishExited(j, pass)
  BY <1>3, <1>0, NoneAssumption
          DEF GateInv, GateOwned, HoldWaits, LandingOwned, PublishExited, Escalate,
         DropExec, trunkVars, execVars, queueVars, actorVars
<1> QED
  BY <1>1, <1>2, <1>3

\* A release is opened on a free gate, between two handlers.
LEMMA GlobalsHold ==
    ASSUME TypeOK, GateInv,
                      PumpHolds \/ PumpPops \/ Drain \/ OriginRelease \/ ReleaseMerged
               \/ ReleaseClosed \/ FastForward \/ Crash
    PROVE  GateInv'
<1>0. gate \in [Jobs -> Rounds \cup {None}] /\ gating \in Jobs \cup {None}
  BY DEF TypeOK, ExecTyped, QueueTyped
<1>1. CASE PumpHolds
  BY <1>1, <1>0, NoneAssumption
          DEF GateInv, GateOwned, HoldWaits, LandingOwned, PumpHolds, ReturnFrom,
         trunkVars, execVars, queueVars, actorVars
<1>2. CASE PumpPops
  BY <1>2, <1>0, NoneAssumption
          DEF GateInv, GateOwned, HoldWaits, LandingOwned, PumpPops, trunkVars,
         execVars, queueVars, actorVars
<1>3. CASE Drain
  BY <1>3, <1>0, NoneAssumption
          DEF GateInv, GateOwned, HoldWaits, LandingOwned, Drain, trunkVars, execVars,
         queueVars, actorVars
<1>4. CASE OriginRelease
  BY <1>4, <1>0, NoneAssumption
          DEF GateInv, GateOwned, HoldWaits, LandingOwned, OriginRelease, Idle,
         trunkVars, execVars, queueVars, actorVars
<1>5. CASE ReleaseMerged
  BY <1>5, <1>0, NoneAssumption
          DEF GateInv, GateOwned, HoldWaits, LandingOwned, ReleaseMerged, trunkVars,
         execVars, queueVars, actorVars
<1>6. CASE ReleaseClosed
  BY <1>6, <1>0, NoneAssumption
          DEF GateInv, GateOwned, HoldWaits, LandingOwned, ReleaseClosed, trunkVars,
         execVars, queueVars, actorVars
<1>7. CASE FastForward
  BY <1>7, <1>0, NoneAssumption
          DEF GateInv, GateOwned, HoldWaits, LandingOwned, FastForward, trunkVars,
         execVars, queueVars, actorVars
<1>8. CASE Crash
  BY <1>8, <1>0, NoneAssumption
          DEF GateInv, GateOwned, HoldWaits, LandingOwned, Crash, ReturnFrom, trunkVars,
         execVars, queueVars, actorVars
<1> QED
  BY <1>1, <1>2, <1>3, <1>4, <1>5, <1>6, <1>7, <1>8
--------------------------------------------------------------------------------
LEMMA NextHolds == TypeOK /\ GateInv /\ [Next]_vars => GateInv'
<1> SUFFICES ASSUME TypeOK, GateInv, [Next]_vars
             PROVE  GateInv'
  OBVIOUS
<1>1. CASE ActorStep
  BY <1>1, PhasesHold, LandingsHold, GatesHold, RecoveriesHold, GlobalsHold DEF ActorStep
<1>2. CASE Phases
  BY <1>2, PhasesHold DEF Phases
<1>3. CASE GateExits \/ GateExpires \/ \E j \in Jobs : PublishExits(j)
  BY <1>3, ExitsHold, StageAssumption DEF GateExits, GateExpires, PublishExits
<1>4. CASE Operator
  BY <1>4, OperatorsHold, GlobalsHold DEF Operator
<1>5. CASE Origin \/ Crash
  BY <1>5, GlobalsHold DEF Origin
<1>6. CASE UNCHANGED vars
  BY <1>6 DEF vars, trunkVars, execVars, queueVars, actorVars, GateInv, GateOwned,
     HoldWaits, LandingOwned
<1> QED
  BY <1>1, <1>2, <1>3, <1>4, <1>5, <1>6 DEF Next

LEMMA GateInvHolds == Spec => []GateInv
<1>1. Init => GateInv
  BY DEF Init, GateInv, GateOwned, HoldWaits, LandingOwned
<1> QED
  BY <1>1, NextHolds, TypeCorrect, PTL DEF Spec
--------------------------------------------------------------------------------
\* Only four steps move the default branch, and one of them ends a release.
LEMMA HeadMoves ==
    ASSUME Next, head' # head
    PROVE  \/ \E j \in Jobs : LandUngated(j) \/ GatePassed(j)
           \/ ReleaseMerged \/ FastForward
<1>1. CASE ActorStep
  BY ZenonT(60), <1>1 DEF ActorStep, PumpHolds, PumpPops, EvaluationHeld, EvaluationEntered,
     EvaluatorsLaunched, LandingRefused, LandingError, LandingEscalates, LandNothing,
     LandingUnread, SquashConflict, OpenGate, GateOpened, GateLaunchError, GateFailed,
     PinBase, WorkEntryRefused, WorkEntered, WorkLaunched, Landed, Completed, RecoverWork,
     RecoverEvaluation, RecoverWrapUp, Recovering, trunkVars
<1>2. CASE Phases \/ Operator
  BY <1>2 DEF Phases, WorkFinished, EvalPassed, EvalFailed, PhaseEscalated, Operator,
     Drain, RetryWork, ReEvaluate, RetryPublish, Revoke, trunkVars
<1>3. CASE GateExits
  <2>1. PICK j \in Jobs, e \in Evals, pass \in BOOLEAN : GateExited(j, e, pass)
    BY <1>3 DEF GateExits
  <2> QED
    BY <2>1 DEF GateExited, trunkVars
<1>4. CASE GateExpires
  BY <1>4 DEF GateExpires, GateLaunchExpired, trunkVars
<1>5. CASE \E j \in Jobs : PublishExits(j)
  BY <1>5 DEF PublishExits, PublishExited, trunkVars
<1>6. CASE Origin \/ Crash
  BY <1>6 DEF Origin, OriginRelease, ReleaseClosed, Crash, trunkVars
<1> QED
  BY <1>1, <1>2, <1>3, <1>4, <1>5, <1>6 DEF Next

\* While an origin release is open the default branch does not move, so that
\* origin_sync loses nothing when it resets the branch to the merged release.
THEOREM HoldIsKept == Spec => HoldFreezesHead
<1>1. TypeOK /\ GateInv /\ [Next]_vars => (held /\ held' => head' = head)
  <2> SUFFICES ASSUME TypeOK, GateInv, [Next]_vars, held, held', head' # head
               PROVE  FALSE
    OBVIOUS
  <2>1. Next
    BY DEF vars, trunkVars
  <2>2. ASSUME NEW j \in Jobs, LandUngated(j)
        PROVE  FALSE
    BY <2>2 DEF LandUngated, Landing, GateInv, LandingOwned
  <2>3. ASSUME NEW j \in Jobs, GatePassed(j)
        PROVE  FALSE
    BY <2>3 DEF GatePassed, Reducing, GateInv, LandingOwned
  <2> QED
    BY <2>1, <2>2, <2>3, HeadMoves DEF ReleaseMerged, FastForward
<1> QED
  BY <1>1, TypeCorrect, GateInvHolds, PTL DEF Spec, HoldFreezesHead
--------------------------------------------------------------------------------
\* A round keeps the head it was opened on until it is taken out of its slice.
LEMMA RoundsKept ==
    ASSUME TypeOK, Next, NEW i \in Jobs, gate'[i] # None
    PROVE  \/ gate[i] # None /\ gate'[i].oldHead = gate[i].oldHead
           \/ GateOpened(i)
<1>0. gate \in [Jobs -> Rounds \cup {None}]
  BY DEF TypeOK, ExecTyped
<1>1. CASE ActorStep
  <2>1. CASE PumpHolds \/ PumpPops
    BY <2>1 DEF PumpHolds, PumpPops, execVars
  <2>2. ASSUME NEW j \in Jobs, EvaluationHeld(j) \/ EvaluationEntered(j) \/ EvaluatorsLaunched(j)
        PROVE  UNCHANGED gate
    BY <2>2 DEF EvaluationHeld, EvaluationEntered, EvaluatorsLaunched, execVars
  <2>3. ASSUME NEW j \in Jobs, LandNothing(j) \/ LandUngated(j) \/ LandingUnread(j)
                 \/ SquashConflict(j) \/ OpenGate(j)
        PROVE  UNCHANGED gate
    BY <2>3 DEF LandNothing, LandUngated, LandingUnread, SquashConflict, OpenGate, execVars
  <2>4. ASSUME NEW j \in Jobs, PinBase(j) \/ WorkEntryRefused(j) \/ WorkEntered(j)
                 \/ WorkLaunched(j) \/ Landed(j)
        PROVE  UNCHANGED gate
    BY <2>4 DEF PinBase, WorkEntryRefused, WorkEntered, WorkLaunched, Landed, execVars
  <2>5. ASSUME NEW j \in Jobs, LandingRefused(j) \/ LandingError(j) \/ GateLaunchError(j)
                 \/ GatePassed(j) \/ GateFailed(j) \/ Completed(j)
        PROVE  gate' = [gate EXCEPT ![j] = None]
    BY <2>5 DEF LandingRefused, LandingError, GateLaunchError, LandingEscalates, GatePassed,
       GateFailed, Reducing, Completed, DropExec
  <2>6. ASSUME NEW j \in Jobs, GateOpened(j)
        PROVE  i = j \/ gate'[i] = gate[i]
    BY <1>0, <2>6 DEF GateOpened
  <2>7. ASSUME NEW j \in Jobs, RecoverWork(j) \/ RecoverEvaluation(j) \/ RecoverWrapUp(j)
        PROVE  gate' = gate \/ gate' = [gate EXCEPT ![j] = None]
    BY <2>7 DEF RecoverWork, RecoverEvaluation, RecoveredPass, RecoverWrapUp, EnsureExec,
       DropExec, execVars
  <2> QED
    BY <1>0, <1>1, <2>1, <2>2, <2>3, <2>4, <2>5, <2>6, <2>7 DEF ActorStep
<1>2. CASE Phases \/ Operator
  BY <1>0, <1>2 DEF Phases, WorkFinished, FinalizePass, EvalPassed, EvalFailed,
     PhaseEscalated, Operator, Drain, RetryWork, ReEvaluate, RetryPublish, Revoke,
     EnsureExec, DropExec, execVars
<1>3. CASE GateExpires \/ \E j \in Jobs : PublishExits(j)
  BY <1>0, <1>3 DEF GateExpires, GateLaunchExpired, PublishExits, PublishExited, DropExec,
     execVars
<1>4. CASE GateExits
  <2>1. PICK j \in Jobs, e \in Evals, pass \in BOOLEAN : GateExited(j, e, pass)
    BY <1>4 DEF GateExits
  <2>2. gate[j] \in Rounds
    BY <1>0, <2>1 DEF GateExited, GateRuns
  <2>3. PICK s : gate' = [gate EXCEPT ![j].slots = s]
    BY <2>1 DEF GateExited
  <2>4. gate'[j].oldHead = gate[j].oldHead
    BY <1>0, <2>2, <2>3 DEF Rounds
  <2>5. gate[j] # None
    BY <2>1 DEF GateExited, GateRuns
  <2>6. i # j => gate'[i] = gate[i]
    BY <1>0, <2>3
  <2> QED
    BY <2>4, <2>5, <2>6
<1>5. CASE Origin \/ Crash
  BY <1>0, <1>5 DEF Origin, OriginRelease, ReleaseMerged, ReleaseClosed, FastForward,
     Crash, execVars
<1> QED
  BY <1>1, <1>2, <1>3, <1>4, <1>5 DEF Next

\* If no origin sync moves the trunk under a gate, the head a round was built
\* on is the head its candidate is promoted on: the compare-and-swap of the
\* default branch cannot lose a race, as the vcs crate says of its single writer.
THEOREM PromotesOnSeenHead ==
    ASSUME "syncInGate" \notin Faults
    PROVE  Spec => []GateSeesHead
<1>1. Init => GateSeesHead
  BY DEF Init, GateSeesHead
<1>2. TypeOK /\ GateInv /\ GateSeesHead /\ [Next]_vars => GateSeesHead'
  <2> SUFFICES ASSUME TypeOK, GateInv, GateSeesHead, [Next]_vars,
                      NEW i \in Jobs, gate'[i] # None
               PROVE  gate'[i].oldHead = head'
    BY DEF GateSeesHead
  <2>1. CASE UNCHANGED vars
    BY <2>1 DEF vars, execVars, trunkVars, GateSeesHead
  <2>2. CASE Next /\ GateOpened(i)
    BY <2>2 DEF GateOpened, trunkVars, TypeOK, ExecTyped
  <2>3. CASE Next /\ gate[i] # None /\ gate'[i].oldHead = gate[i].oldHead
    <3>1. gating = i /\ gating # None
      BY <2>3, NoneAssumption DEF GateInv, GateOwned
    <3>2. ~held
      BY <3>1 DEF GateInv, HoldWaits
    <3>3. ASSUME NEW j \in Jobs, LandUngated(j)
          PROVE  FALSE
      BY <3>1, <3>3 DEF LandUngated, Landing, GateInv, LandingOwned
    <3>4. ASSUME NEW j \in Jobs, GatePassed(j)
          PROVE  FALSE
      <4>1. j = i
        BY <3>1, <3>4 DEF GatePassed, Reducing, GateInv, GateOwned
      <4> QED
        BY <2>3, <3>4, <4>1 DEF GatePassed, Reducing, TypeOK, ExecTyped
    <3>5. head' = head
      BY <2>3, <3>1, <3>2, <3>3, <3>4, HeadMoves DEF ReleaseMerged, FastForward
    <3> QED
      BY <2>3, <3>5 DEF GateSeesHead
  <2> QED
    BY <2>1, <2>2, <2>3, RoundsKept
<1> QED
  BY <1>1, <1>2, TypeCorrect, GateInvHolds, PTL DEF Spec

-----------------------------------------------------------------------------
(* Nothing of a gated type reaches the default branch untested.            *)
(*                                                                         *)
(* The fast path lands a branch because the head equals its base_ref, so   *)
(* the proof is about what base_ref stands for: in WrapUp it is a position *)
(* the branch passed its checks on, unless the head has moved past it or   *)
(* the cycle is a gate fix, and then a gate is due (LandsSettled).  The    *)
(* other parts say who may change a job while it waits: nobody but the     *)
(* handler it is in, as a job is in one place only.                        *)

Distinct(q) == \A i, k \in DOMAIN q : q[i] = q[k] => i = k

\* Waiting, at the gate, or being landed by the current handler.
CanLand(j) == jstate[j] = "WrapUp" /\ publish[j] # "running" /\ j \in exec

\* A gate is due.
GateDue(j) == base[j] < head \/ cycle[j] \in fixes[j]

\* The base_ref of a job that may land can be relied on.
Settled(j) == verified[j] = base[j] \/ GateDue(j)

\* A job waits once, and only to land.
QueueWaits == Distinct(queue) /\ \A j \in ToSet(queue) : CanLand(j)

\* A job at the gate does not wait, and its gate was due.
GateWaits == \A j \in Jobs :
    gate[j] # None => CanLand(j) /\ GateDue(j) /\ j \notin ToSet(queue)

\* The job a handler works on is nowhere else, and in the handler's phase.
HandlerOwns ==
    /\ pc \in {"start", "opening", "reduce", "rebased", "pinned", "landed"} =>
           cur \in Jobs /\ CanLand(cur)
    /\ pc \in {"start", "opening", "reduce", "rebased", "pinned", "launch", "landed",
               "complete", "shipped", "entry", "fanout"} =>
           cur \in Jobs /\ cur \notin ToSet(queue) /\ (gate[cur] # None => pc = "reduce")
    /\ pc = "opening" => GateDue(cur)
    /\ pc = "rebased" => stack[cur] = head
    /\ pc = "entry" => /\ jstate[cur] \in {"Work", "Escalated"}
                       /\ workTask[cur] # "running" /\ publish[cur] # "running"
    /\ pc = "fanout" => jstate[cur] = "Evaluation"
    /\ pc = "launch" => jstate[cur] = "Work" /\ workTask[cur] # "running"
    /\ pc \in {"complete", "shipped"} => jstate[cur] = "WrapUp"

\* A job still to be recovered is nowhere yet.
RecoveryOwns ==
    /\ pc = "idle" => recovering = {}
    /\ \A j \in recovering :
          /\ j \notin exec /\ j \notin ToSet(queue) /\ gate[j] = None
          /\ pc \notin {"recover", "pump"} => cur # j
          /\ jstate[j] \in {"Work", "Evaluation", "WrapUp"}

\* A running task is of the phase its job is in.
TasksOwned ==
    /\ \A j \in Jobs : publish[j] = "running" => jstate[j] \in {"WrapUp", "Done", "Revoked"}
    /\ \A j \in Jobs : workTask[j] = "running" => jstate[j] \in {"Work", "Revoked"}
    /\ \A j \in exec : jstate[j] \notin Terminal

\* A slice is of the cycle the task log ends with, except while a job in Work
\* has no task of the new cycle yet.
SliceIsCurrent == \A j \in exec :
    \/ jstate[j] \in {"Evaluation", "WrapUp", "Escalated"}
    \/ jstate[j] = "Work" /\ workTask[j] = "running"
    \/ pc = "entry" /\ cur = j
    => execCycle[j] = cycle[j]

\* A gate-fix task is of a cycle stamped as a gate fix.
FixStamped == \A j \in Jobs : fixTask[j] => cycle[j] \in fixes[j]

\* A branch is stacked on its base_ref, unless the head has left that behind.
StackIsBase == \A j \in Jobs :
    base[j] <= head /\ stack[j] <= head /\ (stack[j] = base[j] \/ base[j] < head)

\* A passing round in the task log is of the branch as it is stacked.
PassIsFresh == \A j \in Jobs :
    jstate[j] = "Evaluation" /\ evals[j] = "done" /\ ~(pc = "fanout" /\ cur = j) =>
        verified[j] = stack[j]

\* A job that may land, or whose publish may be retried, is settled; only
\* between the base_ref pin of a rework and the transition it is not.
LandsSettled == \A j \in Jobs :
    /\ jstate[j] = "WrapUp" \/ (jstate[j] = "Escalated" /\ retryAt[j] = "WrapUp")
    /\ ~(pc = "pinned" /\ cur = j)
    => Settled(j)

\* The windows of an origin sync under a gate, and of a crash in the middle of a
\* rework or of a fan-out, are closed.
Safe == Faults \cap {"syncInGate", "crashInRework", "crashInFanout"} = {}

\* The inductive invariant: LandsSettled, and what it takes to keep it.
LandInv ==
    /\ QueueWaits /\ GateWaits /\ HandlerOwns /\ RecoveryOwns /\ TasksOwned
    /\ SliceIsCurrent /\ FixStamped /\ StackIsBase /\ PassIsFresh /\ LandsSettled
--------------------------------------------------------------------------------
\* The three operations on the queue keep a job from waiting twice.
LEMMA Enqueued ==
    ASSUME QueueTyped, Distinct(queue), NEW j \in Jobs
    PROVE  Distinct(Enqueue(j)) /\ ToSet(Enqueue(j)) \subseteq ToSet(queue) \cup {j}
<1>1. CASE j \in ToSet(queue) \/ gating = j
  BY <1>1 DEF Enqueue
<1>2. CASE j \notin ToSet(queue) /\ gating # j
  <2>1. /\ Enqueue(j) = Append(queue, j)
        /\ Len(Append(queue, j)) = Len(queue) + 1
        /\ \A i \in 1 .. Len(queue) : Append(queue, j)[i] = queue[i]
        /\ Append(queue, j)[Len(queue) + 1] = j
    BY <1>2 DEF Enqueue, QueueTyped
  <2>2. \A i \in 1 .. Len(queue) : queue[i] # j
    BY <1>2 DEF ToSet
  <2> QED
    BY <2>1, <2>2 DEF Distinct, ToSet, QueueTyped
<1> QED
  BY <1>1, <1>2

LEMMA Popped ==
    ASSUME NEW q \in Seq(Jobs), q # << >>, Distinct(q)
    PROVE  /\ Head(q) \in Jobs \cap ToSet(q)
           /\ Distinct(Tail(q))
           /\ ToSet(Tail(q)) \subseteq ToSet(q) \ {Head(q)}
<1>1. Len(q) \in Nat \ {0}
  OBVIOUS
<1>2. Head(q) = q[1] /\ Len(Tail(q)) = Len(q) - 1
  BY <1>1
<1>3. \A i \in 1 .. Len(q) - 1 : Tail(q)[i] = q[i + 1]
  BY <1>1
<1>4. DOMAIN Tail(q) = 1 .. Len(q) - 1 /\ DOMAIN q = 1 .. Len(q)
  BY <1>1, <1>2
<1>5. Distinct(Tail(q))
  <2> SUFFICES ASSUME NEW i \in 1 .. Len(q) - 1, NEW k \in 1 .. Len(q) - 1,
                      Tail(q)[i] = Tail(q)[k]
               PROVE  i = k
    BY <1>4 DEF Distinct
  <2>1. q[i + 1] = q[k + 1] /\ i + 1 \in 1 .. Len(q) /\ k + 1 \in 1 .. Len(q)
    BY <1>1, <1>3
  <2> QED
    BY <1>4, <2>1 DEF Distinct
<1>6. \A i \in 1 .. Len(q) - 1 : q[i + 1] # q[1]
  BY <1>1, <1>4 DEF Distinct
<1> QED
  BY <1>1, <1>2, <1>3, <1>4, <1>5, <1>6 DEF ToSet

LEMMA Removed ==
    ASSUME NEW q \in Seq(Jobs), NEW j \in Jobs, Distinct(q)
    PROVE  /\ Distinct(Without(q, j))
           /\ ToSet(Without(q, j)) \subseteq ToSet(q) \ {j}
<1>1. CASE j \notin ToSet(q)
  BY <1>1 DEF Without
<1>2. CASE j \in ToSet(q)
  <2> DEFINE i == CHOOSE i \in DOMAIN q : q[i] = j
             r == RemoveAt(q, i)
  <2>1. i \in 1 .. Len(q) /\ q[i] = j
    BY <1>2 DEF ToSet
  <2> HIDE DEF i
  <2> DEFINE s == SubSeq(q, 1, i - 1)
             t == SubSeq(q, i + 1, Len(q))
  <2>2. r = s \o t
    BY DEF RemoveAt
  <2>3. s \in Seq(Jobs) /\ Len(s) = i - 1 /\ \A k \in 1 .. i - 1 : s[k] = q[k]
    <3>1. \A k \in 1 .. i - 1 : q[k] \in Jobs
      BY <2>1
    <3> QED
      BY <2>1, <3>1, SubSeqProperties
  <2>4. t \in Seq(Jobs) /\ Len(t) = Len(q) - i /\ \A k \in 1 .. Len(q) - i : t[k] = q[i + k]
    <3>1. \A k \in i + 1 .. Len(q) : q[k] \in Jobs
      BY <2>1
    <3> QED
      BY <2>1, <3>1, SubSeqProperties
  <2> HIDE DEF r, s, t
  <2>5. r \in Seq(Jobs) /\ Len(r) = Len(q) - 1
    <3>1. s \o t \in Seq(Jobs) /\ Len(s \o t) = Len(s) + Len(t)
      BY <2>3, <2>4, ConcatProperties
    <3> QED
      BY <2>1, <2>2, <2>3, <2>4, <3>1
  <2>6. \A k \in 1 .. Len(q) - 1 : r[k] = IF k < i THEN q[k] ELSE q[k + 1]
    <3> SUFFICES ASSUME NEW k \in 1 .. Len(q) - 1
                 PROVE  r[k] = IF k < i THEN q[k] ELSE q[k + 1]
      OBVIOUS
    <3>1. r[k] = IF k <= i - 1 THEN s[k] ELSE t[k - (i - 1)]
      BY <2>1, <2>2, <2>3, <2>4, ConcatProperties
    <3>2. k >= i => t[k - (i - 1)] = q[k + 1]
      BY <2>1, <2>4
    <3> QED
      BY <2>1, <2>3, <3>1, <3>2
  <2>7. DOMAIN r = 1 .. Len(q) - 1 /\ DOMAIN q = 1 .. Len(q)
    BY <2>5
  <2>8. \A k \in 1 .. Len(q) - 1 :
            \E n \in 1 .. Len(q) : n # i /\ r[k] = q[n] /\ n = IF k < i THEN k ELSE k + 1
    BY <2>1, <2>6
  <2>9. \A n \in 1 .. Len(q) : n # i => q[n] # j
    BY <2>1, <2>7 DEF Distinct
  <2>10. Distinct(r)
    <3> SUFFICES ASSUME NEW k \in 1 .. Len(q) - 1, NEW m \in 1 .. Len(q) - 1, r[k] = r[m]
                 PROVE  k = m
      BY <2>7 DEF Distinct
    <3>1. PICK n \in 1 .. Len(q) : r[k] = q[n] /\ n = IF k < i THEN k ELSE k + 1
      BY <2>8
    <3>2. PICK o \in 1 .. Len(q) : r[m] = q[o] /\ o = IF m < i THEN m ELSE m + 1
      BY <2>8
    <3>3. n = o
      BY <2>7, <3>1, <3>2 DEF Distinct
    <3> QED
      BY <2>1, <3>1, <3>2, <3>3
  <2>11. ToSet(r) \subseteq ToSet(q) \ {j}
    BY <2>7, <2>8, <2>9 DEF ToSet
  <2> QED
    BY <1>2, <2>10, <2>11 DEF Without, i, r
<1> QED
  BY <1>1, <1>2
--------------------------------------------------------------------------------
LEMMA Types ==
    ASSUME TypeOK
    PROVE  /\ jstate \in [Jobs -> JobStates] /\ base \in [Jobs -> Nat]
           /\ retryAt \in [Jobs -> {"Work", "Evaluation", "WrapUp"}]
           /\ cycle \in [Jobs -> Nat] /\ workTask \in [Jobs -> TaskStates]
           /\ fixTask \in [Jobs -> BOOLEAN] /\ fixes \in [Jobs -> SUBSET Nat]
           /\ evals \in [Jobs -> TaskStates] /\ publish \in [Jobs -> TaskStates]
           /\ head \in Nat /\ exec \subseteq Jobs /\ execCycle \in [Jobs -> Nat]
           /\ gate \in [Jobs -> Rounds \cup {None}]
           /\ queue \in Seq(Jobs) /\ QueueTyped
           /\ cur \in Jobs \cup {None} /\ recovering \subseteq Jobs
           /\ stack \in [Jobs -> Nat] /\ verified \in [Jobs -> Nat \cup {Unverified}]
BY DEF TypeOK, JobsTyped, TasksTyped, TrunkTyped, ExecTyped, QueueTyped, ActorTyped,
   GhostsTyped
--------------------------------------------------------------------------------
\* What launching a work task does to the log: of one job, and none of a fix
\* without its stamp.
LEMMA Launched ==
    ASSUME TypeOK, NEW j \in Jobs, NEW c \in Nat, NEW fix \in BOOLEAN,
           LaunchWork(j, c, fix)
    PROVE  /\ \A k \in Jobs \ {j} :
                  /\ cycle'[k] = cycle[k] /\ workTask'[k] = workTask[k]
                  /\ fixTask'[k] = fixTask[k] /\ fixes'[k] = fixes[k]
                  /\ evals'[k] = evals[k] /\ publish'[k] = publish[k]
           /\ draining => UNCHANGED taskVars
           /\ ~draining => /\ cycle'[j] = c /\ workTask'[j] = "running"
                           /\ (fixTask'[j] <=> fix) /\ (fix => c \in fixes'[j])
           /\ fixes[j] \subseteq fixes'[j]
           /\ cycle[j] = c => /\ cycle'[j] = cycle[j]
                              /\ evals'[j] = evals[j] /\ publish'[j] = publish[j]
           /\ evals'[j] \in {evals[j], "none"} /\ publish'[j] \in {publish[j], "none"}
<1>1. CASE draining
  BY <1>1 DEF LaunchWork, taskVars
<1>2. CASE ~draining
  <2>1. /\ cycle' = [cycle EXCEPT ![j] = c]
        /\ workTask' = [workTask EXCEPT ![j] = "running"]
        /\ fixTask' = [fixTask EXCEPT ![j] = fix]
        /\ fixes' = [fixes EXCEPT ![j] = IF fix THEN @ \cup {c} ELSE @]
        /\ evals' = [evals EXCEPT ![j] = IF c = cycle[j] THEN @ ELSE "none"]
        /\ publish' = [publish EXCEPT ![j] = IF c = cycle[j] THEN @ ELSE "none"]
    BY <1>2 DEF LaunchWork
  <2>2. fixTask'[j] = fix /\ \A k \in Jobs \ {j} : fixTask'[k] = fixTask[k]
    BY <2>1, Types
  <2> QED
    BY <1>2, <2>1, <2>2, Types
<1> QED
  BY <1>1, <1>2

\* A rebuilt slice is of the cycle the log ends with, and has no gate round.
LEMMA Ensured ==
    ASSUME TypeOK, NEW j \in Jobs, EnsureExec(j)
    PROVE  /\ exec' = exec \cup {j}
           /\ \A k \in Jobs \ {j} : execCycle'[k] = execCycle[k] /\ gate'[k] = gate[k]
           /\ j \in exec => execCycle'[j] = execCycle[j] /\ gate'[j] = gate[j]
           /\ j \notin exec => execCycle'[j] = cycle[j] /\ gate'[j] = None
           /\ execCycle'[j] \in Nat /\ execFix'[j] \in BOOLEAN
<1>1. CASE j \in exec
  <2>1. execFix'[j] = execFix[j]
    BY <1>1 DEF EnsureExec, execVars
  <2>2. execFix[j] \in BOOLEAN
    BY DEF TypeOK, ExecTyped
  <2> QED
    BY <1>1, <2>1, <2>2, Types DEF EnsureExec, execVars
<1>2. CASE j \notin exec
  <2>1. execFix' = [execFix EXCEPT ![j] = FALSE] /\ execFix \in [Jobs -> BOOLEAN]
    BY <1>2 DEF EnsureExec, TypeOK, ExecTyped
  <2> QED
    BY <1>2, <2>1, Types DEF EnsureExec
<1> QED
  BY <1>1, <1>2

LEMMA Dropped ==
    ASSUME TypeOK, NEW j \in Jobs, DropExec(j)
    PROVE  /\ exec' = exec \ {j} /\ gate'[j] = None
           /\ \A k \in Jobs \ {j} : execCycle'[k] = execCycle[k] /\ gate'[k] = gate[k]
BY Types DEF DropExec

LEMMA LaunchStamped ==
    ASSUME TypeOK, FixStamped, NEW j \in Jobs, NEW c \in Nat, NEW fix \in BOOLEAN,
           LaunchWork(j, c, fix)
    PROVE  FixStamped'
<1>1. CASE draining
  BY <1>1, Launched DEF FixStamped, taskVars
<1>2. CASE ~draining
  <2>1. \A k \in Jobs \ {j} :
            cycle'[k] = cycle[k] /\ fixTask'[k] = fixTask[k] /\ fixes'[k] = fixes[k]
    BY Launched
  <2>2. cycle'[j] = c /\ (fixTask'[j] => c \in fixes'[j])
    BY <1>2, Launched
  <2> QED
    BY <2>1, <2>2 DEF FixStamped
<1> QED
  BY <1>1, <1>2

\* A job is recovered once, and from nowhere.
Nowhere(j) ==
    /\ pc = "recover" /\ j \in recovering /\ recovering' = recovering \ {j}
    /\ j \notin exec /\ j \notin ToSet(queue) /\ gate[j] = None
    /\ ToSet(queue) \subseteq Jobs /\ exec \subseteq Jobs
    /\ recovering \subseteq Jobs
    /\ cycle[j] \in Nat /\ head' = head /\ draining' = draining

LEMMA FromNowhere ==
    ASSUME TypeOK, RecoveryOwns, NEW j \in Jobs, Recovering(j)
    PROVE  Nowhere(j)
<1>1. /\ ToSet(queue) \subseteq Jobs /\ exec \subseteq Jobs /\ recovering \subseteq Jobs
      /\ cycle[j] \in Nat
  BY Types DEF ToSet
<1>2. j \notin exec /\ j \notin ToSet(queue) /\ gate[j] = None
  BY DEF RecoveryOwns, Recovering
<1> QED
  BY <1>1, <1>2 DEF Recovering, trunkVars, Nowhere

\* The steps that end a task keep the running ones in their phases.
LEMMA WorkFinishedTasks ==
    ASSUME TypeOK, TasksOwned, NEW j \in Jobs, WorkFinished(j)
    PROVE  TasksOwned'
<1>1. exec \subseteq Jobs /\ publish' = publish
  BY Types DEF WorkFinished
<1>2. publish[j] # "running"
  BY DEF TasksOwned, WorkFinished
<1>3. workTask'[j] = "done" /\ \A k \in Jobs \ {j} : workTask'[k] = workTask[k]
  BY Types DEF WorkFinished
<1>4. /\ \A k \in Jobs \ {j} : jstate'[k] = jstate[k]
      /\ jstate'[j] \in {"Work", "Done", "WrapUp"} /\ exec' \subseteq exec
      /\ jstate'[j] = "Done" => j \notin exec'
  BY Types DEF WorkFinished, FinalizePass, DropExec, execVars
<1> QED
  BY <1>1, <1>2, <1>3, <1>4 DEF TasksOwned, Terminal

LEMMA EvalPassedTasks ==
    ASSUME TypeOK, TasksOwned, NEW j \in Jobs, EvalPassed(j)
    PROVE  TasksOwned'
<1>1. /\ \A k \in Jobs \ {j} : jstate'[k] = jstate[k]
      /\ workTask' = workTask /\ publish' = publish /\ exec' \subseteq exec
      /\ jstate'[j] \in {"Evaluation", "Done", "WrapUp"}
      /\ jstate'[j] = "Done" => j \notin exec'
  BY Types DEF EvalPassed, FinalizePass, DropExec, execVars
<1>2. exec \subseteq Jobs
  BY Types
<1>3. publish[j] # "running" /\ workTask[j] # "running"
  BY DEF TasksOwned, EvalPassed
<1> QED
  BY <1>1, <1>2, <1>3 DEF TasksOwned, Terminal

LEMMA EvalFailedTasks ==
    ASSUME TypeOK, TasksOwned, NEW j \in Jobs, EvalFailed(j)
    PROVE  TasksOwned'
<1>1. /\ exec' = exec /\ j \in exec /\ exec \subseteq Jobs /\ jstate[j] = "Evaluation"
  BY Types DEF EvalFailed
<1>2. CASE draining
  BY <1>1, <1>2 DEF EvalFailed, TasksOwned
<1>3. CASE ~draining
  <2>1. jstate'[j] = "Work" /\ \A k \in Jobs \ {j} : jstate'[k] = jstate[k]
    BY <1>3, Types DEF EvalFailed, EvalRework
  <2>2. PICK c \in Nat : LaunchWork(j, c, FALSE)
    <3>1. LaunchWork(j, execCycle[j] + 1, FALSE)
      BY <1>3 DEF EvalFailed, EvalRework
    <3>2. execCycle[j] + 1 \in Nat
      BY Types
    <3> QED
      BY <3>1, <3>2
  <2>3. /\ publish'[j] \in {publish[j], "none"}
        /\ \A k \in Jobs \ {j} : workTask'[k] = workTask[k] /\ publish'[k] = publish[k]
    BY <2>2, Launched
  <2>4. publish[j] # "running"
    BY <1>1 DEF TasksOwned
  <2> QED
    BY <1>1, <2>1, <2>3, <2>4 DEF TasksOwned, Terminal
<1> QED
  BY <1>2, <1>3

LEMMA PublishExitedTasks ==
    ASSUME TypeOK, TasksOwned, NEW j \in Jobs, NEW pass \in BOOLEAN,
           PublishExited(j, pass)
    PROVE  TasksOwned'
<1>1. /\ j \in exec /\ publish[j] = "running" /\ exec \subseteq Jobs
      /\ jstate'[j] \in {jstate[j], "Escalated"} /\ exec' \subseteq exec
      /\ publish'[j] # "running" /\ workTask' = workTask
      /\ \A k \in Jobs \ {j} : jstate'[k] = jstate[k] /\ publish'[k] = publish[k]
  BY Types DEF PublishExited, Escalate, DropExec, execVars
<1> QED
  BY <1>1 DEF TasksOwned, Terminal

\* What the recovery of a job in Work does to it, and that it does nothing to
\* the others.
WorkRecovered(j) ==
    /\ Recovering(j) /\ jstate[j] = "Work" /\ queue' = queue
    /\ UNCHANGED <<base, stack, verified, cycle, publish>>
    /\ UNCHANGED taskVars \/ LaunchWork(j, cycle[j], FALSE)
    /\ \A k \in Jobs \ {j} : workTask'[k] = workTask[k] /\ fixes'[k] = fixes[k]
    /\ \A k \in Jobs \ {j} : jstate'[k] = jstate[k]
    /\ \/ jstate'[j] = "Work"
       \/ jstate'[j] = "Escalated" /\ UNCHANGED taskVars /\ workTask[j] = "failed"
    /\ \A k \in Jobs \ {j} : gate'[k] = gate[k] /\ (k \in exec' <=> k \in exec)
    /\ gate'[j] = None /\ exec' \subseteq Jobs
    /\ j \in exec' => jstate'[j] = "Work"
    /\ \/ pc' = "entry" /\ cur' = j /\ jstate'[j] = "Work" /\ workTask'[j] = "done"
       \/ pc' \in {"idle", "recover"} /\ (pc' = "idle" => recovering' = {})

LEMMA RecoveredWork ==
    ASSUME TypeOK, RecoveryOwns, NEW j \in Jobs, RecoverWork(j)
    PROVE  WorkRecovered(j)
<1>1. Recovering(j) /\ jstate[j] = "Work" /\ queue' = queue
  BY DEF RecoverWork
<1>2. /\ UNCHANGED <<base, stack, verified>>
      /\ UNCHANGED taskVars \/ LaunchWork(j, cycle[j], FALSE)
  BY DEF RecoverWork, jobVars, ghostVars
<1>3. /\ cycle' = cycle /\ publish' = publish
      /\ \A k \in Jobs \ {j} : workTask'[k] = workTask[k] /\ fixes'[k] = fixes[k]
  BY <1>1, <1>2, Types, Launched, FromNowhere DEF LaunchWork, taskVars, Nowhere
<1>4. \/ jstate' = jstate /\ EnsureExec(j)
      \/ Escalate(j, "Work") /\ DropExec(j) /\ UNCHANGED taskVars /\ workTask[j] = "failed"
  BY DEF RecoverWork, jobVars
<1>5. /\ \A k \in Jobs \ {j} : jstate'[k] = jstate[k]
      /\ \/ jstate'[j] = "Work"
         \/ jstate'[j] = "Escalated" /\ UNCHANGED taskVars /\ workTask[j] = "failed"
  BY <1>1, <1>4, Types DEF Escalate
<1>6. /\ \A k \in Jobs \ {j} : gate'[k] = gate[k] /\ (k \in exec' <=> k \in exec)
      /\ gate'[j] = None /\ exec' \subseteq Jobs /\ (j \in exec' => jstate'[j] = "Work")
  BY <1>1, <1>4, FromNowhere, Ensured, Dropped DEF Nowhere
<1>7. \/ pc' = "entry" /\ cur' = j /\ jstate'[j] = "Work" /\ workTask'[j] = "done"
      \/ pc' \in {"idle", "recover"} /\ (pc' = "idle" => recovering' = {})
  BY DEF RecoverWork, ReturnFrom, jobVars, taskVars
<1> QED
  BY <1>1, <1>2, <1>3, <1>5, <1>6, <1>7 DEF WorkRecovered

\* Likewise of a job in Evaluation.
EvaluationRecovered(j) ==
    /\ Recovering(j) /\ jstate[j] = "Evaluation" /\ workTask[j] # "running"
    /\ cycle[j] + 1 \in Nat
    /\ \A k \in Jobs \ {j} : jstate'[k] = jstate[k]
    /\ exec' \subseteq Jobs /\ \A k \in Jobs \ {j} : k \in exec' <=> k \in exec
    /\ jstate'[j] \in {"Evaluation", "WrapUp", "Work", "Escalated", "Done"}
    /\ jstate'[j] = "Done" => j \notin exec'
    /\ queue' = queue \/ (queue' = Enqueue(j) /\ jstate'[j] = "WrapUp" /\ j \in exec')
    /\ \A k \in Jobs \ {j} : publish'[k] = publish[k] /\ workTask'[k] = workTask[k]
    /\ publish'[j] # "running" /\ (workTask'[j] = "running" => jstate'[j] = "Work")

LEMMA RecoveredEvaluation ==
    ASSUME TypeOK, RecoveryOwns, TasksOwned, NEW j \in Jobs, RecoverEvaluation(j)
    PROVE  EvaluationRecovered(j)
<1>1. Recovering(j) /\ jstate[j] = "Evaluation"
  BY DEF RecoverEvaluation
<1>2. publish[j] # "running" /\ workTask[j] # "running"
  BY <1>1 DEF TasksOwned
<1>3. \/ /\ jstate' = jstate /\ queue' = queue /\ EnsureExec(j)
         /\ workTask' = workTask /\ publish' = publish
      \/ RecoveredPass(j)
      \/ /\ jstate' = [jstate EXCEPT ![j] = "Work"] /\ exec' = exec \cup {j}
         /\ queue' = queue /\ LaunchWork(j, cycle[j] + 1, FALSE)
      \/ Escalate(j, "Evaluation") /\ DropExec(j) /\ UNCHANGED taskVars /\ queue' = queue
  BY DEF RecoverEvaluation
<1>4. RecoveredPass(j) =>
         /\ UNCHANGED <<workTask, publish>>
         /\ \/ /\ jstate' = [jstate EXCEPT ![j] = "Done"] /\ DropExec(j) /\ queue' = queue
            \/ /\ jstate' = [jstate EXCEPT ![j] = "WrapUp"] /\ EnsureExec(j)
               /\ queue' = Enqueue(j)
  BY DEF RecoveredPass, taskVars
<1>5. \A k \in Jobs \ {j} : jstate'[k] = jstate[k]
  BY <1>3, <1>4, Types DEF Escalate
<1>6. exec' \subseteq Jobs /\ \A k \in Jobs \ {j} : k \in exec' <=> k \in exec
  <2>1. exec' \in {exec \cup {j}, exec \ {j}}
    BY <1>3, <1>4, Ensured, Dropped
  <2> QED
    BY <1>1, <2>1, FromNowhere DEF Nowhere
<1>7. /\ jstate'[j] \in {"Evaluation", "WrapUp", "Work", "Escalated", "Done"}
      /\ jstate'[j] = "Done" => j \notin exec'
      /\ queue' = queue \/ (queue' = Enqueue(j) /\ jstate'[j] = "WrapUp" /\ j \in exec')
  <2>1. (EnsureExec(j) => j \in exec') /\ (DropExec(j) => j \notin exec')
    BY Ensured, Dropped
  <2>2. \A s \in {"Done", "WrapUp", "Work", "Escalated"} :
           jstate' = [jstate EXCEPT ![j] = s] => jstate'[j] = s
    BY Types
  <2>3. CASE jstate' = jstate /\ queue' = queue
    BY <1>1, <2>3
  <2>4. CASE RecoveredPass(j)
    BY <1>4, <2>1, <2>2, <2>4
  <2>5. CASE jstate' = [jstate EXCEPT ![j] = "Work"] /\ queue' = queue
    BY <2>2, <2>5
  <2>6. CASE Escalate(j, "Evaluation") /\ queue' = queue
    BY <2>2, <2>6 DEF Escalate
  <2> QED
    BY <1>3, <2>3, <2>4, <2>5, <2>6
<1>8. \/ UNCHANGED <<workTask, publish>>
      \/ LaunchWork(j, cycle[j] + 1, FALSE) /\ jstate'[j] = "Work"
  BY <1>3, <1>4, Types DEF taskVars
<1>9. cycle[j] + 1 \in Nat
  BY Types
<1>10. /\ \A k \in Jobs \ {j} : publish'[k] = publish[k] /\ workTask'[k] = workTask[k]
       /\ publish'[j] # "running" /\ (workTask'[j] = "running" => jstate'[j] = "Work")
  BY <1>2, <1>8, <1>9, Launched DEF taskVars
<1> QED
  BY <1>1, <1>2, <1>5, <1>6, <1>7, <1>9, <1>10 DEF EvaluationRecovered

\* Likewise of a job in WrapUp.
WrapUpRecovered(j) ==
    /\ Recovering(j) /\ jstate[j] = "WrapUp" /\ UNCHANGED <<publish, workTask>>
    /\ \A k \in Jobs \ {j} : /\ jstate'[k] = jstate[k] /\ gate'[k] = gate[k]
                              /\ (k \in exec' <=> k \in exec)
    /\ exec' \subseteq Jobs
    /\ jstate'[j] = "Escalated" => publish[j] = "failed" /\ j \notin exec'
    /\ jstate'[j] \in {"WrapUp", "Escalated"} /\ gate'[j] = None
    /\ \/ queue' = queue
       \/ /\ queue' = Enqueue(j) /\ publish[j] = "none"
          /\ jstate'[j] = "WrapUp" /\ j \in exec'
    /\ \/ pc' = "shipped" /\ cur' = j /\ jstate'[j] = "WrapUp" /\ queue' = queue
       \/ pc' \in {"pump", "idle", "recover"}

LEMMA RecoveredWrapUp ==
    ASSUME TypeOK, RecoveryOwns, NEW j \in Jobs, RecoverWrapUp(j)
    PROVE  WrapUpRecovered(j)
<1>1. Recovering(j) /\ jstate[j] = "WrapUp"
  BY DEF RecoverWrapUp
<1>2. UNCHANGED <<publish, workTask>>
  BY DEF RecoverWrapUp, jobVars, taskVars
<1>3. \/ /\ publish[j] = "none" /\ EnsureExec(j) /\ queue' = Enqueue(j)
         /\ jstate' = jstate /\ pc' = "pump"
      \/ /\ EnsureExec(j) /\ queue' = queue /\ jstate' = jstate
         /\ \/ publish[j] = "running" /\ pc' = ReturnFrom(recovering')
            \/ publish[j] = "done" /\ pc' = "shipped" /\ cur' = j
      \/ Escalate(j, "WrapUp") /\ DropExec(j) /\ queue' = queue /\ publish[j] = "failed"
         /\ pc' = ReturnFrom(recovering')
  BY DEF RecoverWrapUp, jobVars
<1>4. \A k \in Jobs \ {j} : /\ jstate'[k] = jstate[k] /\ gate'[k] = gate[k]
                            /\ (k \in exec' <=> k \in exec)
  <2>1. \A k \in Jobs \ {j} : jstate'[k] = jstate[k]
    BY <1>3, Types DEF Escalate
  <2>2. \A k \in Jobs \ {j} : gate'[k] = gate[k] /\ (k \in exec' <=> k \in exec)
    BY <1>3, Ensured, Dropped
  <2> QED
    BY <2>1, <2>2
<1>5. jstate'[j] = "Escalated" => publish[j] = "failed" /\ j \notin exec'
  BY <1>1, <1>3, Dropped
<1>6. /\ jstate'[j] \in {"WrapUp", "Escalated"} /\ gate'[j] = None
      /\ \/ queue' = queue
         \/ /\ queue' = Enqueue(j) /\ publish[j] = "none"
            /\ jstate'[j] = "WrapUp" /\ j \in exec'
  BY <1>1, <1>3, Types, Ensured, Dropped, FromNowhere DEF Escalate, Nowhere
<1>7. \/ pc' = "shipped" /\ cur' = j /\ jstate'[j] = "WrapUp" /\ queue' = queue
      \/ pc' \in {"pump", "idle", "recover"}
  BY <1>1, <1>3 DEF ReturnFrom
<1>8. exec' \subseteq Jobs
  BY <1>1, <1>3, Ensured, Dropped, FromNowhere DEF Nowhere
<1> QED
  BY <1>1, <1>2, <1>4, <1>5, <1>6, <1>7, <1>8 DEF WrapUpRecovered

\* A finished work task: a gate fix queues again, with its gate due.
LEMMA WorkFinishedLand ==
    ASSUME TypeOK, GateInv, GateSeesHead, LandInv, Safe, NEW j \in Jobs,
           WorkFinished(j)
    PROVE  LandInv'
<1>1. Distinct(Enqueue(j)) /\ ToSet(Enqueue(j)) \subseteq ToSet(queue) \cup {j}
  BY Enqueued, Types DEF LandInv, QueueWaits
<1>2. QueueWaits' /\ GateWaits' /\ HandlerOwns' /\ RecoveryOwns'
  BY SMTT(30), <1>1, Types, NoneAssumption
  DEF LandInv, QueueWaits, GateWaits, HandlerOwns, RecoveryOwns, TasksOwned, CanLand,
     GateDue, Terminal, WorkFinished, FinalizePass, DropExec, Idle, taskVars, jobVars,
     trunkVars, execVars, queueVars, actorVars, ghostVars
<1>3. TasksOwned'
  BY WorkFinishedTasks DEF LandInv
<1>4. SliceIsCurrent' /\ FixStamped'
  BY SMTT(60), Types, NoneAssumption
  DEF LandInv, HandlerOwns, RecoveryOwns, TasksOwned, SliceIsCurrent, FixStamped, CanLand,
     GateDue, Terminal, WorkFinished, FinalizePass, DropExec, Idle, taskVars, jobVars,
     trunkVars, execVars, queueVars, actorVars, ghostVars
<1>5. StackIsBase' /\ PassIsFresh'
  BY SMTT(60), Types, NoneAssumption
  DEF LandInv, HandlerOwns, TasksOwned, StackIsBase, PassIsFresh, CanLand, GateDue,
     Terminal, WorkFinished, FinalizePass, DropExec, Idle, taskVars, jobVars, trunkVars,
     execVars, queueVars, actorVars, ghostVars
<1>6. LandsSettled'
  BY Types, NoneAssumption
  DEF LandInv, HandlerOwns, RecoveryOwns, TasksOwned, SliceIsCurrent, FixStamped,
     StackIsBase, PassIsFresh, LandsSettled, CanLand, GateDue, Settled, Terminal,
     WorkFinished, FinalizePass, DropExec, Idle, taskVars, jobVars, trunkVars, execVars,
     queueVars, actorVars, ghostVars
<1> QED
  BY <1>2, <1>3, <1>4, <1>5, <1>6 DEF LandInv

\* The branch is stacked on the head, or stays where it is until it is landed.
LEMMA EvaluationEnteredLand ==
    ASSUME TypeOK, GateInv, GateSeesHead, LandInv, Safe, NEW j \in Jobs,
           EvaluationEntered(j)
    PROVE  LandInv'
<1>1. QueueWaits' /\ GateWaits' /\ HandlerOwns' /\ RecoveryOwns'
  BY Types, NoneAssumption
  DEF LandInv, QueueWaits, GateWaits, HandlerOwns, RecoveryOwns, TasksOwned, CanLand,
     GateDue, Terminal, EvaluationEntered, taskVars, jobVars, trunkVars, execVars,
     queueVars, actorVars, ghostVars
<1>2. TasksOwned' /\ SliceIsCurrent' /\ FixStamped'
  BY Types, NoneAssumption
  DEF LandInv, HandlerOwns, RecoveryOwns, TasksOwned, SliceIsCurrent, FixStamped, CanLand,
     GateDue, Terminal, EvaluationEntered, taskVars, jobVars, trunkVars, execVars,
     queueVars, actorVars, ghostVars
<1>3. StackIsBase'
  <2>1. CASE UNCHANGED <<base, stack>>
    BY <2>1 DEF LandInv, StackIsBase, EvaluationEntered, trunkVars
  <2>2. CASE base' = [base EXCEPT ![j] = head] /\ stack' = [stack EXCEPT ![j] = head]
    <3>1. /\ \A k \in Jobs \ {j} : base'[k] = base[k] /\ stack'[k] = stack[k]
          /\ base'[j] = head /\ stack'[j] = head /\ head' = head
      BY <2>2, Types DEF EvaluationEntered, trunkVars
    <3>2. base \in [Jobs -> Nat] /\ stack \in [Jobs -> Nat] /\ head \in Nat /\ StackIsBase
      BY Types DEF LandInv
    <3> QED
      BY <3>1, <3>2 DEF StackIsBase
  <2> QED
    BY <2>1, <2>2 DEF EvaluationEntered
<1>4. PassIsFresh' /\ LandsSettled'
  BY SMTT(30), Types, NoneAssumption
  DEF LandInv, HandlerOwns, RecoveryOwns, TasksOwned, SliceIsCurrent, FixStamped,
     StackIsBase, PassIsFresh, LandsSettled, CanLand, GateDue, Settled, Terminal,
     EvaluationEntered, taskVars, jobVars, trunkVars, execVars, queueVars, actorVars,
     ghostVars
<1> QED
  BY <1>1, <1>2, <1>3, <1>4 DEF LandInv

\* A passing round is of the branch as it is stacked.
LEMMA EvalPassedLand ==
    ASSUME TypeOK, GateInv, GateSeesHead, LandInv, Safe, NEW j \in Jobs,
           EvalPassed(j)
    PROVE  LandInv'
<1>1. Distinct(Enqueue(j)) /\ ToSet(Enqueue(j)) \subseteq ToSet(queue) \cup {j}
  BY Enqueued, Types DEF LandInv, QueueWaits
<1>2. QueueWaits'
  <2>1. QueueWaits /\ TasksOwned /\ j \in exec /\ jstate[j] = "Evaluation"
    BY DEF LandInv, EvalPassed
  <2>2. j \notin ToSet(queue) /\ publish[j] # "running" /\ publish' = publish
    BY <2>1 DEF QueueWaits, CanLand, TasksOwned, EvalPassed
  <2>3. /\ queue' \in {queue, Enqueue(j)}
        /\ (jstate'[j] = "WrapUp" /\ j \in exec') \/ queue' = queue
        /\ \A k \in Jobs \ {j} : jstate'[k] = jstate[k] /\ (k \in exec' <=> k \in exec)
    BY Types DEF EvalPassed, FinalizePass, DropExec, execVars
  <2>4. ToSet(queue) \subseteq Jobs
    BY Types DEF ToSet
  <2> QED
    BY <1>1, <2>1, <2>2, <2>3, <2>4 DEF QueueWaits, CanLand
<1>3. GateWaits'
  BY SMTT(60), <1>1, Types, NoneAssumption
  DEF LandInv, QueueWaits, GateWaits, HandlerOwns, RecoveryOwns, TasksOwned, CanLand,
     GateDue, Terminal, EvalPassed, FinalizePass, DropExec, Idle, taskVars, jobVars,
     trunkVars, execVars, queueVars, actorVars, ghostVars
<1>4. HandlerOwns'
  BY <1>1, Types, NoneAssumption
  DEF LandInv, QueueWaits, GateWaits, HandlerOwns, RecoveryOwns, TasksOwned, CanLand,
     GateDue, Terminal, EvalPassed, FinalizePass, DropExec, Idle, taskVars, jobVars,
     trunkVars, execVars, queueVars, actorVars, ghostVars
<1>5. RecoveryOwns'
  BY <1>1, Types, NoneAssumption
  DEF LandInv, QueueWaits, GateWaits, HandlerOwns, RecoveryOwns, TasksOwned, CanLand,
     GateDue, Terminal, EvalPassed, FinalizePass, DropExec, Idle, taskVars, jobVars,
     trunkVars, execVars, queueVars, actorVars, ghostVars
<1>6. TasksOwned'
  BY EvalPassedTasks DEF LandInv
<1>7. SliceIsCurrent' /\ FixStamped' /\ StackIsBase'
  BY SMTT(60), Types, NoneAssumption
  DEF LandInv, HandlerOwns, RecoveryOwns, TasksOwned, SliceIsCurrent, FixStamped,
     StackIsBase, CanLand, GateDue, Terminal, EvalPassed, FinalizePass, DropExec, Idle,
     taskVars, jobVars, trunkVars, execVars, queueVars, actorVars, ghostVars
<1>8. PassIsFresh' /\ LandsSettled'
  BY SMTT(30), Types, NoneAssumption
  DEF LandInv, HandlerOwns, RecoveryOwns, TasksOwned, SliceIsCurrent, FixStamped,
     StackIsBase, PassIsFresh, LandsSettled, CanLand, GateDue, Settled, Terminal,
     EvalPassed, FinalizePass, DropExec, Idle, taskVars, jobVars, trunkVars, execVars,
     queueVars, actorVars, ghostVars
<1> QED
  BY <1>2, <1>3, <1>4, <1>5, <1>6, <1>7, <1>8 DEF LandInv

\* A failed round: the next cycle, unless a drain holds the verdict.
LEMMA EvalFailedLand ==
    ASSUME TypeOK, GateInv, GateSeesHead, LandInv, Safe, NEW j \in Jobs,
           EvalFailed(j)
    PROVE  LandInv'
<1>1. /\ exec' = exec /\ pc = "idle" /\ pc' = pc /\ j \in exec /\ exec \subseteq Jobs
      /\ jstate[j] = "Evaluation" /\ execCycle[j] = cycle[j] /\ evals[j] = "running"
      /\ SliceIsCurrent /\ FixStamped
  BY Types DEF LandInv, EvalFailed, Idle, actorVars, SliceIsCurrent
<1>2. ASSUME draining
      PROVE  SliceIsCurrent' /\ FixStamped'
  <2>1. UNCHANGED <<jstate, execCycle, workTask, fixTask, fixes, publish, cycle>>
    BY <1>2 DEF EvalFailed
  <2> QED
    BY <1>1, <2>1 DEF SliceIsCurrent, FixStamped
<1>3. ASSUME ~draining
      PROVE  SliceIsCurrent' /\ FixStamped'
  <2>1. /\ jstate'[j] = "Work"
        /\ \A k \in Jobs \ {j} : jstate'[k] = jstate[k] /\ execCycle'[k] = execCycle[k]
    BY <1>3, Types DEF EvalFailed, EvalRework
  <2>2. PICK c \in Nat : execCycle'[j] = c /\ LaunchWork(j, c, FALSE)
    <3>1. execCycle'[j] = execCycle[j] + 1 /\ execCycle[j] + 1 \in Nat
      BY <1>3, Types DEF EvalFailed, EvalRework
    <3>2. LaunchWork(j, execCycle[j] + 1, FALSE)
      BY <1>3 DEF EvalFailed, EvalRework
    <3> QED
      BY <3>1, <3>2
  <2>3. /\ workTask'[j] = "running" /\ cycle'[j] = c
        /\ \A k \in Jobs \ {j} : cycle'[k] = cycle[k] /\ workTask'[k] = workTask[k]
    BY <1>3, <2>2, Launched
  <2>4. SliceIsCurrent'
    BY <1>1, <2>1, <2>2, <2>3 DEF SliceIsCurrent
  <2>5. FixStamped'
    BY <1>1, <2>2, LaunchStamped
  <2> QED
    BY <2>4, <2>5
<1>4. QueueWaits' /\ GateWaits'
  BY SMTT(30), Types, NoneAssumption
  DEF LandInv, QueueWaits, GateWaits, HandlerOwns, RecoveryOwns, TasksOwned, CanLand,
     GateDue, Terminal, EvalFailed, EvalRework, LaunchWork, Idle, taskVars, jobVars,
     trunkVars, execVars, queueVars, actorVars, ghostVars
<1>5. HandlerOwns'
  BY Types, NoneAssumption
  DEF LandInv, QueueWaits, GateWaits, HandlerOwns, RecoveryOwns, TasksOwned, CanLand,
     GateDue, Terminal, EvalFailed, EvalRework, LaunchWork, Idle, taskVars, jobVars,
     trunkVars, execVars, queueVars, actorVars, ghostVars
<1>6. RecoveryOwns'
  BY Types, NoneAssumption
  DEF LandInv, QueueWaits, GateWaits, HandlerOwns, RecoveryOwns, TasksOwned, CanLand,
     GateDue, Terminal, EvalFailed, EvalRework, LaunchWork, Idle, taskVars, jobVars,
     trunkVars, execVars, queueVars, actorVars, ghostVars
<1>7. StackIsBase'
  BY Types, NoneAssumption
  DEF LandInv, HandlerOwns, StackIsBase, CanLand, GateDue, EvalFailed, EvalRework,
     LaunchWork, Idle, taskVars, jobVars, trunkVars, execVars, queueVars, actorVars,
     ghostVars
<1>8. PassIsFresh'
  BY SMTT(60), Types, NoneAssumption
  DEF LandInv, HandlerOwns, TasksOwned, PassIsFresh, CanLand, GateDue, Terminal,
     EvalFailed, EvalRework, LaunchWork, Idle, taskVars, jobVars, trunkVars, execVars,
     queueVars, actorVars, ghostVars
<1>9. LandsSettled'
  BY Types, NoneAssumption
  DEF LandInv, HandlerOwns, RecoveryOwns, TasksOwned, SliceIsCurrent, FixStamped,
     StackIsBase, PassIsFresh, LandsSettled, CanLand, GateDue, Settled, Terminal,
     EvalFailed, EvalRework, LaunchWork, Idle, taskVars, jobVars, trunkVars, execVars,
     queueVars, actorVars, ghostVars
<1>10. TasksOwned'
  BY EvalFailedTasks DEF LandInv
<1>11. SliceIsCurrent' /\ FixStamped'
  BY <1>2, <1>3
<1> QED
  BY <1>4, <1>5, <1>6, <1>7, <1>8, <1>9, <1>10, <1>11 DEF LandInv

\* Work or Evaluation gives up.
LEMMA PhaseEscalatedLand ==
    ASSUME TypeOK, GateInv, GateSeesHead, LandInv, Safe, NEW j \in Jobs,
           PhaseEscalated(j)
    PROVE  LandInv'
<1>1. QueueWaits' /\ GateWaits' /\ HandlerOwns' /\ RecoveryOwns'
  BY SMTT(30), Types, NoneAssumption
  DEF LandInv, QueueWaits, GateWaits, HandlerOwns, RecoveryOwns, TasksOwned, CanLand,
     GateDue, Terminal, PhaseEscalated, Escalate, DropExec, Idle, taskVars, jobVars,
     trunkVars, execVars, queueVars, actorVars, ghostVars
<1>2. /\ TasksOwned' /\ SliceIsCurrent' /\ FixStamped'
      /\ StackIsBase' /\ PassIsFresh' /\ LandsSettled'
  BY Types, NoneAssumption
  DEF LandInv, QueueWaits, GateWaits, HandlerOwns, RecoveryOwns, TasksOwned,
     SliceIsCurrent, FixStamped, StackIsBase, PassIsFresh, LandsSettled, CanLand, GateDue,
     Settled, Terminal, PhaseEscalated, Escalate, DropExec, Idle, taskVars, jobVars,
     trunkVars, execVars, queueVars, actorVars, ghostVars
<1> QED
  BY <1>1, <1>2 DEF LandInv

\* Before the landing.
LEMMA PhasesLand ==
    ASSUME TypeOK, GateInv, GateSeesHead, LandInv, Safe, NEW j \in Jobs,
           EvaluationHeld(j) \/ EvaluatorsLaunched(j)
    PROVE  LandInv'
<1> USE Types, NoneAssumption
    DEF LandInv, QueueWaits, GateWaits, HandlerOwns, RecoveryOwns, TasksOwned,
       SliceIsCurrent, FixStamped, StackIsBase, PassIsFresh, LandsSettled, CanLand,
       GateDue, Settled, Terminal, taskVars, jobVars, trunkVars, execVars, queueVars,
       actorVars, ghostVars
<1>1. CASE EvaluationHeld(j)
  BY <1>1 DEF EvaluationHeld, ReturnFrom
<1>2. CASE EvaluatorsLaunched(j)
  BY <1>2 DEF EvaluatorsLaunched, ReturnFrom
<1> QED
  BY <1>1, <1>2

\* The landing fold.
LEMMA FoldsLand ==
    ASSUME TypeOK, GateInv, GateSeesHead, LandInv, Safe, NEW j \in Jobs,
           LandingRefused(j) \/ LandingError(j) \/ LandNothing(j) \/ LandUngated(j)
           \/ LandingUnread(j) \/ SquashConflict(j) \/ OpenGate(j) \/ GateOpened(j)
           \/ GateLaunchError(j)
    PROVE  LandInv'
<1> USE Types, NoneAssumption
    DEF LandInv, QueueWaits, GateWaits, HandlerOwns, RecoveryOwns, TasksOwned,
       SliceIsCurrent, FixStamped, StackIsBase, PassIsFresh, LandsSettled, CanLand,
       GateDue, Settled, Terminal, taskVars, jobVars, trunkVars, execVars, queueVars,
       actorVars, ghostVars
<1>1. CASE LandingRefused(j)
  BY <1>1 DEF LandingRefused, LandingEscalates, Escalate, DropExec, Landing
<1>2. CASE LandingError(j)
  BY <1>2 DEF LandingError, LandingEscalates, Escalate, DropExec, Landing
<1>3. CASE LandNothing(j)
  BY <1>3 DEF LandNothing, Landing
<1>4. CASE LandUngated(j)
  BY SMTT(60), <1>4 DEF LandUngated, Landing, Land, FastPath
<1>5. CASE LandingUnread(j)
  BY <1>5 DEF LandingUnread, Landing
<1>6. CASE SquashConflict(j)
  BY <1>6 DEF SquashConflict, Landing, RebaseOnto
<1>7. CASE OpenGate(j)
  BY <1>7 DEF OpenGate, Landing, FastPath, ForceGate
<1>8. CASE GateOpened(j)
  BY <1>8 DEF GateOpened, ReturnFrom
<1>9. CASE GateLaunchError(j)
  BY <1>9 DEF GateLaunchError, LandingEscalates, Escalate, DropExec
<1> QED
  BY <1>1, <1>2, <1>3, <1>4, <1>5, <1>6, <1>7, <1>8, <1>9

\* A rework's task, stamped as a gate fix if it is one.
LEMMA WorkLaunchedLand ==
    ASSUME TypeOK, GateInv, GateSeesHead, LandInv, Safe, NEW j \in Jobs,
           WorkLaunched(j)
    PROVE  LandInv'
<1>1. /\ pc = "launch" /\ cur = j /\ pc' = "pump" /\ jstate[j] = "Work"
      /\ workTask[j] # "running" /\ gate[j] = None /\ publish[j] # "running"
      /\ execCycle[j] \in Nat /\ asFix \in BOOLEAN
      /\ LaunchWork(j, execCycle[j], asFix)
      /\ UNCHANGED <<jstate, base, retryAt, head, exec, gate, queue, recovering, verified>>
  BY Types, NoneAssumption DEF LandInv, HandlerOwns, TasksOwned, WorkLaunched, TypeOK,
     ActorTyped, trunkVars, execVars, queueVars, ghostVars
<1>2. \A k \in Jobs \ {j} : /\ cycle'[k] = cycle[k] /\ fixes'[k] = fixes[k]
                            /\ publish'[k] = publish[k]
  BY <1>1, Launched
<1>3. QueueWaits' /\ HandlerOwns' /\ RecoveryOwns'
  BY Types, NoneAssumption
  DEF LandInv, QueueWaits, GateWaits, HandlerOwns, RecoveryOwns, TasksOwned, CanLand,
     GateDue, Terminal, WorkLaunched, LaunchWork, taskVars, jobVars, trunkVars, execVars,
     queueVars, actorVars, ghostVars
<1>4. GateWaits'
  BY <1>1, <1>2 DEF LandInv, GateWaits, CanLand, GateDue
<1>5. TasksOwned'
  BY Types, NoneAssumption
  DEF LandInv, HandlerOwns, TasksOwned, CanLand, GateDue, Terminal, WorkLaunched,
     LaunchWork, taskVars, jobVars, trunkVars, execVars, queueVars, actorVars, ghostVars
<1>6. SliceIsCurrent'
  BY Types, NoneAssumption
  DEF LandInv, HandlerOwns, RecoveryOwns, TasksOwned, SliceIsCurrent, CanLand, GateDue,
     Terminal, WorkLaunched, LaunchWork, taskVars, jobVars, trunkVars, execVars,
     queueVars, actorVars, ghostVars
<1>7. FixStamped'
  BY <1>1, LaunchStamped DEF LandInv
<1>8. StackIsBase' /\ PassIsFresh'
  BY Types, NoneAssumption
  DEF LandInv, HandlerOwns, TasksOwned, StackIsBase, PassIsFresh, CanLand, GateDue,
     Terminal, WorkLaunched, LaunchWork, taskVars, jobVars, trunkVars, execVars,
     queueVars, actorVars, ghostVars
<1>9. LandsSettled'
  BY <1>1, <1>2 DEF LandInv, LandsSettled, Settled, GateDue
<1> QED
  BY <1>3, <1>4, <1>5, <1>6, <1>7, <1>8, <1>9 DEF LandInv

\* The gate's verdict and the re-entry of Work.
LEMMA GatesLand ==
    ASSUME TypeOK, GateInv, GateSeesHead, LandInv, Safe, NEW j \in Jobs,
           GatePassed(j) \/ GateFailed(j) \/ PinBase(j) \/ WorkEntryRefused(j) \/
           WorkEntered(j) \/ Landed(j) \/ Completed(j)
    PROVE  LandInv'
<1> USE Types, NoneAssumption
    DEF LandInv, QueueWaits, GateWaits, HandlerOwns, RecoveryOwns, TasksOwned,
       SliceIsCurrent, FixStamped, StackIsBase, PassIsFresh, LandsSettled, CanLand,
       GateDue, Settled, Terminal, taskVars, jobVars, trunkVars, execVars, queueVars,
       actorVars, ghostVars
<1>1. CASE GatePassed(j)
  BY <1>1 DEF GatePassed, Reducing, Land, GateSeesHead
<1>2. CASE GateFailed(j)
  BY <1>2 DEF GateFailed, Reducing, RebaseOnto, GateSeesHead
<1>3. CASE PinBase(j)
  BY <1>3 DEF PinBase
<1>4. CASE WorkEntryRefused(j)
  BY <1>4 DEF WorkEntryRefused, Escalate
<1>5. CASE WorkEntered(j)
  BY <1>5 DEF WorkEntered
<1>6. CASE Landed(j)
  BY <1>6 DEF Landed, ReturnFrom
<1>7. CASE Completed(j)
  BY SMTT(30), <1>7 DEF Completed, DropExec, ReturnFrom
<1> QED
  BY <1>1, <1>2, <1>3, <1>4, <1>5, <1>6, <1>7

\* The operator has an escalated job worked on again.
LEMMA RetryWorkLand ==
    ASSUME TypeOK, GateInv, GateSeesHead, LandInv, Safe, NEW j \in Jobs,
           RetryWork(j)
    PROVE  LandInv'
<1>1. /\ EnsureExec(j) /\ LaunchWork(j, execCycle'[j], execFix'[j])
  BY DEF RetryWork
<1>2. execCycle'[j] \in Nat /\ execFix'[j] \in BOOLEAN
  BY <1>1, Ensured
<1>3. QueueWaits' /\ GateWaits' /\ HandlerOwns' /\ RecoveryOwns'
  BY SMTT(30), Types, NoneAssumption
  DEF LandInv, QueueWaits, GateWaits, HandlerOwns, RecoveryOwns, TasksOwned, CanLand,
     GateDue, Terminal, RetryWork, EnsureExec, LaunchWork, Idle, taskVars, jobVars,
     trunkVars, execVars, queueVars, actorVars, ghostVars
<1>4. TasksOwned'
  BY SMTT(30), Types, NoneAssumption
  DEF LandInv, HandlerOwns, TasksOwned, CanLand, GateDue, Terminal, RetryWork, EnsureExec,
     LaunchWork, Idle, taskVars, jobVars, trunkVars, execVars, queueVars, actorVars,
     ghostVars
<1>5. SliceIsCurrent'
  BY Types, NoneAssumption
  DEF LandInv, HandlerOwns, RecoveryOwns, TasksOwned, SliceIsCurrent, CanLand, GateDue,
     Terminal, RetryWork, EnsureExec, LaunchWork, Idle, taskVars, jobVars, trunkVars,
     execVars, queueVars, actorVars, ghostVars
<1>6. FixStamped'
  BY <1>1, <1>2, LaunchStamped DEF LandInv
<1>7. StackIsBase' /\ PassIsFresh'
  BY Types, NoneAssumption
  DEF LandInv, HandlerOwns, TasksOwned, StackIsBase, PassIsFresh, CanLand, GateDue,
     Terminal, RetryWork, EnsureExec, LaunchWork, Idle, taskVars, jobVars, trunkVars,
     execVars, queueVars, actorVars, ghostVars
<1>8. LandsSettled'
  BY Types, NoneAssumption
  DEF LandInv, HandlerOwns, RecoveryOwns, TasksOwned, SliceIsCurrent, FixStamped,
     StackIsBase, PassIsFresh, LandsSettled, CanLand, GateDue, Settled, Terminal,
     RetryWork, EnsureExec, LaunchWork, Idle, taskVars, jobVars, trunkVars, execVars,
     queueVars, actorVars, ghostVars
<1> QED
  BY <1>3, <1>4, <1>5, <1>6, <1>7, <1>8 DEF LandInv

\* The operator.
LEMMA OperatorsLand ==
    ASSUME TypeOK, GateInv, GateSeesHead, LandInv, Safe, NEW j \in Jobs,
           ReEvaluate(j) \/ RetryPublish(j) \/ Revoke(j)
    PROVE  LandInv'
<1> USE Types, NoneAssumption
    DEF LandInv, QueueWaits, GateWaits, HandlerOwns, RecoveryOwns, TasksOwned,
       SliceIsCurrent, FixStamped, StackIsBase, PassIsFresh, LandsSettled, CanLand,
       GateDue, Settled, Terminal, taskVars, jobVars, trunkVars, execVars, queueVars,
       actorVars, ghostVars
<1>1. CASE ReEvaluate(j)
  BY SMTT(30), <1>1 DEF ReEvaluate, EnsureExec, Idle
<1>2. CASE RetryPublish(j)
  BY <1>2 DEF RetryPublish, EnsureExec, Idle
<1>3. CASE Revoke(j)
  <2>1. Distinct(Without(queue, j)) /\ ToSet(Without(queue, j)) \subseteq ToSet(queue) \ {j}
    BY Removed, Types
  <2> QED
    BY <1>3, <2>1 DEF Revoke, DropExec, Idle
<1> QED
  BY <1>1, <1>2, <1>3

\* Restart of a job in Work.
LEMMA RecoverWorkLand ==
    ASSUME TypeOK, GateInv, GateSeesHead, LandInv, Safe, NEW j \in Jobs,
           RecoverWork(j)
    PROVE  LandInv'
<1>1. WorkRecovered(j) /\ Nowhere(j)
  <2>1. RecoveryOwns
    BY DEF LandInv
  <2> QED
    BY <2>1, RecoveredWork, FromNowhere DEF WorkRecovered
<1>2. QueueWaits'
  BY <1>1 DEF WorkRecovered, Nowhere, LandInv, QueueWaits, CanLand
<1>3. GateWaits'
  BY <1>1 DEF WorkRecovered, Nowhere, LandInv, GateWaits, CanLand,
     GateDue
<1>4. HandlerOwns'
  BY <1>1 DEF WorkRecovered, Nowhere, LandInv, HandlerOwns, CanLand,
     TasksOwned
<1>5. RecoveryOwns'
  BY <1>1 DEF WorkRecovered, Nowhere, LandInv, RecoveryOwns
<1>6. TasksOwned'
  BY <1>1 DEF WorkRecovered, Nowhere, LandInv, TasksOwned, Terminal,
     taskVars
<1>7. SliceIsCurrent'
  BY SMTT(30), <1>1, Types, NoneAssumption
  DEF WorkRecovered, LandInv, HandlerOwns, RecoveryOwns, TasksOwned, SliceIsCurrent, Terminal,
     RecoverWork, Recovering, EnsureExec, DropExec, ReturnFrom, Escalate, LaunchWork,
     taskVars, jobVars, execVars
<1>8. StackIsBase'
  BY <1>1 DEF WorkRecovered, LandInv, StackIsBase, Recovering, trunkVars
<1>9. PassIsFresh' /\ LandsSettled'
  BY SMTT(30), Types, NoneAssumption
  DEF LandInv, HandlerOwns, RecoveryOwns, TasksOwned, FixStamped,
     PassIsFresh, LandsSettled, CanLand, GateDue, Settled, Terminal,
     RecoverWork, Recovering, EnsureExec, DropExec, ReturnFrom, Escalate, LaunchWork,
     taskVars, jobVars, trunkVars, execVars, queueVars, actorVars, ghostVars
<1>10. FixStamped'
  BY <1>1, LaunchStamped DEF WorkRecovered, Nowhere, LandInv, FixStamped, taskVars
<1> QED
  BY <1>2, <1>3, <1>4, <1>5, <1>6, <1>7, <1>8, <1>9, <1>10 DEF LandInv

\* Restart of a job in Evaluation.
LEMMA RecoverEvaluationLand ==
    ASSUME TypeOK, GateInv, GateSeesHead, LandInv, Safe, NEW j \in Jobs,
           RecoverEvaluation(j)
    PROVE  LandInv'
<1>1. Distinct(Enqueue(j)) /\ ToSet(Enqueue(j)) \subseteq ToSet(queue) \cup {j}
  BY Enqueued, Types DEF LandInv, QueueWaits
<1>2. EvaluationRecovered(j) /\ Nowhere(j)
  <2>1. RecoveryOwns /\ TasksOwned
    BY DEF LandInv
  <2> QED
    BY <2>1, RecoveredEvaluation, FromNowhere DEF EvaluationRecovered
<1>3. QueueWaits'
  BY <1>1, <1>2 DEF EvaluationRecovered, Nowhere, LandInv, QueueWaits, CanLand
<1>4. GateWaits'
  BY SMTT(30), <1>1, Types, NoneAssumption
  DEF LandInv, QueueWaits, GateWaits, HandlerOwns, RecoveryOwns, TasksOwned, CanLand,
     GateDue, Terminal, RecoverEvaluation, Recovering, RecoveredPass, EnsureExec,
     DropExec, ReturnFrom, Escalate, LaunchWork, taskVars, jobVars, trunkVars, execVars,
     queueVars, actorVars, ghostVars
<1>5. HandlerOwns'
  BY <1>1, Types, NoneAssumption
  DEF LandInv, QueueWaits, GateWaits, HandlerOwns, RecoveryOwns, TasksOwned, CanLand,
     GateDue, Terminal, RecoverEvaluation, Recovering, RecoveredPass, EnsureExec,
     DropExec, ReturnFrom, Escalate, LaunchWork, taskVars, jobVars, trunkVars, execVars,
     queueVars, actorVars, ghostVars
<1>6. RecoveryOwns'
  BY SMTT(30), <1>1, Types, NoneAssumption
  DEF LandInv, QueueWaits, GateWaits, HandlerOwns, RecoveryOwns, TasksOwned, CanLand,
     GateDue, Terminal, RecoverEvaluation, Recovering, RecoveredPass, EnsureExec,
     DropExec, ReturnFrom, Escalate, LaunchWork, taskVars, jobVars, trunkVars, execVars,
     queueVars, actorVars, ghostVars
<1>7. TasksOwned'
  BY <1>2 DEF EvaluationRecovered, Nowhere, LandInv, TasksOwned, Terminal
<1>8. SliceIsCurrent'
  <2>1. pc' # "entry"
    BY DEF RecoverEvaluation, RecoveredPass, ReturnFrom
  <2>2. \A k \in Jobs \ {j} : cycle'[k] = cycle[k]
    BY <1>2, Launched DEF EvaluationRecovered, RecoverEvaluation, RecoveredPass, taskVars
  <2>3. \A k \in Jobs \ {j} : execCycle'[k] = execCycle[k]
    BY Types, Ensured, Dropped DEF RecoverEvaluation, RecoveredPass
  <2>4. \/ j \notin exec'
        \/ EnsureExec(j) /\ cycle' = cycle
        \/ /\ LaunchWork(j, cycle[j] + 1, FALSE)
           /\ execCycle'[j] = cycle[j] + 1 /\ jstate'[j] = "Work"
    BY Types, Dropped DEF RecoverEvaluation, RecoveredPass, taskVars
  <2>5. \/ j \notin exec'
        \/ execCycle'[j] = cycle'[j]
        \/ jstate'[j] = "Work" /\ workTask'[j] # "running"
    <3>1. CASE EnsureExec(j) /\ cycle' = cycle
      BY <1>2, <3>1, Ensured DEF Nowhere
    <3>2. CASE /\ LaunchWork(j, cycle[j] + 1, FALSE)
               /\ execCycle'[j] = cycle[j] + 1 /\ jstate'[j] = "Work"
      <4>1. cycle[j] + 1 \in Nat
        BY <1>2 DEF EvaluationRecovered
      <4>2. UNCHANGED taskVars \/ cycle'[j] = cycle[j] + 1
        BY <3>2, <4>1, Launched
      <4> QED
        BY <1>2, <3>2, <4>2 DEF EvaluationRecovered, taskVars
    <3> QED
      BY <2>4, <3>1, <3>2
  <2> QED
    BY <1>2, <2>1, <2>2, <2>3, <2>5 DEF EvaluationRecovered, Nowhere, LandInv,
       SliceIsCurrent
<1>9. FixStamped'
  <2>1. UNCHANGED <<cycle, fixTask, fixes>> \/ \E c \in Nat : LaunchWork(j, c, FALSE)
    BY <1>2 DEF EvaluationRecovered, RecoverEvaluation, RecoveredPass, taskVars
  <2> QED
    BY <2>1, LaunchStamped DEF LandInv, FixStamped
<1>10. StackIsBase' /\ PassIsFresh'
  BY SMTT(30), Types, NoneAssumption
  DEF LandInv, HandlerOwns, TasksOwned, StackIsBase, PassIsFresh, CanLand, GateDue,
     Terminal, RecoverEvaluation, Recovering, RecoveredPass, EnsureExec, DropExec,
     ReturnFrom, Escalate, LaunchWork, taskVars, jobVars, trunkVars, execVars, queueVars,
     actorVars, ghostVars
<1>11. LandsSettled'
  BY SMTT(30), Types, NoneAssumption
  DEF LandInv, HandlerOwns, RecoveryOwns, TasksOwned, SliceIsCurrent, FixStamped,
     StackIsBase, PassIsFresh, LandsSettled, CanLand, GateDue, Settled, Terminal,
     RecoverEvaluation, Recovering, RecoveredPass, EnsureExec, DropExec, ReturnFrom,
     Escalate, LaunchWork, taskVars, jobVars, trunkVars, execVars, queueVars, actorVars,
     ghostVars
<1> QED
  BY <1>3, <1>4, <1>5, <1>6, <1>7, <1>8, <1>9, <1>10, <1>11 DEF LandInv

\* Restart of a job in WrapUp.
LEMMA RecoverWrapUpLand ==
    ASSUME TypeOK, GateInv, GateSeesHead, LandInv, Safe, NEW j \in Jobs,
           RecoverWrapUp(j)
    PROVE  LandInv'
<1>1. Distinct(Enqueue(j)) /\ ToSet(Enqueue(j)) \subseteq ToSet(queue) \cup {j}
  BY Enqueued, Types DEF LandInv, QueueWaits
<1>2. WrapUpRecovered(j) /\ Nowhere(j)
  <2>1. RecoveryOwns
    BY DEF LandInv
  <2> QED
    BY <2>1, RecoveredWrapUp, FromNowhere DEF WrapUpRecovered
<1>3. EnsureExec(j) \/ (Escalate(j, "WrapUp") /\ DropExec(j))
  BY DEF RecoverWrapUp
<1>4. QueueWaits'
  BY <1>1, <1>2 DEF WrapUpRecovered, Nowhere, LandInv, QueueWaits, CanLand
<1>5. GateWaits' /\ RecoveryOwns'
  BY SMTT(30), <1>1, Types, NoneAssumption
  DEF LandInv, QueueWaits, GateWaits, HandlerOwns, RecoveryOwns, TasksOwned, CanLand,
     GateDue, Terminal, RecoverWrapUp, Recovering, EnsureExec, DropExec, ReturnFrom,
     Escalate, taskVars, jobVars, trunkVars, execVars, queueVars, actorVars, ghostVars
<1>6. HandlerOwns'
  BY <1>2 DEF WrapUpRecovered, Nowhere, HandlerOwns
<1>7. TasksOwned'
  BY <1>2 DEF WrapUpRecovered, Nowhere, LandInv, TasksOwned, Terminal
<1>8. SliceIsCurrent'
  <2>1. exec' \subseteq Jobs /\ pc' # "entry" /\ UNCHANGED <<cycle, workTask>>
    BY <1>2 DEF WrapUpRecovered, RecoverWrapUp, jobVars,
       taskVars
  <2>2. \A k \in Jobs \ {j} : execCycle'[k] = execCycle[k]
    BY <1>3, Ensured, Dropped
  <2>3. j \notin exec' \/ execCycle'[j] = cycle[j]
    BY <1>2, <1>3, Ensured, Dropped DEF WrapUpRecovered, Nowhere
  <2> QED
    BY <1>2, <2>1, <2>2, <2>3 DEF WrapUpRecovered, Nowhere, LandInv, SliceIsCurrent
<1>9. FixStamped'
  BY Types, NoneAssumption
  DEF LandInv, HandlerOwns, FixStamped, CanLand, GateDue, RecoverWrapUp, Recovering,
     EnsureExec, DropExec, ReturnFrom, Escalate, taskVars, jobVars, trunkVars, execVars,
     queueVars, actorVars, ghostVars
<1>10. StackIsBase' /\ PassIsFresh'
  BY SMTT(30), Types, NoneAssumption
  DEF LandInv, HandlerOwns, TasksOwned, StackIsBase, PassIsFresh, CanLand, GateDue,
     Terminal, RecoverWrapUp, Recovering, EnsureExec, DropExec, ReturnFrom, Escalate,
     taskVars, jobVars, trunkVars, execVars, queueVars, actorVars, ghostVars
<1>11. LandsSettled'
  <2>1. /\ UNCHANGED <<base, head, cycle, fixes, verified>>
        /\ \A k \in Jobs \ {j} : retryAt'[k] = retryAt[k]
    BY Types DEF RecoverWrapUp, Recovering, Escalate, jobVars, taskVars, trunkVars,
       ghostVars
  <2> QED
    BY <1>2, <2>1 DEF WrapUpRecovered, Nowhere, LandInv, LandsSettled, Settled, GateDue
<1> QED
  BY <1>4, <1>5, <1>6, <1>7, <1>8, <1>9, <1>10, <1>11 DEF LandInv

\* A publish runs in WrapUp, or is forgotten with its job.
LEMMA PublishExitedLand ==
    ASSUME TypeOK, GateInv, GateSeesHead, LandInv, Safe, NEW j \in Jobs,
           NEW pass \in BOOLEAN,
           PublishExited(j, pass)
    PROVE  LandInv'
<1>1. QueueWaits' /\ GateWaits' /\ HandlerOwns' /\ RecoveryOwns'
  BY SMTT(30), Types, NoneAssumption
  DEF LandInv, QueueWaits, GateWaits, HandlerOwns, RecoveryOwns, TasksOwned, CanLand,
     GateDue, Terminal, PublishExited, Escalate, DropExec, Idle, taskVars, jobVars,
     trunkVars, execVars, queueVars, actorVars, ghostVars
<1>2. TasksOwned'
  BY PublishExitedTasks DEF LandInv
<1>3. SliceIsCurrent' /\ FixStamped'
  BY Types, NoneAssumption
  DEF LandInv, HandlerOwns, RecoveryOwns, TasksOwned, SliceIsCurrent, FixStamped, CanLand,
     GateDue, Terminal, PublishExited, Escalate, DropExec, Idle, taskVars, jobVars,
     trunkVars, execVars, queueVars, actorVars, ghostVars
<1>4. StackIsBase' /\ PassIsFresh'
  BY Types, NoneAssumption
  DEF LandInv, HandlerOwns, TasksOwned, StackIsBase, PassIsFresh, CanLand, GateDue,
     Terminal, PublishExited, Escalate, DropExec, Idle, taskVars, jobVars, trunkVars,
     execVars, queueVars, actorVars, ghostVars
<1>5. LandsSettled'
  <2>1. /\ pc = "idle" /\ j \in exec /\ publish[j] = "running" /\ exec \subseteq Jobs
        /\ jstate'[j] \in {jstate[j], "Escalated"}
        /\ UNCHANGED <<base, head, cycle, fixes, verified>>
        /\ \A k \in Jobs \ {j} : jstate'[k] = jstate[k] /\ retryAt'[k] = retryAt[k]
    BY Types DEF PublishExited, Idle, Escalate, execVars, trunkVars, ghostVars
  <2>2. jstate[j] = "WrapUp"
    BY <2>1 DEF LandInv, TasksOwned, Terminal
  <2> QED
    BY <2>1, <2>2 DEF LandInv, LandsSettled, Settled, GateDue
<1> QED
  BY <1>1, <1>2, <1>3, <1>4, <1>5 DEF LandInv

\* Exits.
LEMMA ExitsLand ==
    ASSUME TypeOK, GateInv, GateSeesHead, LandInv, Safe, NEW j \in Jobs,
           NEW e \in Evals, NEW pass \in BOOLEAN,
           GateExited(j, e, pass) \/ GateLaunchExpired(j, e)
    PROVE  LandInv'
<1> USE Types, NoneAssumption
    DEF LandInv, QueueWaits, GateWaits, HandlerOwns, RecoveryOwns, TasksOwned,
       SliceIsCurrent, FixStamped, StackIsBase, PassIsFresh, LandsSettled, CanLand,
       GateDue, Settled, Terminal, taskVars, jobVars, trunkVars, execVars, queueVars,
       actorVars, ghostVars
<1>1. CASE GateExited(j, e, pass)
  BY SMTT(90), <1>1 DEF GateExited, GateRuns, Idle
<1>2. CASE GateLaunchExpired(j, e)
  BY <1>2 DEF GateLaunchExpired, Escalate, DropExec, GateRuns, Idle
<1> QED
  BY <1>1, <1>2

\* Steps that name no job.
LEMMA GlobalsLand ==
    ASSUME TypeOK, GateInv, GateSeesHead, LandInv, Safe,
           PumpHolds \/ PumpPops \/ Drain \/ OriginRelease \/ ReleaseMerged \/
           ReleaseClosed \/ FastForward \/ Crash
    PROVE  LandInv'
<1> USE Types, NoneAssumption
    DEF LandInv, QueueWaits, GateWaits, HandlerOwns, RecoveryOwns, TasksOwned,
       SliceIsCurrent, FixStamped, StackIsBase, PassIsFresh, LandsSettled, CanLand,
       GateDue, Settled, Terminal, taskVars, jobVars, trunkVars, execVars, queueVars,
       actorVars, ghostVars
<1>1. CASE PumpHolds
  BY <1>1 DEF PumpHolds, ReturnFrom
<1>2. CASE PumpPops
  <2>1. queue # << >> => /\ Head(queue) \in Jobs \cap ToSet(queue)
                           /\ Distinct(Tail(queue))
                           /\ ToSet(Tail(queue)) \subseteq ToSet(queue) \ {Head(queue)}
    BY Popped, Types
  <2> QED
    BY <1>2, <2>1 DEF PumpPops, GateInv, GateOwned
<1>3. CASE Drain
  BY <1>3 DEF Drain, Idle
<1>4. CASE OriginRelease
  BY <1>4 DEF OriginRelease, Idle
<1>5. CASE ReleaseMerged
  BY <1>5 DEF ReleaseMerged, Idle
<1>6. CASE ReleaseClosed
  BY <1>6 DEF ReleaseClosed, Idle
<1>7. CASE FastForward
  BY SMTT(30), <1>7 DEF FastForward, Idle
<1>8. CASE Crash
  <2>1. Distinct(<< >>) /\ ToSet(<< >>) = {}
    BY DEF Distinct, ToSet
  <2> QED
    BY <1>8, <2>1 DEF Crash, ReturnFrom, Safe
<1> QED
  BY <1>1, <1>2, <1>3, <1>4, <1>5, <1>6, <1>7, <1>8
--------------------------------------------------------------------------------
LEMMA NextLands ==
    ASSUME TypeOK, GateInv, GateSeesHead, LandInv, Safe, [Next]_vars
    PROVE  LandInv'
<1>1. CASE ActorStep
  BY <1>1, PhasesLand, EvaluationEnteredLand, FoldsLand, GatesLand, WorkLaunchedLand,
     RecoverWorkLand, RecoverEvaluationLand, RecoverWrapUpLand, GlobalsLand DEF ActorStep
<1>2. CASE Phases
  BY <1>2, WorkFinishedLand, EvalPassedLand, EvalFailedLand, PhaseEscalatedLand DEF Phases
<1>3. CASE GateExits \/ GateExpires
  BY <1>3, ExitsLand DEF GateExits, GateExpires
<1>4. CASE \E j \in Jobs : PublishExits(j)
  BY <1>4, PublishExitedLand DEF PublishExits
<1>5. CASE Operator
  BY <1>5, RetryWorkLand, OperatorsLand, GlobalsLand DEF Operator
<1>6. CASE Origin \/ Crash
  BY <1>6, GlobalsLand DEF Origin
<1>7. CASE UNCHANGED vars
  <2>1. UNCHANGED <<taskVars, jobVars, trunkVars, execVars, queueVars, actorVars,
                    ghostVars>>
    BY <1>7 DEF vars, jobVars
  <2> QED
    BY <2>1 DEF LandInv, QueueWaits, GateWaits, HandlerOwns, RecoveryOwns, TasksOwned,
       SliceIsCurrent, FixStamped, StackIsBase, PassIsFresh, LandsSettled, CanLand, GateDue,
       Settled, taskVars, jobVars, trunkVars, execVars, queueVars, actorVars, ghostVars
<1> QED
  BY <1>1, <1>2, <1>3, <1>4, <1>5, <1>6, <1>7 DEF Next

LEMMA InitLands == Init => LandInv
<1> SUFFICES ASSUME Init
             PROVE  LandInv
  OBVIOUS
<1>1. Distinct(queue) /\ ToSet(queue) = {}
  BY DEF Init, Distinct, ToSet
<1> QED
  BY <1>1, NoneAssumption DEF Init, LandInv, QueueWaits, GateWaits, HandlerOwns,
     RecoveryOwns, TasksOwned, SliceIsCurrent, FixStamped, StackIsBase, PassIsFresh,
     LandsSettled, Terminal
--------------------------------------------------------------------------------
\* The candidate of a gate was tested on the head it is promoted to; the fast path
\* trusts base_ref, which is where the branch was tested.
LEMMA LandedTested ==
    ASSUME TypeOK, LandInv, [Next]_vars, NEW j \in Gated, Lands(j)
    PROVE  verified'[j] = head
<1>1. /\ Next /\ j \in Jobs /\ head' # head
      /\ pc' = "landed" /\ pc # "landed" /\ cur' = j
  BY TypesAssumption DEF Lands, vars, trunkVars
<1>2. ASSUME NEW k \in Jobs, LandUngated(k)
      PROVE  verified'[j] = head
  <2>1. /\ k = j /\ pc = "start" /\ cur = j /\ jstate[j] = "WrapUp"
        /\ FastPath(j) /\ verified' = verified
    BY <1>1, <1>2 DEF LandUngated, Landing, actorVars
  <2>2. CanLand(j) /\ SliceIsCurrent /\ Settled(j)
    BY <1>1, <2>1 DEF LandInv, HandlerOwns, LandsSettled
  <2>3. execCycle[j] = cycle[j]
    BY <1>1, <2>1, <2>2 DEF CanLand, SliceIsCurrent
  <2>4. head \in Nat /\ base[j] \in Nat
    BY <1>1, Types
  <2> QED
    BY <2>1, <2>2, <2>3, <2>4 DEF Settled, GateDue, FastPath, ForceGate
<1>3. ASSUME NEW k \in Jobs, GatePassed(k)
      PROVE  verified'[j] = head
  <2>1. k = j /\ head = gate[j].oldHead
    BY <1>1, <1>3 DEF GatePassed, Reducing
  <2> QED
    BY <1>1, <1>3, <2>1, Types DEF GatePassed
<1> QED
  BY <1>1, <1>2, <1>3, HeadMoves DEF ReleaseMerged, FastForward, actorVars

\* Of a job type with gate evaluators, nothing reaches the default branch
\* whose checks have not passed on the very head it lands on: neither the fast
\* path, which trusts base_ref, nor the promote of a gate's candidate.
THEOREM LandsOnlyVerified ==
    ASSUME Safe
    PROVE  Spec => LandedIsVerified
<1>1. TypeOK /\ GateInv /\ GateSeesHead /\ LandInv /\ [Next]_vars => LandInv'
  BY NextLands
<1>2. TypeOK /\ LandInv /\ [Next]_vars => \A j \in Gated : Lands(j) => verified'[j] = head
  BY LandedTested
<1>3. Spec => []GateSeesHead
  BY PromotesOnSeenHead DEF Safe
<1>4. Spec => [](TypeOK /\ GateInv /\ GateSeesHead /\ LandInv)
  BY <1>1, <1>3, InitLands, TypeCorrect, GateInvHolds, PTL DEF Spec
<1> QED
  BY <1>2, <1>4, PTL DEF Spec, LandedIsVerified
--------------------------------------------------------------------------------
\* The branch is in the default branch, or has nothing on it.
In(j) == j \in landed \/ branch[j] = "empty"

\* A job that is done, or has got as far as its publish, has its work in.
WorkIsIn ==
    /\ \A j \in Jobs :
          /\ publish[j] # "none" => In(j) /\ workTask[j] # "running"
          /\ jstate[j] = "Done" /\ j \notin ScratchOnly => In(j)
          /\ jstate[j] = "Escalated" /\ retryAt[j] = "WrapUp" => In(j)
    /\ pc \in {"landed", "complete", "shipped"} => In(cur)
    /\ pc = "launch" => execCycle[cur] # cycle[cur]

\* A gate round is of a branch with work on it.
GateHasWork ==
    /\ \A j \in Jobs : gate[j] # None => branch[j] = "clean"
    /\ pc = "opening" => branch[cur] = "clean"

\* A job whose branch never lands is never landed, nor on a gate fix.
ScratchApart ==
    /\ \A j \in ScratchOnly :
          jstate[j] # "WrapUp" /\ ~fixTask[j] /\ ~execFix[j] /\ retryAt[j] # "WrapUp"
    /\ asFix => pc \in {"rebased", "pinned", "launch"}
    /\ asFix /\ pc = "launch" => cur \notin ScratchOnly

OutcomeInv == WorkIsIn /\ GateHasWork /\ ScratchApart

\* No refusal of git to advance the default branch is left unread, and no job is
\* worked on again in a cycle that has a publish task.
Sound == Faults \cap {"promote", "reworkInCycle"} = {}

LEMMA LandTypes ==
    ASSUME TypeOK
    PROVE  /\ branch \in [Jobs -> Branches] /\ landed \subseteq Jobs
           /\ execFix \in [Jobs -> BOOLEAN] /\ fixUsed \in [Jobs -> Nat]
           /\ asFix \in BOOLEAN
BY DEF TypeOK, JobsTyped, ExecTyped, GhostsTyped, ActorTyped

\* A phase that ends.
LEMMA PhasesOutcome ==
    ASSUME TypeOK, GateInv, GateSeesHead, LandInv, Sound, OutcomeInv, NEW j \in Jobs,
           \/ WorkFinished(j) \/ EvalPassed(j) \/ EvalFailed(j) \/ PhaseEscalated(j)
    PROVE  OutcomeInv'
<1>1. CASE WorkFinished(j)
  BY SMTT(30), <1>1, LandTypes, Types, NoneAssumption, TypesAssumption
  DEF OutcomeInv, WorkIsIn, GateHasWork, ScratchApart, In, Sound, LandInv, HandlerOwns,
     RecoveryOwns, TasksOwned, SliceIsCurrent, GateWaits, CanLand, Terminal, GateInv,
     GateOwned, LandingOwned, GateSeesHead, WorkFinished, AfterWork, FinalizePass,
     DropExec, execVars, Idle, Unverified, trunkVars
<1>2. CASE EvalPassed(j)
  <2>1. WorkIsIn'
    BY SMTT(30), <1>2, LandTypes, Types, NoneAssumption, TypesAssumption
    DEF OutcomeInv, WorkIsIn, GateHasWork, ScratchApart, In, Sound, LandInv,
       HandlerOwns, RecoveryOwns, TasksOwned, SliceIsCurrent, GateWaits, Terminal,
       GateInv, LandingOwned, GateSeesHead, EvalPassed, FinalizePass, DropExec,
       execVars, Idle, trunkVars
  <2>2. GateHasWork'
    BY SMTT(30), <1>2, LandTypes, Types, NoneAssumption, TypesAssumption
    DEF OutcomeInv, WorkIsIn, GateHasWork, ScratchApart, In, Sound, LandInv,
       HandlerOwns, RecoveryOwns, TasksOwned, SliceIsCurrent, GateWaits, Terminal,
       GateInv, LandingOwned, GateSeesHead, EvalPassed, FinalizePass, DropExec,
       execVars, Idle, trunkVars
  <2>3. ScratchApart'
    BY SMTT(30), <1>2, LandTypes, Types, NoneAssumption, TypesAssumption
    DEF OutcomeInv, WorkIsIn, GateHasWork, ScratchApart, In, Sound, LandInv,
       HandlerOwns, RecoveryOwns, TasksOwned, SliceIsCurrent, GateWaits, Terminal,
       GateInv, LandingOwned, GateSeesHead, EvalPassed, FinalizePass, DropExec,
       execVars, Idle, trunkVars
  <2> QED
    BY <2>1, <2>2, <2>3 DEF OutcomeInv
<1>3. CASE EvalFailed(j)
  BY SMTT(90), <1>3, LandTypes, Types, NoneAssumption, TypesAssumption
  DEF OutcomeInv, WorkIsIn, GateHasWork, ScratchApart, In, Sound, LandInv, HandlerOwns,
     RecoveryOwns, TasksOwned, SliceIsCurrent, GateWaits, CanLand, Terminal, GateInv,
     GateOwned, GateSeesHead, EvalFailed, EvalRework, LaunchWork, taskVars, Idle,
     actorVars, ghostVars, queueVars, trunkVars
<1>4. CASE PhaseEscalated(j)
  BY SMTT(30), <1>4, LandTypes, Types, NoneAssumption, TypesAssumption
  DEF OutcomeInv, WorkIsIn, GateHasWork, ScratchApart, In, LandInv, TasksOwned,
     PhaseEscalated, DropExec, Escalate, Idle, actorVars, ghostVars
<1> QED
  BY <1>1, <1>2, <1>3, <1>4

LEMMA EvaluationsOutcome ==
    ASSUME TypeOK, GateInv, GateSeesHead, LandInv, Sound, OutcomeInv, NEW j \in Jobs,
           \/ EvaluationHeld(j) \/ EvaluationEntered(j) \/ EvaluatorsLaunched(j)
    PROVE  OutcomeInv'
<1>1. CASE EvaluationHeld(j)
  BY SMTT(30), <1>1, LandTypes, Types, NoneAssumption, TypesAssumption
  DEF OutcomeInv, WorkIsIn, GateHasWork, ScratchApart, In, Sound, LandInv, HandlerOwns,
     RecoveryOwns, TasksOwned, SliceIsCurrent, GateWaits, CanLand, Terminal, GateInv,
     GateOwned, LandingOwned, GateSeesHead, EvaluationHeld, ReturnFrom, execVars,
     ghostVars, jobVars, taskVars, queueVars, trunkVars
<1>2. CASE EvaluationEntered(j)
  BY SMTT(30), <1>2, LandTypes, Types, NoneAssumption, TypesAssumption
  DEF OutcomeInv, WorkIsIn, GateHasWork, ScratchApart, In, EvaluationEntered, execVars,
     taskVars
<1>3. CASE EvaluatorsLaunched(j)
  BY SMTT(30), <1>3, LandTypes, Types, NoneAssumption, TypesAssumption
  DEF OutcomeInv, WorkIsIn, GateHasWork, ScratchApart, In, GateSeesHead,
     EvaluatorsLaunched, ReturnFrom, execVars, ghostVars, trunkVars
<1> QED
  BY <1>1, <1>2, <1>3

\* The landing: it lands what is on the branch, or sends it to the gate.
LEMMA LandingsOutcome ==
    ASSUME TypeOK, GateInv, GateSeesHead, LandInv, Sound, OutcomeInv, NEW j \in Jobs,
           \/ LandingRefused(j) \/ LandingError(j) \/ LandNothing(j) \/ LandUngated(j)
           \/ LandingUnread(j) \/ SquashConflict(j) \/ OpenGate(j)
    PROVE  OutcomeInv'
<1>1. CASE LandingRefused(j)
  BY SMTT(30), <1>1, LandTypes, Types, NoneAssumption, TypesAssumption
  DEF OutcomeInv, WorkIsIn, GateHasWork, ScratchApart, In, LandingRefused,
     LandingEscalates, DropExec, Escalate, ghostVars, taskVars
<1>2. CASE LandingError(j)
  BY SMTT(30), <1>2, LandTypes, Types, NoneAssumption, TypesAssumption
  DEF OutcomeInv, WorkIsIn, GateHasWork, ScratchApart, In, LandingError,
     LandingEscalates, DropExec, Escalate, ghostVars, taskVars
<1>3. CASE LandNothing(j)
  BY SMTT(30), <1>3, LandTypes, Types, NoneAssumption, TypesAssumption
  DEF OutcomeInv, WorkIsIn, GateHasWork, ScratchApart, In, LandNothing, Landing,
     execVars, ghostVars, jobVars, taskVars
<1>4. CASE LandUngated(j)
  BY SMTT(30), <1>4, LandTypes, Types, NoneAssumption, TypesAssumption
  DEF OutcomeInv, WorkIsIn, GateHasWork, ScratchApart, In, LandUngated, Land, Landing,
     execVars, jobVars, taskVars
<1>5. CASE LandingUnread(j)
  BY SMTT(30), <1>5, LandTypes, Types, NoneAssumption, TypesAssumption
  DEF Sound, LandingUnread
<1>6. CASE SquashConflict(j)
  BY SMTT(30), <1>6, LandTypes, Types, NoneAssumption, TypesAssumption
  DEF OutcomeInv, WorkIsIn, GateHasWork, ScratchApart, In, Sound, LandInv, HandlerOwns,
     RecoveryOwns, TasksOwned, SliceIsCurrent, GateWaits, CanLand, Terminal, GateInv,
     GateOwned, LandingOwned, GateSeesHead, SquashConflict, Landing, RebaseOnto,
     Unverified, execVars, taskVars, trunkVars
<1>7. CASE OpenGate(j)
  BY SMTT(30), <1>7, LandTypes, Types, NoneAssumption, TypesAssumption
  DEF OutcomeInv, WorkIsIn, GateHasWork, ScratchApart, In, OpenGate, Landing, execVars,
     ghostVars, jobVars, taskVars
<1> QED
  BY <1>1, <1>2, <1>3, <1>4, <1>5, <1>6, <1>7

LEMMA GatesOutcome ==
    ASSUME TypeOK, GateInv, GateSeesHead, LandInv, Sound, OutcomeInv, NEW j \in Jobs,
           \/ GateOpened(j) \/ GateLaunchError(j) \/ GatePassed(j) \/ GateFailed(j)
           \/ \E e \in Evals : GateLaunchExpired(j, e)
    PROVE  OutcomeInv'
<1>1. CASE GateOpened(j)
  BY SMTT(30), <1>1, LandTypes, Types, NoneAssumption, TypesAssumption
  DEF OutcomeInv, WorkIsIn, GateHasWork, ScratchApart, In, GateOpened, ReturnFrom,
     ghostVars, jobVars, taskVars, trunkVars
<1>2. CASE GateLaunchError(j)
  BY SMTT(30), <1>2, LandTypes, Types, NoneAssumption, TypesAssumption
  DEF OutcomeInv, WorkIsIn, GateHasWork, ScratchApart, In, GateLaunchError,
     LandingEscalates, DropExec, Escalate, ghostVars, taskVars
<1>3. CASE GatePassed(j)
  BY SMTT(90), <1>3, LandTypes, Types, NoneAssumption, TypesAssumption
  DEF OutcomeInv, WorkIsIn, GateHasWork, ScratchApart, In, Sound, LandInv, HandlerOwns,
     RecoveryOwns, SliceIsCurrent, GateWaits, CanLand, Terminal, GateInv, GateOwned,
     LandingOwned, GateSeesHead, GatePassed, Land, Reducing, jobVars, taskVars
<1>4. CASE GateFailed(j)
  BY SMTT(30), <1>4, LandTypes, Types, NoneAssumption, TypesAssumption
  DEF OutcomeInv, WorkIsIn, GateHasWork, ScratchApart, In, GateFailed, RebaseOnto,
     Reducing, taskVars
<1>5. CASE \E e \in Evals : GateLaunchExpired(j, e)
  BY SMTT(30), <1>5, LandTypes, Types, NoneAssumption, TypesAssumption
  DEF OutcomeInv, WorkIsIn, GateHasWork, ScratchApart, In, Sound, LandInv, HandlerOwns,
     RecoveryOwns, TasksOwned, SliceIsCurrent, GateWaits, CanLand, Terminal, GateInv,
     GateOwned, LandingOwned, GateSeesHead, GateLaunchExpired, DropExec, Escalate,
     GateRuns, Idle, actorVars, ghostVars, queueVars, taskVars, trunkVars
<1> QED
  BY <1>1, <1>2, <1>3, <1>4, <1>5

LEMMA ReworksOutcome ==
    ASSUME TypeOK, GateInv, GateSeesHead, LandInv, Sound, OutcomeInv, NEW j \in Jobs,
           \/ PinBase(j) \/ WorkEntryRefused(j) \/ WorkEntered(j)
    PROVE  OutcomeInv'
<1>1. CASE PinBase(j)
  BY SMTT(30), <1>1, LandTypes, Types, NoneAssumption, TypesAssumption
  DEF OutcomeInv, WorkIsIn, GateHasWork, ScratchApart, In, GateWaits, LandingOwned,
     PinBase, ghostVars, taskVars
<1>2. CASE WorkEntryRefused(j)
  BY SMTT(30), <1>2, LandTypes, Types, NoneAssumption, TypesAssumption
  DEF OutcomeInv, WorkIsIn, GateHasWork, ScratchApart, In, WorkEntryRefused, Escalate,
     execVars, ghostVars, taskVars
<1>3. CASE WorkEntered(j)
  BY SMTT(30), <1>3, LandTypes, Types, NoneAssumption, TypesAssumption
  DEF OutcomeInv, WorkIsIn, GateHasWork, ScratchApart, In, LandInv, HandlerOwns,
     SliceIsCurrent, CanLand, WorkEntered, ghostVars, taskVars
<1> QED
  BY <1>1, <1>2, <1>3

\* The publish ships what has landed.
LEMMA ShippingsOutcome ==
    ASSUME TypeOK, GateInv, GateSeesHead, LandInv, Sound, OutcomeInv, NEW j \in Jobs,
           \/ Landed(j) \/ Completed(j) \/ \E pass \in BOOLEAN : PublishExited(j, pass)
    PROVE  OutcomeInv'
<1>1. CASE Landed(j)
  BY SMTT(30), <1>1, LandTypes, Types, NoneAssumption, TypesAssumption
  DEF OutcomeInv, WorkIsIn, GateHasWork, ScratchApart, In, LandInv, HandlerOwns,
     TasksOwned, CanLand, Terminal, GateOwned, Landed, execVars, ghostVars
<1>2. CASE Completed(j)
  BY SMTT(30), <1>2, LandTypes, Types, NoneAssumption, TypesAssumption
  DEF OutcomeInv, WorkIsIn, GateHasWork, ScratchApart, In, Completed, DropExec,
     ReturnFrom, ghostVars, taskVars
<1>3. CASE \E pass \in BOOLEAN : PublishExited(j, pass)
  BY SMTT(30), <1>3, LandTypes, Types, NoneAssumption, TypesAssumption
  DEF OutcomeInv, WorkIsIn, GateHasWork, ScratchApart, In, Sound, LandInv, TasksOwned,
     GateWaits, Terminal, GateInv, GateOwned, GateSeesHead, PublishExited, DropExec,
     Escalate, Idle, execVars, ghostVars
<1> QED
  BY <1>1, <1>2, <1>3

LEMMA OperatorsOutcome ==
    ASSUME TypeOK, GateInv, GateSeesHead, LandInv, Sound, OutcomeInv, NEW j \in Jobs,
           \/ RetryWork(j) \/ RetryPublish(j) \/ Revoke(j)
    PROVE  OutcomeInv'
<1>1. CASE RetryWork(j)
  BY SMTT(90), <1>1, LandTypes, Types, NoneAssumption, TypesAssumption
  DEF OutcomeInv, WorkIsIn, GateHasWork, ScratchApart, In, Sound, LandInv, HandlerOwns,
     RecoveryOwns, SliceIsCurrent, GateWaits, CanLand, Terminal, GateInv, GateOwned,
     RetryWork, EnsureExec, execVars, Idle, LaunchWork, taskVars, actorVars, ghostVars,
     queueVars, trunkVars
<1>2. CASE RetryPublish(j)
  <2>1. WorkIsIn'
    BY SMTT(30), <1>2, LandTypes, Types, NoneAssumption, TypesAssumption
    DEF OutcomeInv, WorkIsIn, GateHasWork, ScratchApart, In, Sound, LandInv,
       HandlerOwns, RecoveryOwns, TasksOwned, SliceIsCurrent, GateWaits, CanLand,
       Terminal, GateInv, GateOwned, LandingOwned, GateSeesHead, RetryPublish,
       EnsureExec, execVars, Idle, actorVars, ghostVars, queueVars, trunkVars
  <2>2. GateHasWork'
    BY SMTT(30), <1>2, LandTypes, Types, NoneAssumption, TypesAssumption
    DEF OutcomeInv, WorkIsIn, GateHasWork, ScratchApart, In, Sound, LandInv,
       HandlerOwns, RecoveryOwns, TasksOwned, SliceIsCurrent, GateWaits, CanLand,
       Terminal, GateInv, GateOwned, LandingOwned, GateSeesHead, RetryPublish,
       EnsureExec, execVars, Idle, actorVars, ghostVars, queueVars, trunkVars
  <2>3. ScratchApart'
    BY SMTT(30), <1>2, LandTypes, Types, NoneAssumption, TypesAssumption
    DEF OutcomeInv, WorkIsIn, GateHasWork, ScratchApart, In, Sound, LandInv,
       HandlerOwns, RecoveryOwns, TasksOwned, SliceIsCurrent, GateWaits, CanLand,
       Terminal, GateInv, GateOwned, LandingOwned, GateSeesHead, RetryPublish,
       EnsureExec, execVars, Idle, actorVars, ghostVars, queueVars, trunkVars
  <2> QED
    BY <2>1, <2>2, <2>3 DEF OutcomeInv
<1>3. CASE Revoke(j)
  BY SMTT(30), <1>3, LandTypes, Types, NoneAssumption, TypesAssumption
  DEF OutcomeInv, WorkIsIn, GateHasWork, ScratchApart, In, TasksOwned, GateInv, Revoke,
     DropExec, Idle, taskVars
<1> QED
  BY <1>1, <1>2, <1>3

\* The pump, the drain, the origin, and a crash.
LEMMA GlobalsOutcome ==
    ASSUME TypeOK, GateInv, GateSeesHead, LandInv, Sound, OutcomeInv,
           \/ PumpHolds \/ PumpPops \/ Drain \/ OriginRelease \/ ReleaseMerged
           \/ ReleaseClosed \/ FastForward \/ Crash \/ UNCHANGED vars
    PROVE  OutcomeInv'
<1>1. CASE PumpHolds
  BY SMTT(30), <1>1, LandTypes, Types, NoneAssumption, TypesAssumption
  DEF OutcomeInv, WorkIsIn, GateHasWork, ScratchApart, In, PumpHolds, ReturnFrom,
     execVars, ghostVars, jobVars, taskVars
<1>2. CASE PumpPops
  BY SMTT(30), <1>2, LandTypes, Types, NoneAssumption, TypesAssumption
  DEF OutcomeInv, WorkIsIn, GateHasWork, ScratchApart, In, PumpPops, execVars,
     ghostVars, jobVars, taskVars
<1>3. CASE Drain
  BY SMTT(30), <1>3, LandTypes, Types, NoneAssumption, TypesAssumption
  DEF OutcomeInv, WorkIsIn, GateHasWork, ScratchApart, In, Drain, actorVars, execVars,
     ghostVars, jobVars, taskVars
<1>4. CASE OriginRelease
  BY SMTT(30), <1>4, LandTypes, Types, NoneAssumption, TypesAssumption
  DEF OutcomeInv, WorkIsIn, GateHasWork, ScratchApart, In, OriginRelease, actorVars,
     execVars, ghostVars, jobVars, taskVars
<1>5. CASE ReleaseMerged
  BY SMTT(30), <1>5, LandTypes, Types, NoneAssumption, TypesAssumption
  DEF OutcomeInv, WorkIsIn, GateHasWork, ScratchApart, In, ReleaseMerged, Idle,
     execVars, ghostVars, jobVars, taskVars
<1>6. CASE ReleaseClosed
  BY SMTT(30), <1>6, LandTypes, Types, NoneAssumption, TypesAssumption
  DEF OutcomeInv, WorkIsIn, GateHasWork, ScratchApart, In, ReleaseClosed, Idle,
     execVars, ghostVars, jobVars, taskVars
<1>7. CASE FastForward
  BY SMTT(30), <1>7, LandTypes, Types, NoneAssumption, TypesAssumption
  DEF OutcomeInv, WorkIsIn, GateHasWork, ScratchApart, In, FastForward, actorVars,
     execVars, ghostVars, jobVars, taskVars
<1>8. CASE Crash
  BY SMTT(30), <1>8, LandTypes, Types, NoneAssumption, TypesAssumption
  DEF OutcomeInv, WorkIsIn, GateHasWork, ScratchApart, In, Crash, ReturnFrom, ghostVars,
     jobVars, taskVars
<1>9. CASE UNCHANGED vars
  BY <1>9
  DEF OutcomeInv, WorkIsIn, GateHasWork, ScratchApart, In, vars, jobVars, taskVars,
     execVars, actorVars, ghostVars
<1> QED
  BY <1>1, <1>2, <1>3, <1>4, <1>5, <1>6, <1>7, <1>8, <1>9

\* The restart's handlers on the outcome: a failed work task is relaunched only
\* in a cycle without a publish task.
LEMMA RecoverWorkOutcome ==
    ASSUME TypeOK, LandInv, Sound, OutcomeInv, NEW j \in Jobs, RecoverWork(j)
    PROVE  OutcomeInv'
<1>1. WorkRecovered(j) /\ Nowhere(j)
  BY RecoveredWork, FromNowhere DEF LandInv, WorkRecovered
<1>2. /\ branch' = branch /\ landed' = landed
      /\ \A k \in Jobs \ {j} : retryAt'[k] = retryAt[k]
      /\ jstate'[j] = "Escalated" => retryAt'[j] = "Work"
  BY <1>1, Types DEF WorkRecovered, RecoverWork, Escalate, jobVars, ghostVars
<1>3. WorkIsIn'
  <2>1. workTask'[j] = workTask[j] \/ publish[j] = "none"
    BY DEF RecoverWork, Sound, jobVars, taskVars
  <2> QED
    BY <1>1, <1>2, <2>1 DEF WorkRecovered, OutcomeInv, WorkIsIn, In
<1>4. GateHasWork'
  BY <1>1, <1>2, Types DEF WorkRecovered, Nowhere, OutcomeInv, GateHasWork
<1>5. ScratchApart'
  <2>1. asFix' = asFix /\ ~asFix
    BY <1>1 DEF OutcomeInv, ScratchApart, Nowhere, WorkRecovered, Recovering
  <2>2. \A k \in Jobs : fixTask'[k] = fixTask[k] \/ ~fixTask'[k]
    BY ZenonT(60), <1>1, Launched DEF WorkRecovered, Nowhere, taskVars
  <2>3. \A k \in Jobs : execFix'[k] = execFix[k] \/ ~execFix'[k]
    BY LandTypes DEF RecoverWork, EnsureExec, DropExec, execVars
  <2>4. \A k \in Jobs : /\ retryAt'[k] = retryAt[k] \/ retryAt'[k] = "Work"
                        /\ jstate'[k] = jstate[k] \/ jstate'[k] # "WrapUp"
    BY Types DEF RecoverWork, Escalate, jobVars
  <2> QED
    BY <2>1, <2>2, <2>3, <2>4, TypesAssumption DEF OutcomeInv, ScratchApart
<1> QED
  BY <1>3, <1>4, <1>5 DEF OutcomeInv

LEMMA RecoverEvaluationOutcome ==
    ASSUME TypeOK, LandInv, Sound, OutcomeInv, NEW j \in Jobs, RecoverEvaluation(j)
    PROVE  OutcomeInv'
<1>1. EvaluationRecovered(j) /\ Nowhere(j)
  BY RecoveredEvaluation, FromNowhere DEF LandInv, EvaluationRecovered
<1>2. /\ branch' = branch /\ landed' = landed /\ pc' \in {"pump", "idle", "recover"}
      /\ asFix' = asFix
  BY <1>1 DEF EvaluationRecovered, RecoverEvaluation, RecoveredPass, Escalate, Recovering,
     ReturnFrom, jobVars, ghostVars
<1>3. gate'[j] = None /\ \A k \in Jobs \ {j} : gate'[k] = gate[k]
  BY <1>1, Types DEF Nowhere, RecoverEvaluation, RecoveredPass, EnsureExec, DropExec
<1>4. /\ \A k \in Jobs : retryAt'[k] = retryAt[k] \/ retryAt'[k] = "Evaluation"
      /\ jstate'[j] = "Escalated" => retryAt'[j] = "Evaluation"
      /\ jstate'[j] = "Done" => j \in ScratchOnly
      /\ jstate'[j] = "WrapUp" => j \notin ScratchOnly
  BY <1>1, Types DEF EvaluationRecovered, RecoverEvaluation, RecoveredPass, Escalate
<1>5. /\ UNCHANGED <<publish, workTask>> \/ publish'[j] = "none"
      /\ \A k \in Jobs : fixTask'[k] = fixTask[k] \/ ~fixTask'[k]
  <2>1. CASE LaunchWork(j, cycle[j] + 1, FALSE)
    BY <1>1, <2>1, Types, Launched DEF LaunchWork, EvaluationRecovered, taskVars
  <2> QED
    BY <2>1 DEF RecoverEvaluation, RecoveredPass, taskVars
<1>6. WorkIsIn'
  BY <1>1, <1>2, <1>4, <1>5 DEF EvaluationRecovered, OutcomeInv, WorkIsIn, In
<1>7. GateHasWork'
  BY <1>3, <1>2 DEF OutcomeInv, GateHasWork
<1>8. ScratchApart'
  <2>1. \A k \in Jobs : execFix'[k] = execFix[k] \/ ~execFix'[k]
    BY LandTypes DEF RecoverEvaluation, RecoveredPass, EnsureExec, DropExec, execVars
  <2>2. ~asFix /\ \A k \in Jobs \ {j} : jstate'[k] = jstate[k]
    BY <1>1 DEF EvaluationRecovered, Nowhere, OutcomeInv, ScratchApart
  <2> QED
    BY <1>2, <1>4, <1>5, <2>1, <2>2, TypesAssumption DEF OutcomeInv, ScratchApart
<1> QED
  BY <1>6, <1>7, <1>8 DEF OutcomeInv

LEMMA RecoverWrapUpOutcome ==
    ASSUME TypeOK, LandInv, Sound, OutcomeInv, NEW j \in Jobs, RecoverWrapUp(j)
    PROVE  OutcomeInv'
<1>1. WrapUpRecovered(j) /\ Nowhere(j)
  BY RecoveredWrapUp, FromNowhere DEF LandInv, WrapUpRecovered
<1>2. /\ branch' = branch /\ landed' = landed
      /\ \A k \in Jobs \ {j} : retryAt'[k] = retryAt[k]
  BY Types DEF RecoverWrapUp, Escalate, jobVars, ghostVars
<1>3. WorkIsIn'
  <2>1. pc' = "shipped" => publish[j] = "done"
    BY DEF RecoverWrapUp, ReturnFrom
  <2> QED
    BY <1>1, <1>2, <2>1 DEF WrapUpRecovered, OutcomeInv, WorkIsIn, In
<1>4. GateHasWork'
  BY <1>1, <1>2, Types DEF WrapUpRecovered, Nowhere, OutcomeInv, GateHasWork
<1>5. ScratchApart'
  <2>1. ~asFix /\ j \notin ScratchOnly
    BY <1>1 DEF OutcomeInv, ScratchApart, Nowhere, WrapUpRecovered
  <2>4. asFix' = asFix /\ fixTask' = fixTask
    BY DEF RecoverWrapUp, Recovering, jobVars, taskVars
  <2>2. \A k \in Jobs : execFix'[k] = execFix[k] \/ ~execFix'[k]
    BY LandTypes DEF RecoverWrapUp, EnsureExec, DropExec, execVars
  <2>3. \A k \in Jobs \ {j} : jstate'[k] = jstate[k]
    BY <1>1 DEF WrapUpRecovered
  <2> QED
    BY <1>2, <2>1, <2>2, <2>3, <2>4, TypesAssumption DEF OutcomeInv, ScratchApart
<1> QED
  BY <1>3, <1>4, <1>5 DEF OutcomeInv

\* A gate fix is launched for a job whose branch lands.
LEMMA WorkLaunchedOutcome ==
    ASSUME TypeOK, LandInv, Sound, OutcomeInv, NEW j \in Jobs, WorkLaunched(j)
    PROVE  OutcomeInv'
<1>1. /\ pc = "launch" /\ cur = j /\ asFix' = FALSE /\ LaunchWork(j, execCycle[j], asFix)
      /\ pc' # "launch" /\ pc' \notin {"landed", "complete", "shipped", "opening"}
      /\ UNCHANGED <<jstate, retryAt, execFix, branch, landed, gate>>
      /\ execCycle[j] \in Nat /\ asFix \in BOOLEAN
  BY Types, LandTypes DEF WorkLaunched, execVars, ghostVars
<1>2. /\ \A k \in Jobs \ {j} : /\ fixTask'[k] = fixTask[k] /\ publish'[k] = publish[k]
                               /\ workTask'[k] = workTask[k]
      /\ fixTask'[j] = fixTask[j] \/ (fixTask'[j] <=> asFix)
      /\ execCycle[j] # cycle[j] => publish'[j] = "none" \/ UNCHANGED <<publish, workTask>>
  BY <1>1, Types, Launched DEF WorkLaunched, LaunchWork, taskVars
<1>3. WorkIsIn'
  BY <1>1, <1>2 DEF OutcomeInv, WorkIsIn, In
<1>4. GateHasWork'
  BY <1>1 DEF OutcomeInv, GateHasWork
<1>5. ScratchApart'
  BY <1>1, <1>2, TypesAssumption DEF OutcomeInv, ScratchApart
<1> QED
  BY <1>3, <1>4, <1>5 DEF OutcomeInv

LEMMA ReEvaluateOutcome ==
    ASSUME TypeOK, LandInv, Sound, OutcomeInv, NEW j \in Jobs, ReEvaluate(j)
    PROVE  OutcomeInv'
<1>1. /\ pc = "idle" /\ pc' \notin {"landed", "complete", "shipped", "launch", "opening"}
      /\ asFix' = asFix /\ UNCHANGED <<jstate, retryAt, fixTask, branch, landed, publish, workTask>>
  BY DEF ReEvaluate, Idle, jobVars, taskVars, ghostVars
<1>2. WorkIsIn'
  BY <1>1 DEF OutcomeInv, WorkIsIn, In
<1>3. GateHasWork'
  <2>1. \A k \in Jobs : gate'[k] = gate[k] \/ gate'[k] = None
    BY Types DEF ReEvaluate, EnsureExec, execVars
  <2> QED
    BY <1>1, <2>1 DEF OutcomeInv, GateHasWork
<1>4. ScratchApart'
  <2>1. \A k \in Jobs : execFix'[k] = execFix[k] \/ ~execFix'[k]
    BY LandTypes DEF ReEvaluate, EnsureExec, execVars
  <2> QED
    BY <1>1, <2>1, TypesAssumption DEF OutcomeInv, ScratchApart
<1> QED
  BY <1>2, <1>3, <1>4 DEF OutcomeInv

LEMMA GateExitedOutcome ==
    ASSUME TypeOK, OutcomeInv, NEW j \in Jobs, NEW e \in Evals, NEW pass \in BOOLEAN,
           GateExited(j, e, pass)
    PROVE  OutcomeInv'
<1>1. /\ pc = "idle" /\ pc' \in {"idle", "reduce"} /\ gate[j] # None
      /\ UNCHANGED <<jstate, retryAt, publish, workTask, fixTask, execFix, asFix>>
      /\ UNCHANGED <<branch, landed>>
  BY DEF GateExited, GateRuns, Idle, jobVars, taskVars, ghostVars
<1>2. \A k \in Jobs \ {j} : gate'[k] = gate[k]
  BY Types DEF GateExited
<1>3. WorkIsIn'
  BY <1>1 DEF OutcomeInv, WorkIsIn, In
<1>4. GateHasWork'
  BY <1>1, <1>2 DEF OutcomeInv, GateHasWork
<1>5. ScratchApart'
  BY <1>1 DEF OutcomeInv, ScratchApart
<1> QED
  BY <1>3, <1>4, <1>5 DEF OutcomeInv

LEMMA NextOutcome ==
    ASSUME TypeOK, GateInv, GateSeesHead, LandInv, Sound, OutcomeInv, [Next]_vars
    PROVE  OutcomeInv'
<1>1. CASE ActorStep
  BY <1>1, EvaluationsOutcome, LandingsOutcome, GatesOutcome, ReworksOutcome,
     WorkLaunchedOutcome, ShippingsOutcome, RecoverWorkOutcome, RecoverEvaluationOutcome,
     RecoverWrapUpOutcome, GlobalsOutcome DEF ActorStep
<1>2. CASE Phases
  BY <1>2, PhasesOutcome DEF Phases
<1>3. CASE GateExits \/ GateExpires \/ \E j \in Jobs : PublishExits(j)
  BY <1>3, GatesOutcome, GateExitedOutcome, ShippingsOutcome DEF GateExits, GateExpires, PublishExits
<1>4. CASE Operator
  BY <1>4, OperatorsOutcome, ReEvaluateOutcome, GlobalsOutcome DEF Operator
<1>5. CASE Origin \/ Crash \/ UNCHANGED vars
  BY <1>5, GlobalsOutcome DEF Origin
<1> QED
  BY <1>1, <1>2, <1>3, <1>4, <1>5 DEF Next

LEMMA InitOutcome == Init => OutcomeInv
<1> SUFFICES ASSUME Init
             PROVE  OutcomeInv
  OBVIOUS
<1>1. WorkIsIn
  BY DEF Init, WorkIsIn, In
<1>2. GateHasWork
  BY DEF Init, GateHasWork
<1>3. ScratchApart
  BY TypesAssumption DEF Init, ScratchApart
<1> QED
  BY <1>1, <1>2, <1>3 DEF OutcomeInv

LEMMA OutcomeHolds ==
    ASSUME Safe, Sound
    PROVE  Spec => [](TypeOK /\ GateInv /\ GateSeesHead /\ LandInv /\ OutcomeInv)
<1>1. TypeOK /\ GateInv /\ GateSeesHead /\ LandInv /\ [Next]_vars => LandInv'
  BY NextLands
<1>2. TypeOK /\ GateInv /\ GateSeesHead /\ LandInv /\ OutcomeInv /\ [Next]_vars => OutcomeInv'
  BY NextOutcome
<1>3. Spec => []GateSeesHead
  BY PromotesOnSeenHead DEF Safe
<1> QED
  BY <1>1, <1>2, <1>3, InitLands, InitOutcome, TypeCorrect, GateInvHolds, PTL DEF Spec

\* A job that is done, and whose branch is meant to land, has its work in the
\* default branch, or had none: no crash, conflict, failed gate, revoked publish or
\* operator's retry ends it in any other way.
THEOREM DoneIsLanded ==
    ASSUME Safe, Sound
    PROVE  Spec => []DoneMeansLanded
<1>1. OutcomeInv => DoneMeansLanded
  BY TypesAssumption DEF OutcomeInv, WorkIsIn, In, DoneMeansLanded
<1> QED
  BY <1>1, OutcomeHolds, PTL
--------------------------------------------------------------------------------
\* The steps of the promise, in the terms of the pipeline.
Work == {j \in Jobs : branch[j] # "empty"}
Finished == {j \in Jobs : jstate[j] = "Done"}

LEMMA Changes ==
    ASSUME TypeOK, NEW j \in Jobs, jstate[j] # "Done",
           \A k \in Jobs : jstate'[k] = "Done" <=> jstate[k] = "Done",
           \A k \in Jobs \ {j} : branch'[k] = branch[k],
           landed' \in {landed, landed \ {j}},
           verified' = [verified EXCEPT ![j] = Unverified], head' = head, held' = held
    PROVE  Promise!Next
<1>1. Work' \in {Work, Work \cup {j}, Work \ {j}}
  BY DEF Work
<1>2. Finished' = Finished /\ j \notin Finished
  BY DEF Finished
<1>3. Promise!Change(j)
  BY <1>1, <1>2 DEF Promise!Change, Promise!Untested, Unverified, Work, Finished
<1> QED
  BY <1>3 DEF Promise!Next

LEMMA Tests ==
    ASSUME TypeOK, NEW j \in Jobs, NEW p \in 0 .. head,
           \A k \in Jobs : jstate'[k] = "Done" <=> jstate[k] = "Done",
           verified' = [verified EXCEPT ![j] = p],
           UNCHANGED <<branch, landed, head, held>>
    PROVE  Promise!Next
<1>1. Finished' = Finished /\ Work' = Work
  BY DEF Finished, Work
<1>2. Promise!Test(j)
  BY <1>1 DEF Promise!Test, Work, Finished
<1> QED
  BY <1>2 DEF Promise!Next

LEMMA LandsIn ==
    ASSUME TypeOK, NEW j \in Jobs, ~held, jstate[j] # "Done", branch[j] # "empty",
           j \notin ScratchOnly,
           verified' \in {verified, [verified EXCEPT ![j] = head]},
           j \in Gated => verified'[j] = head,
           head' = head + 1, landed' = landed \cup {j}, UNCHANGED <<jstate, branch, held>>
    PROVE  Promise!Next
<1>1. Finished' = Finished /\ Work' = Work /\ j \notin Finished /\ j \in Work
  BY DEF Finished, Work
<1>2. Promise!Land(j)
  BY <1>1 DEF Promise!Land, Work, Finished
<1> QED
  BY <1>2 DEF Promise!Next

LEMMA Finishes ==
    ASSUME TypeOK, NEW j \in Jobs, jstate'[j] = "Done",
           j \in landed \/ branch[j] = "empty" \/ j \in ScratchOnly,
           \A k \in Jobs \ {j} : jstate'[k] = jstate[k],
           \/ verified' = verified
           \/ j \in ScratchOnly /\ \E p \in 0 .. head : verified' = [verified EXCEPT ![j] = p],
           UNCHANGED <<branch, landed, head, held>>
    PROVE  Promise!Next
<1>1. Finished' = Finished \cup {j} /\ Work' = Work /\ (j \notin Work <=> branch[j] = "empty")
  BY DEF Finished, Work
<1>2. Promise!Finish(j)
  BY <1>1 DEF Promise!Finish, Work, Finished
<1> QED
  BY <1>2 DEF Promise!Next

LEMMA Stutters ==
    ASSUME TypeOK, \A k \in Jobs : jstate'[k] = "Done" <=> jstate[k] = "Done",
           UNCHANGED <<branch, landed, verified, head, held>>
    PROVE  UNCHANGED Promise!vars
<1>1. Finished' = Finished /\ Work' = Work
  BY DEF Finished, Work
<1> QED
  BY <1>1 DEF Promise!vars, Work, Finished

\* The branch changes.
LEMMA ChangeSteps ==
    ASSUME TypeOK, GateInv, LandInv, ScratchApart, NEW j \in Jobs,
           \/ WorkFinished(j) \/ EvaluationEntered(j) \/ SquashConflict(j)
           \/ GateFailed(j) \/ Revoke(j)
    PROVE  Promise!Next
<1>1. jstate[j] # "Done"
  BY DEF WorkFinished, EvaluationEntered, SquashConflict, Landing, GateFailed, Reducing,
     Revoke, LandInv, HandlerOwns, CanLand, Terminal
<1>2. /\ verified' = [verified EXCEPT ![j] = Unverified] /\ landed' \in {landed, landed \ {j}}
      /\ head' = head /\ held' = held
  BY DEF WorkFinished, EvaluationEntered, SquashConflict, GateFailed, Revoke, RebaseOnto,
     trunkVars
<1>3. \A k \in Jobs \ {j} : branch'[k] = branch[k]
  BY LandTypes DEF WorkFinished, EvaluationEntered, SquashConflict, GateFailed, Revoke, RebaseOnto
<1>4. jstate' = jstate \/ \E s \in {"WrapUp", "Evaluation", "Revoked"} :
                            jstate' = [jstate EXCEPT ![j] = s]
  <2>1. CASE WorkFinished(j)
    <3>1. ~(fixTask[j] /\ j \in ScratchOnly)
      BY DEF ScratchApart
    <3> QED
      BY <2>1, <3>1 DEF WorkFinished, FinalizePass
  <2>2. CASE EvaluationEntered(j) \/ SquashConflict(j) \/ GateFailed(j) \/ Revoke(j)
    BY <2>2 DEF EvaluationEntered, SquashConflict, GateFailed, Revoke
  <2> QED
    BY <2>1, <2>2
<1>5. \A k \in Jobs : jstate'[k] = "Done" <=> jstate[k] = "Done"
  BY <1>1, <1>4, Types
<1> QED
  BY <1>1, <1>2, <1>3, <1>5, Changes

\* It passes its tests, on a position the trunk has had.
LEMMA TestSteps ==
    ASSUME TypeOK, LandInv, NEW j \in Jobs, EvalPassed(j)
    PROVE  Promise!Next
<1>1. /\ jstate[j] = "Evaluation" /\ verified' = [verified EXCEPT ![j] = stack[j]]
      /\ UNCHANGED <<branch, landed, head, held>>
  BY DEF EvalPassed, trunkVars
<1>2. stack[j] \in 0 .. head
  <2>1. stack[j] <= head
    BY DEF LandInv, StackIsBase
  <2> QED
    BY <2>1, Types
<1>3. CASE j \in ScratchOnly /\ ~draining
  <2>1. jstate' = [jstate EXCEPT ![j] = "Done"]
    BY <1>3 DEF EvalPassed, FinalizePass
  <2> QED
    BY <1>1, <1>2, <1>3, <2>1, Types, Finishes
<1>4. CASE j \notin ScratchOnly \/ draining
  <2>1. \A k \in Jobs : jstate'[k] = "Done" <=> jstate[k] = "Done"
    BY <1>1, <1>4, Types DEF EvalPassed, FinalizePass
  <2> QED
    BY <1>1, <1>2, <2>1, Tests
<1> QED
  BY <1>3, <1>4

\* It is taken into the trunk.
LEMMA LandSteps ==
    ASSUME TypeOK, GateInv, GateSeesHead, LandInv, GateHasWork, ScratchApart, Sound,
           NEW j \in Jobs, LandUngated(j) \/ GatePassed(j)
    PROVE  Promise!Next
<1>1. /\ head' = head + 1 /\ landed' = landed \cup {j} /\ UNCHANGED <<jstate, branch, held>>
      /\ pc # "landed" /\ pc' = "landed" /\ cur' = j
  <2>1. CASE LandUngated(j)
    BY <2>1 DEF LandUngated, Landing, Land, jobVars
  <2>2. CASE GatePassed(j)
    BY <2>2 DEF GatePassed, Reducing, Land, GateSeesHead, Sound, jobVars
  <2> QED
    BY <2>1, <2>2
<1>2. ~held /\ branch[j] # "empty" /\ jstate[j] = "WrapUp"
  <2>1. CASE LandUngated(j)
    BY <2>1 DEF LandUngated, Landing, GateInv, LandingOwned
  <2>2. CASE GatePassed(j)
    BY <2>2, NoneAssumption DEF GatePassed, Reducing, GateInv, GateOwned, HoldWaits, LandInv,
       GateWaits, CanLand, GateHasWork
  <2> QED
    BY <2>1, <2>2
<1>3. verified' \in {verified, [verified EXCEPT ![j] = head]}
  BY DEF LandUngated, GatePassed, Reducing, GateSeesHead
<1>4. j \in Gated => verified'[j] = head
  <2>1. Next
    BY DEF Next, ActorStep
  <2>2. Lands(j)
    BY <1>1, Types DEF Lands
  <2> QED
    BY <2>1, <2>2, LandedTested
<1> QED
  BY <1>1, <1>2, <1>3, <1>4, LandsIn DEF ScratchApart

\* The job is done.
LEMMA FinishSteps ==
    ASSUME TypeOK, GateInv, LandInv, WorkIsIn, NEW j \in Jobs,
           \/ Completed(j)
           \/ RecoverEvaluation(j) /\ evals[j] = "done" /\ j \in ScratchOnly
    PROVE  Promise!Next
<1>1. jstate' = [jstate EXCEPT ![j] = "Done"] /\ UNCHANGED <<branch, landed, verified>>
  BY DEF Completed, RecoverEvaluation, RecoveredPass, ghostVars
<1>2. UNCHANGED <<head, held>>
  BY DEF Completed, RecoverEvaluation, Recovering, trunkVars
<1>3. j \in landed \/ branch[j] = "empty" \/ j \in ScratchOnly
  BY DEF Completed, WorkIsIn, In
<1> QED
  BY <1>1, <1>2, <1>3, Types, Finishes

\* A release goes out, comes back, or is withdrawn.
LEMMA OriginSteps ==
    ASSUME OriginRelease \/ ReleaseMerged \/ ReleaseClosed \/ FastForward
    PROVE  Promise!Next
<1>1. UNCHANGED <<jstate, branch, landed, verified>>
  BY DEF OriginRelease, ReleaseMerged, ReleaseClosed, FastForward, jobVars, ghostVars
<1>2. Promise!Freeze \/ Promise!Thaw \/ Promise!Merged
  BY <1>1 DEF OriginRelease, ReleaseMerged, ReleaseClosed, FastForward, Promise!Freeze,
     Promise!Thaw, Promise!Merged
<1> QED
  BY <1>2 DEF Promise!Next

\* Everything else is not to be seen.
LEMMA HiddenSteps ==
    ASSUME TypeOK, GateInv, LandInv, NEW j \in Jobs,
           \/ EvalFailed(j) \/ PhaseEscalated(j) \/ EvaluationHeld(j)
           \/ EvaluatorsLaunched(j) \/ LandingRefused(j) \/ LandingError(j)
           \/ LandNothing(j) \/ LandingUnread(j) \/ OpenGate(j) \/ GateOpened(j)
           \/ GateLaunchError(j) \/ PinBase(j) \/ WorkEntryRefused(j) \/ WorkEntered(j)
           \/ WorkLaunched(j) \/ Landed(j) \/ RetryWork(j) \/ ReEvaluate(j)
           \/ RetryPublish(j) \/ RecoverWork(j) \/ RecoverWrapUp(j)
           \/ RecoverEvaluation(j) /\ ~(evals[j] = "done" /\ j \in ScratchOnly)
           \/ \E pass \in BOOLEAN : PublishExited(j, pass)
           \/ \E e \in Evals : GateLaunchExpired(j, e)
           \/ \E e \in Evals, pass \in BOOLEAN : GateExited(j, e, pass)
    PROVE  UNCHANGED Promise!vars
<1>1. UNCHANGED <<branch, landed, verified>>
  BY DEF EvalFailed, PhaseEscalated, EvaluationHeld, EvaluatorsLaunched, LandingRefused,
     LandingError, LandingEscalates, LandNothing, LandingUnread, OpenGate, GateOpened,
     GateLaunchError, PinBase, WorkEntryRefused, WorkEntered, WorkLaunched, Landed, RetryWork,
     ReEvaluate, RetryPublish, RecoverWork, RecoverWrapUp, RecoverEvaluation, RecoveredPass,
     PublishExited, GateLaunchExpired, GateExited, jobVars, ghostVars
<1>2. UNCHANGED <<head, held>>
  BY DEF EvalFailed, PhaseEscalated, EvaluationHeld, EvaluatorsLaunched, LandingRefused,
     LandingError, LandingEscalates, LandNothing, LandingUnread, OpenGate, GateOpened,
     GateLaunchError, PinBase, WorkEntryRefused, WorkEntered, WorkLaunched, Landed, RetryWork,
     ReEvaluate, RetryPublish, RecoverWork, RecoverWrapUp, RecoverEvaluation, Recovering,
     PublishExited, GateLaunchExpired, GateExited, trunkVars
<1>3. /\ jstate[j] # "Done" \/ jstate' = jstate
      /\ jstate' = jstate \/ \E s \in {"Work", "WrapUp", "Escalated"} :
                                jstate' = [jstate EXCEPT ![j] = s]
  <2>1. CASE \/ EvalFailed(j) \/ PhaseEscalated(j) \/ EvaluationHeld(j)
             \/ EvaluatorsLaunched(j) \/ LandingRefused(j) \/ LandingError(j)
             \/ LandNothing(j) \/ LandingUnread(j) \/ OpenGate(j) \/ GateOpened(j)
             \/ GateLaunchError(j) \/ PinBase(j) \/ WorkEntryRefused(j) \/ WorkEntered(j)
             \/ WorkLaunched(j) \/ Landed(j)
    BY <2>1 DEF LandInv, HandlerOwns, CanLand, EvalFailed, EvalRework, PhaseEscalated,
       EvaluationHeld, EvaluatorsLaunched, LandingRefused, LandingError, LandingEscalates,
       Landing, Escalate, LandNothing, LandingUnread, OpenGate, GateOpened, GateLaunchError,
       PinBase, WorkEntryRefused, WorkEntered, WorkLaunched, Landed, jobVars
  <2>2. CASE \/ RetryWork(j) \/ ReEvaluate(j) \/ RetryPublish(j) \/ RecoverWork(j)
             \/ RecoverWrapUp(j)
             \/ RecoverEvaluation(j) /\ ~(evals[j] = "done" /\ j \in ScratchOnly)
    BY <2>2 DEF RetryWork, ReEvaluate, RetryPublish, RecoverWork, RecoverWrapUp,
       RecoverEvaluation, RecoveredPass, Escalate, jobVars
  <2>3. CASE \/ \E pass \in BOOLEAN : PublishExited(j, pass)
             \/ \E e \in Evals : GateLaunchExpired(j, e)
             \/ \E e \in Evals, pass \in BOOLEAN : GateExited(j, e, pass)
    BY <2>3 DEF LandInv, TasksOwned, Terminal, GateWaits, CanLand, PublishExited,
       GateLaunchExpired, GateRuns, GateExited, Escalate, jobVars
  <2> QED
    BY <2>1, <2>2, <2>3
<1>4. \A k \in Jobs : jstate'[k] = "Done" <=> jstate[k] = "Done"
  BY <1>3, Types
<1> QED
  BY <1>1, <1>2, <1>4, Stutters

LEMMA NextPromised ==
    ASSUME TypeOK, GateInv, GateSeesHead, LandInv, WorkIsIn, GateHasWork, ScratchApart,
           Sound, [Next]_vars
    PROVE  [Promise!Next]_(Promise!vars)
<1>1. CASE ActorStep
  <2>1. CASE PumpHolds \/ PumpPops
    <3>1. UNCHANGED <<jstate, branch, landed, verified, head, held>>
      BY <2>1 DEF PumpHolds, PumpPops, jobVars, trunkVars, ghostVars
    <3> QED
      BY <3>1, Stutters
  <2> QED
    BY <1>1, <2>1, ChangeSteps, LandSteps, FinishSteps, HiddenSteps DEF ActorStep
<1>2. CASE Phases
  BY <1>2, ChangeSteps, TestSteps, HiddenSteps DEF Phases
<1>3. CASE GateExits \/ GateExpires \/ \E j \in Jobs : PublishExits(j)
  BY <1>3, HiddenSteps DEF GateExits, GateExpires, PublishExits
<1>4. CASE Operator
  <2>1. CASE Drain
    <3>1. UNCHANGED <<jstate, branch, landed, verified, head, held>>
      BY <2>1 DEF Drain, jobVars, trunkVars, ghostVars
    <3> QED
      BY <3>1, Stutters
  <2> QED
    BY <1>4, <2>1, ChangeSteps, HiddenSteps DEF Operator
<1>5. CASE Origin
  BY <1>5, OriginSteps DEF Origin
<1>6. CASE Crash \/ UNCHANGED vars
  <2>1. UNCHANGED <<jstate, branch, landed, verified, head, held>>
    BY <1>6 DEF Crash, vars, jobVars, trunkVars, ghostVars
  <2> QED
    BY <2>1, Stutters
<1> QED
  BY <1>1, <1>2, <1>3, <1>4, <1>5, <1>6 DEF Next

LEMMA InitPromised == Init => Promise!Init
<1> SUFFICES ASSUME Init
             PROVE  Promise!Init
  OBVIOUS
<1>1. {j \in Jobs : branch[j] # "empty"} = {} /\ {j \in Jobs : jstate[j] = "Done"} = {}
  BY DEF Init
<1> QED
  BY <1>1 DEF Init, Promise!Init, Promise!Untested, Unverified

\* What the pipeline promises (Trunk): work reaches the default branch tested on
\* the position it lands on, at most one position at a time, never on a frozen
\* branch, and a job ends with its work in.  Every step of the pipeline, its
\* restarts included, is a step of the promise or is not to be seen.
THEOREM TrunkIsKept ==
    ASSUME Safe, Sound
    PROVE  Spec => ImplementsTrunk
<1>1. /\ TypeOK /\ GateInv /\ GateSeesHead /\ LandInv /\ OutcomeInv /\ [Next]_vars
      => [Promise!Next]_(Promise!vars)
  BY NextPromised DEF OutcomeInv
<1> QED
  BY <1>1, InitPromised, OutcomeHolds, PTL DEF Spec, ImplementsTrunk, Promise!Spec

-----------------------------------------------------------------------------
(* No landing is lost, and none waits twice: a job in WrapUp is in one     *)
(* place at a time, and something moves it on.                             *)

\* Where a handler has the job in hand.
InHand == {"start", "reduce", "rebased", "pinned", "landed", "complete", "shipped"}

\* The job a gate round belongs to does not wait.
GateHolds == \A j \in Jobs : gate[j] # None => CanLand(j) /\ j \notin ToSet(queue)

\* The job a handler works on is nowhere else, and in the handler's phase.
HandlerHolds ==
    /\ pc \in {"start", "opening", "reduce", "rebased", "pinned", "landed"} =>
           cur \in Jobs /\ CanLand(cur)
    /\ pc \in {"start", "opening", "reduce", "rebased", "pinned", "launch", "landed",
               "complete", "shipped", "entry", "fanout"} =>
           cur \in Jobs /\ cur \notin ToSet(queue) /\ (gate[cur] # None => pc = "reduce")
    /\ pc = "entry" => /\ jstate[cur] \in {"Work", "Escalated"}
                       /\ workTask[cur] # "running" /\ publish[cur] # "running"
    /\ pc = "fanout" => jstate[cur] = "Evaluation"
    /\ pc = "launch" => jstate[cur] = "Work" /\ workTask[cur] # "running"
    /\ pc \in {"complete", "shipped"} => jstate[cur] = "WrapUp"

\* A job that waits, or is still to be recovered, is not at the gate.
GateApart == gating \notin ToSet(queue) /\ gating \notin recovering

\* A job is in one place at a time.
OnePlace ==
    /\ QueueWaits /\ GateHolds /\ HandlerHolds /\ RecoveryOwns /\ TasksOwned /\ GateApart

\* Whenever the queue may be left alone, something holds it.
Pumped ==
    pc \in {"idle", "recover", "entry", "fanout", "shipped", "opening"} /\ queue # << >> =>
        held \/ draining \/ gating # None

\* A job in WrapUp has its slice, and waits, is at the gate, is published, or is
\* in the hand of a handler, which leaves it in one of the former.
Driven == \A j \in Jobs : jstate[j] = "WrapUp" =>
    \/ j \in recovering
    \/ /\ j \in exec
       /\ \/ j \in ToSet(queue) \/ gating = j \/ publish[j] = "running" \/ draining
          \/ pc \in InHand /\ cur = j

LineInv == OnePlace /\ Pumped /\ Driven

\* No launch of a gate stage fails or waits too long.
Steady == Faults \cap {"stageLaunch", "queueTimeout"} = {}

\* The gate is held by a round, which has a command out or is being reduced, or
\* by a round about to be opened.
GatingHeld == gating # None =>
    \/ pc = "opening" /\ cur = gating
    \/ /\ gating \in exec /\ gate[gating] # None
       /\ OpenSlots(gate[gating].slots) # {} \/ (pc = "reduce" /\ cur = gating)
--------------------------------------------------------------------------------
LEMMA Least ==
    ASSUME NEW A \in SUBSET Nat, A # {}
    PROVE  \E i \in A : \A k \in A : i <= k
<1>1. PICK i \in A : \A k \in A : ~(<<k, i>> \in OpToRel(<, Nat))
  BY WFMin, NatLessThanWellFounded
<1>2. \A k \in A : ~(k < i)
  BY <1>1 DEF OpToRel
<1> QED
  BY <1>2

\* Of the least pending stage there is an evaluator to launch.
LEMMA StageOpens ==
    ASSUME NEW slots, Unlaunched(slots) # {}
    PROVE  OpenSlots(OpenStage(slots)) # {}
<1> DEFINE stages == {Stage[e] : e \in Unlaunched(slots)}
<1>1. stages \in SUBSET Nat /\ stages # {}
  BY StageAssumption DEF Unlaunched
<1>2. PICK n \in stages : \A m \in stages : n <= m
  <2> HIDE DEF stages
  <2> QED
    BY <1>1, Least
<1>3. PICK e \in Unlaunched(slots) : n = Stage[e]
  OBVIOUS
<1>4. e \in NextStage(slots) /\ e \in Evals
  BY <1>2, <1>3 DEF NextStage, Unlaunched
<1>5. OpenStage(slots)[e] = "open"
  BY <1>4 DEF OpenStage
<1> QED
  BY <1>4, <1>5 DEF OpenSlots

\* What the three operations on the queue keep.
LEMMA Kept ==
    ASSUME NEW q \in Seq(Jobs), NEW j \in Jobs
    PROVE  ToSet(q) \ {j} \subseteq ToSet(Without(q, j))
<1>1. CASE j \notin ToSet(q)
  BY <1>1 DEF Without
<1>2. CASE j \in ToSet(q)
  <2> DEFINE i == CHOOSE i \in DOMAIN q : q[i] = j
  <2>1. i \in 1 .. Len(q) /\ q[i] = j
    BY <1>2 DEF ToSet
  <2>0. Without(q, j) = RemoveAt(q, i)
    BY <1>2 DEF Without
  <2> HIDE DEF i
  <2> DEFINE s == SubSeq(q, 1, i - 1)
             t == SubSeq(q, i + 1, Len(q))
  <2>2. Without(q, j) = s \o t
    BY <2>0 DEF RemoveAt
  <2>3. s \in Seq(Jobs) /\ Len(s) = i - 1 /\ \A k \in 1 .. i - 1 : s[k] = q[k]
    <3>1. \A k \in 1 .. i - 1 : q[k] \in Jobs
      BY <2>1
    <3> QED
      BY <2>1, <3>1, SubSeqProperties
  <2>4. t \in Seq(Jobs) /\ Len(t) = Len(q) - i /\ \A k \in 1 .. Len(q) - i : t[k] = q[i + k]
    <3>1. \A k \in i + 1 .. Len(q) : q[k] \in Jobs
      BY <2>1
    <3> QED
      BY <2>1, <3>1, SubSeqProperties
  <2> HIDE DEF s, t
  <2>9. /\ s \o t \in Seq(Jobs) /\ Len(s \o t) = Len(s) + Len(t)
        /\ \A k \in 1 .. Len(s) + Len(t) :
              (s \o t)[k] = IF k <= Len(s) THEN s[k] ELSE t[k - Len(s)]
    BY <2>3, <2>4, ConcatProperties
  <2> DEFINE r == s \o t
  <2> HIDE DEF r
  <2>5. /\ r \in Seq(Jobs) /\ Len(r) = Len(q) - 1
        /\ \A k \in 1 .. Len(q) - 1 : r[k] = IF k <= i - 1 THEN s[k] ELSE t[k - (i - 1)]
    <3>1. Len(s) + Len(t) = Len(q) - 1 /\ Len(s) = i - 1
      BY <2>1, <2>3, <2>4
    <3> QED
      BY <2>9, <3>1 DEF r
  <2>6. DOMAIN r = 1 .. Len(q) - 1
    BY <2>5
  <2> SUFFICES ASSUME NEW k \in 1 .. Len(q), q[k] # j
               PROVE  \E n \in 1 .. Len(q) - 1 : r[n] = q[k]
    <3>1. DOMAIN q = 1 .. Len(q) /\ Without(q, j) = r
      BY <2>2 DEF r
    <3> QED
      BY <2>6, <3>1 DEF ToSet
  <2>7. CASE k < i
    BY SMTT(60), <2>1, <2>3, <2>5, <2>7
  <2>8. CASE k > i
    <3>1. k - 1 \in 1 .. Len(q) - 1 /\ r[k - 1] = t[(k - 1) - (i - 1)]
      BY <2>1, <2>5, <2>8
    <3>2. k - i \in 1 .. Len(q) - i /\ (k - 1) - (i - 1) = k - i /\ i + (k - i) = k
      BY <2>1, <2>8
    <3>3. t[k - i] = q[k]
      BY <2>4, <3>2
    <3> QED
      BY <3>1, <3>2, <3>3
  <2> QED
    BY <2>1, <2>7, <2>8
<1> QED
  BY <1>1, <1>2

LEMMA QueueOps ==
    ASSUME TypeOK, Distinct(queue), NEW j \in Jobs
    PROVE  /\ Distinct(Enqueue(j)) /\ ToSet(queue) \subseteq ToSet(Enqueue(j))
           /\ ToSet(Enqueue(j)) \subseteq ToSet(queue) \cup {j}
           /\ IF gating = j THEN Enqueue(j) = queue ELSE j \in ToSet(Enqueue(j))
           /\ Distinct(Without(queue, j)) /\ ToSet(Without(queue, j)) = ToSet(queue) \ {j}
<1>1. queue \in Seq(Jobs) /\ QueueTyped
  BY Types
<1>2. ToSet(queue) \subseteq ToSet(Enqueue(j)) /\ (gating # j => j \in ToSet(Enqueue(j)))
  <2>1. CASE j \in ToSet(queue) \/ gating = j
    BY <2>1 DEF Enqueue
  <2>2. CASE j \notin ToSet(queue) /\ gating # j
    <3>1. /\ Enqueue(j) = Append(queue, j)
          /\ Len(Append(queue, j)) = Len(queue) + 1
          /\ \A i \in 1 .. Len(queue) : Append(queue, j)[i] = queue[i]
          /\ Append(queue, j)[Len(queue) + 1] = j
      BY <1>1, <2>2 DEF Enqueue
    <3> QED
      BY <1>1, <3>1 DEF ToSet
  <2> QED
    BY <2>1, <2>2
<1> QED
  BY <1>1, <1>2, Enqueued, Removed, Kept DEF Enqueue

LEMMA PopKeeps ==
    ASSUME NEW q \in Seq(Jobs), q # << >>
    PROVE  ToSet(q) \ {Head(q)} \subseteq ToSet(Tail(q))
<1>1. /\ Len(q) \in Nat \ {0} /\ Head(q) = q[1] /\ Len(Tail(q)) = Len(q) - 1
      /\ \A i \in 1 .. Len(q) - 1 : Tail(q)[i] = q[i + 1]
      /\ DOMAIN Tail(q) = 1 .. Len(q) - 1 /\ DOMAIN q = 1 .. Len(q)
  OBVIOUS
<1> SUFFICES ASSUME NEW x \in ToSet(q), x # Head(q)
             PROVE  x \in ToSet(Tail(q))
  OBVIOUS
<1>2. PICK k \in 1 .. Len(q) : q[k] = x
  BY <1>1 DEF ToSet
<1>3. k - 1 \in 1 .. Len(q) - 1 /\ (k - 1) + 1 = k
  BY <1>1, <1>2
<1>4. k - 1 \in DOMAIN Tail(q) /\ Tail(q)[k - 1] = x
  BY <1>1, <1>2, <1>3
<1> QED
  BY <1>4 DEF ToSet
--------------------------------------------------------------------------------
\* A phase that ends queues its job, or leaves the line as it is.
LEMMA PhasesLine ==
    ASSUME TypeOK, GateInv, LineInv, NEW j \in Jobs,
           \/ WorkFinished(j) \/ EvalPassed(j) \/ EvalFailed(j) \/ PhaseEscalated(j)
    PROVE  LineInv'
<1>1. Distinct(queue)
  BY DEF LineInv, OnePlace, QueueWaits
<1>2. /\ Distinct(Enqueue(j)) /\ ToSet(queue) \subseteq ToSet(Enqueue(j))
      /\ ToSet(Enqueue(j)) \subseteq ToSet(queue) \cup {j}
      /\ IF gating = j THEN Enqueue(j) = queue ELSE j \in ToSet(Enqueue(j))
  BY <1>1, QueueOps
<1>3. CASE WorkFinished(j)
  <2>1. QueueWaits'
    <3>1. j \notin ToSet(queue)
      BY <1>3 DEF LineInv, OnePlace, QueueWaits, CanLand, WorkFinished
    <3>2. /\ publish' = publish
          /\ \A k \in Jobs \ {j} : jstate'[k] = jstate[k] /\ (k \in exec' <=> k \in exec)
      BY <1>3, Types DEF FinalizePass, DropExec, execVars, WorkFinished
    <3>3. \/ queue' = queue
          \/ queue' = Enqueue(j) /\ jstate'[j] = "WrapUp" /\ j \in exec'
      BY <1>3, Types DEF FinalizePass, execVars, WorkFinished
    <3>4. publish[j] # "running"
      BY <1>3, Types DEF LineInv, OnePlace, TasksOwned, WorkFinished
    <3> QED
      BY <1>2, <3>1, <3>2, <3>3, <3>4, Types DEF LineInv, OnePlace, QueueWaits, CanLand
  <2>2. GateHolds' /\ HandlerHolds' /\ RecoveryOwns' /\ GateApart'
    BY SMTT(90), <1>3, <1>2, Types, NoneAssumption
    DEF LineInv, OnePlace, QueueWaits, TasksOwned, HandlerHolds, GateHolds,
       RecoveryOwns, GateApart, CanLand, GateInv, LandingOwned, WorkFinished,
       FinalizePass, DropExec, execVars, Idle, Unverified, trunkVars
  <2>3. TasksOwned'
    BY <1>3, WorkFinishedTasks DEF LineInv, OnePlace
  <2>4. OnePlace'
    BY <1>3, <2>1, <2>2, <2>3 DEF OnePlace
  <2>5. Pumped'
    BY SMTT(30), <1>3, <1>2, Types, NoneAssumption
    DEF LineInv, Pumped, WorkFinished, FinalizePass, Idle, trunkVars
  <2>6. Driven'
    BY SMTT(30), <1>3, <1>2, Types, NoneAssumption
    DEF LineInv, Driven, InHand, WorkFinished, FinalizePass, DropExec, execVars, Idle
  <2> QED
    BY <2>4, <2>5, <2>6 DEF LineInv
<1>4. CASE EvalPassed(j)
  <2>1. QueueWaits'
    <3>1. j \notin ToSet(queue)
      BY <1>4 DEF LineInv, OnePlace, QueueWaits, CanLand, EvalPassed
    <3>2. /\ publish' = publish
          /\ \A k \in Jobs \ {j} : jstate'[k] = jstate[k] /\ (k \in exec' <=> k \in exec)
      BY <1>4, Types DEF FinalizePass, DropExec, execVars, EvalPassed
    <3>3. \/ queue' = queue
          \/ queue' = Enqueue(j) /\ jstate'[j] = "WrapUp" /\ j \in exec'
      BY <1>4, Types DEF FinalizePass, execVars, EvalPassed
    <3>4. publish[j] # "running"
      BY <1>4, Types DEF LineInv, OnePlace, TasksOwned, EvalPassed
    <3> QED
      BY <1>2, <3>1, <3>2, <3>3, <3>4, Types DEF LineInv, OnePlace, QueueWaits, CanLand
  <2>2. GateHolds' /\ HandlerHolds' /\ RecoveryOwns' /\ GateApart'
    BY SMTT(30), <1>4, <1>2, Types, NoneAssumption
    DEF LineInv, OnePlace, QueueWaits, TasksOwned, HandlerHolds, GateHolds,
       RecoveryOwns, GateApart, CanLand, GateInv, EvalPassed, FinalizePass, DropExec,
       execVars, Idle, trunkVars
  <2>3. TasksOwned'
    BY <1>4, EvalPassedTasks DEF LineInv, OnePlace
  <2>4. OnePlace'
    BY <1>4, <2>1, <2>2, <2>3 DEF OnePlace
  <2>5. Pumped'
    BY SMTT(30), <1>4, <1>2, Types, NoneAssumption
    DEF LineInv, Pumped, EvalPassed, FinalizePass, trunkVars
  <2>6. Driven'
    BY SMTT(30), <1>4, <1>2, Types, NoneAssumption
    DEF LineInv, Driven, InHand, EvalPassed, FinalizePass, DropExec, execVars, Idle
  <2> QED
    BY <2>4, <2>5, <2>6 DEF LineInv
<1>5. CASE EvalFailed(j)
  <2>1. QueueWaits'
    BY <1>5, Types, NoneAssumption
    DEF LineInv, OnePlace, QueueWaits, TasksOwned, HandlerHolds, GateHolds,
       RecoveryOwns, GateApart, CanLand, GateInv, EvalFailed, EvalRework, LaunchWork,
       Idle, actorVars, queueVars
  <2>2. GateHolds' /\ HandlerHolds' /\ RecoveryOwns' /\ GateApart'
    BY <1>5, Types, NoneAssumption
    DEF LineInv, OnePlace, QueueWaits, TasksOwned, HandlerHolds, GateHolds,
       RecoveryOwns, GateApart, CanLand, GateInv, EvalFailed, EvalRework, LaunchWork,
       Idle, actorVars, queueVars
  <2>3. TasksOwned'
    BY <1>5, EvalFailedTasks DEF LineInv, OnePlace
  <2>4. OnePlace'
    BY <1>5, <2>1, <2>2, <2>3 DEF OnePlace
  <2>5. Pumped'
    BY <1>5, Types, NoneAssumption
    DEF LineInv, Pumped, EvalFailed, actorVars, queueVars, trunkVars
  <2>6. Driven'
    BY <1>5, Types, NoneAssumption
    DEF LineInv, Driven, EvalFailed, EvalRework, LaunchWork, actorVars, queueVars
  <2> QED
    BY <2>4, <2>5, <2>6 DEF LineInv
<1>6. CASE PhaseEscalated(j)
  <2>1. OnePlace'
    BY SMTT(90), <1>6, Types, NoneAssumption
    DEF LineInv, OnePlace, QueueWaits, TasksOwned, HandlerHolds, GateHolds,
       RecoveryOwns, GateApart, CanLand, PhaseEscalated, DropExec, Escalate, Idle,
       actorVars, queueVars
  <2>2. Pumped'
    BY SMTT(30), <1>6, Types, NoneAssumption
    DEF LineInv, Pumped, PhaseEscalated, actorVars, queueVars, trunkVars
  <2>3. Driven'
    BY SMTT(30), <1>6, Types, NoneAssumption
    DEF LineInv, Driven, PhaseEscalated, DropExec, Escalate, actorVars, queueVars
  <2> QED
    BY <2>1, <2>2, <2>3 DEF LineInv
<1> QED
  BY <1>3, <1>4, <1>5, <1>6

LEMMA EvaluationsLine ==
    ASSUME TypeOK, GateInv, LineInv, NEW j \in Jobs,
           \/ EvaluationHeld(j) \/ EvaluationEntered(j) \/ EvaluatorsLaunched(j)
    PROVE  LineInv'
<1>1. CASE EvaluationHeld(j)
  BY <1>1, Types, NoneAssumption
  DEF LineInv, Pumped, Driven, OnePlace, QueueWaits, TasksOwned, HandlerHolds,
     GateHolds, RecoveryOwns, GateApart, CanLand, EvaluationHeld, ReturnFrom, execVars,
     jobVars, taskVars, queueVars
<1>2. CASE EvaluationEntered(j)
  <2>1. OnePlace'
    BY <1>2, Types, NoneAssumption
    DEF LineInv, OnePlace, QueueWaits, TasksOwned, HandlerHolds, GateHolds,
       RecoveryOwns, GateApart, CanLand, Terminal, EvaluationEntered, execVars,
       queueVars, taskVars
  <2>2. Pumped'
    BY <1>2, Types, NoneAssumption
    DEF LineInv, Pumped, EvaluationEntered, queueVars, trunkVars
  <2>3. Driven'
    BY <1>2, Types, NoneAssumption
    DEF LineInv, Driven, EvaluationEntered, execVars, queueVars, taskVars
  <2> QED
    BY <2>1, <2>2, <2>3 DEF LineInv
<1>3. CASE EvaluatorsLaunched(j)
  BY <1>3, Types, NoneAssumption
  DEF LineInv, InHand, Pumped, Driven, OnePlace, QueueWaits, TasksOwned, HandlerHolds,
     GateHolds, RecoveryOwns, GateApart, CanLand, Terminal, GateInv, GateOwned,
     LandingOwned, EvaluatorsLaunched, ReturnFrom, execVars, queueVars, trunkVars
<1> QED
  BY <1>1, <1>2, <1>3

\* The landing has its job in hand, and puts it down at the gate, in rework or in
\* an escalation.
LEMMA LandingsLine ==
    ASSUME TypeOK, GateInv, LineInv, NEW j \in Jobs,
           \/ LandingRefused(j) \/ LandingError(j) \/ LandNothing(j) \/ LandUngated(j)
           \/ LandingUnread(j) \/ SquashConflict(j) \/ OpenGate(j)
    PROVE  LineInv'
<1>1. CASE LandingRefused(j)
  BY <1>1, Types, NoneAssumption
  DEF LineInv, Pumped, Driven, OnePlace, QueueWaits, TasksOwned, HandlerHolds,
     GateHolds, RecoveryOwns, GateApart, CanLand, LandingRefused, Landing,
     LandingEscalates, DropExec, Escalate, queueVars, taskVars
<1>2. CASE LandingError(j)
  BY SMTT(60), <1>2, Types, NoneAssumption
  DEF LineInv, Pumped, Driven, OnePlace, QueueWaits, TasksOwned, HandlerHolds,
     GateHolds, RecoveryOwns, GateApart, CanLand, Terminal, LandingError, Landing,
     LandingEscalates, DropExec, Escalate, queueVars, taskVars
<1>3. CASE LandNothing(j)
  BY <1>3, Types, NoneAssumption
  DEF LineInv, InHand, Pumped, Driven, OnePlace, QueueWaits, TasksOwned, HandlerHolds,
     GateHolds, RecoveryOwns, GateApart, CanLand, LandNothing, Landing, execVars,
     jobVars, taskVars, queueVars
<1>4. CASE LandUngated(j)
  BY <1>4, Types, NoneAssumption
  DEF LineInv, InHand, Pumped, Driven, OnePlace, QueueWaits, TasksOwned, HandlerHolds,
     GateHolds, RecoveryOwns, GateApart, CanLand, LandUngated, Landing, execVars,
     jobVars, taskVars, queueVars
<1>5. CASE LandingUnread(j)
  BY <1>5, Types, NoneAssumption
  DEF LineInv, InHand, Pumped, Driven, OnePlace, QueueWaits, TasksOwned, HandlerHolds,
     GateHolds, RecoveryOwns, GateApart, CanLand, LandingUnread, Landing, execVars,
     jobVars, taskVars, queueVars
<1>6. CASE SquashConflict(j)
  BY <1>6, Types, NoneAssumption
  DEF LineInv, InHand, Pumped, Driven, OnePlace, QueueWaits, TasksOwned, HandlerHolds,
     GateHolds, RecoveryOwns, GateApart, CanLand, SquashConflict, Landing, execVars,
     taskVars
<1>7. CASE OpenGate(j)
  BY <1>7, Types, NoneAssumption
  DEF LineInv, Pumped, Driven, OnePlace, QueueWaits, TasksOwned, HandlerHolds,
     GateHolds, RecoveryOwns, GateApart, CanLand, GateInv, LandingOwned, OpenGate,
     Landing, execVars, jobVars, taskVars
<1> QED
  BY <1>1, <1>2, <1>3, <1>4, <1>5, <1>6, <1>7

\* The gate has it until the verdict.
LEMMA GatesLine ==
    ASSUME TypeOK, GateInv, LineInv, NEW j \in Jobs,
           \/ GateOpened(j) \/ GateLaunchError(j) \/ GatePassed(j) \/ GateFailed(j)
           \/ \E e \in Evals, pass \in BOOLEAN : GateExited(j, e, pass)
           \/ \E e \in Evals : GateLaunchExpired(j, e)
    PROVE  LineInv'
<1>1. CASE GateOpened(j)
  BY SMTT(60), <1>1, Types, NoneAssumption
  DEF LineInv, InHand, Pumped, Driven, OnePlace, QueueWaits, TasksOwned, HandlerHolds,
     GateHolds, RecoveryOwns, GateApart, CanLand, Terminal, GateInv, GateOwned,
     LandingOwned, GateOpened, ReturnFrom, jobVars, taskVars, queueVars, trunkVars
<1>2. CASE GateLaunchError(j)
  BY SMTT(30), <1>2, Types, NoneAssumption
  DEF LineInv, InHand, Pumped, Driven, OnePlace, QueueWaits, TasksOwned, HandlerHolds,
     GateHolds, RecoveryOwns, GateApart, CanLand, Terminal, GateInv, GateOwned,
     LandingOwned, GateLaunchError, LandingEscalates, DropExec, Escalate, queueVars,
     taskVars, trunkVars
<1>3. CASE GatePassed(j)
  BY <1>3, Types, NoneAssumption
  DEF LineInv, InHand, Pumped, Driven, OnePlace, QueueWaits, TasksOwned, HandlerHolds,
     GateHolds, RecoveryOwns, GateApart, CanLand, GateInv, GateOwned, GatePassed,
     Reducing, jobVars, taskVars
<1>4. CASE GateFailed(j)
  BY <1>4, Types, NoneAssumption
  DEF LineInv, InHand, Pumped, Driven, OnePlace, QueueWaits, TasksOwned, HandlerHolds,
     GateHolds, RecoveryOwns, GateApart, CanLand, GateInv, GateOwned, GateFailed,
     Reducing, taskVars
<1>5. CASE \E e \in Evals, pass \in BOOLEAN : GateExited(j, e, pass)
  <2>0. PICK e \in Evals, pass \in BOOLEAN : GateExited(j, e, pass)
    BY <1>5
  <2>1. OnePlace'
    BY ZenonT(60), <2>0, Types, NoneAssumption
    DEF LineInv, OnePlace, QueueWaits, TasksOwned, HandlerHolds, GateHolds,
       RecoveryOwns, GateApart, CanLand, GateExited, GateRuns, Idle, jobVars, taskVars,
       queueVars
  <2>2. Pumped'
    BY <2>0, Types, NoneAssumption
    DEF LineInv, Pumped, GateExited, GateRuns, queueVars, trunkVars
  <2>3. Driven'
    BY <2>0, Types, NoneAssumption
    DEF LineInv, Driven, InHand, GateExited, GateRuns, Idle, jobVars, taskVars,
       queueVars
  <2> QED
    BY <2>1, <2>2, <2>3 DEF LineInv
<1>6. CASE \E e \in Evals : GateLaunchExpired(j, e)
  <2>0. PICK e \in Evals : GateLaunchExpired(j, e)
    BY <1>6
  <2>1. OnePlace'
    BY SMTT(30), <2>0, Types, NoneAssumption
    DEF LineInv, OnePlace, QueueWaits, TasksOwned, HandlerHolds, GateHolds,
       RecoveryOwns, GateApart, CanLand, GateLaunchExpired, DropExec, Escalate,
       GateRuns, Idle, actorVars, queueVars, taskVars
  <2>2. Pumped'
    BY SMTT(30), <2>0, Types, NoneAssumption
    DEF LineInv, Pumped, GateLaunchExpired, actorVars, queueVars, trunkVars
  <2>3. Driven'
    BY SMTT(30), <2>0, Types, NoneAssumption
    DEF LineInv, Driven, GateLaunchExpired, DropExec, Escalate, actorVars, queueVars,
       taskVars
  <2> QED
    BY <2>1, <2>2, <2>3 DEF LineInv
<1> QED
  BY <1>1, <1>2, <1>3, <1>4, <1>5, <1>6

LEMMA ReworksLine ==
    ASSUME TypeOK, GateInv, LineInv, NEW j \in Jobs,
           \/ PinBase(j) \/ WorkEntryRefused(j) \/ WorkEntered(j) \/ WorkLaunched(j)
    PROVE  LineInv'
<1>1. CASE PinBase(j)
  BY <1>1, Types, NoneAssumption
  DEF LineInv, InHand, Pumped, Driven, OnePlace, QueueWaits, TasksOwned, HandlerHolds,
     GateHolds, RecoveryOwns, GateApart, CanLand, PinBase, taskVars
<1>2. CASE WorkEntryRefused(j)
  BY <1>2, Types, NoneAssumption
  DEF LineInv, Pumped, Driven, OnePlace, QueueWaits, TasksOwned, HandlerHolds,
     GateHolds, RecoveryOwns, GateApart, CanLand, Terminal, WorkEntryRefused, Escalate,
     execVars, queueVars, taskVars
<1>3. CASE WorkEntered(j)
  BY <1>3, Types, NoneAssumption
  DEF LineInv, Pumped, Driven, OnePlace, QueueWaits, TasksOwned, HandlerHolds,
     GateHolds, RecoveryOwns, GateApart, CanLand, Terminal, WorkEntered, queueVars,
     taskVars, trunkVars
<1>4. CASE WorkLaunched(j)
  BY SMTT(60), <1>4, Types, NoneAssumption
  DEF LineInv, Pumped, Driven, OnePlace, QueueWaits, TasksOwned, HandlerHolds,
     GateHolds, RecoveryOwns, GateApart, CanLand, WorkLaunched, LaunchWork, taskVars,
     execVars, queueVars
<1> QED
  BY <1>1, <1>2, <1>3, <1>4

\* The publish has it until the job is done or escalated.
LEMMA ShippingsLine ==
    ASSUME TypeOK, GateInv, LineInv, NEW j \in Jobs,
           \/ Landed(j) \/ Completed(j) \/ \E pass \in BOOLEAN : PublishExited(j, pass)
    PROVE  LineInv'
<1>1. CASE Landed(j)
  BY SMTT(30), <1>1, Types, NoneAssumption
  DEF LineInv, InHand, Pumped, Driven, OnePlace, QueueWaits, TasksOwned, HandlerHolds,
     GateHolds, RecoveryOwns, GateApart, CanLand, Terminal, GateInv, LandingOwned,
     Landed, execVars, queueVars
<1>2. CASE Completed(j)
  <2>1. OnePlace'
    BY <1>2, Types, NoneAssumption
    DEF LineInv, OnePlace, QueueWaits, TasksOwned, HandlerHolds, GateHolds,
       RecoveryOwns, GateApart, CanLand, Completed, DropExec, ReturnFrom, queueVars,
       taskVars, trunkVars
  <2>2. Pumped'
    BY <1>2, Types, NoneAssumption DEF LineInv, Pumped, Completed, queueVars, trunkVars
  <2>3. Driven'
    BY <1>2, Types, NoneAssumption
    DEF LineInv, Driven, Completed, DropExec, queueVars, taskVars
  <2> QED
    BY <2>1, <2>2, <2>3 DEF LineInv
<1>3. CASE \E pass \in BOOLEAN : PublishExited(j, pass)
  <2>0. PICK pass \in BOOLEAN : PublishExited(j, pass)
    BY <1>3
  <2>1. QueueWaits'
    BY <2>0, Types, NoneAssumption
    DEF LineInv, OnePlace, QueueWaits, TasksOwned, HandlerHolds, GateHolds,
       RecoveryOwns, GateApart, CanLand, Terminal, PublishExited, DropExec, Escalate,
       Idle, execVars, queueVars
  <2>2. GateHolds' /\ HandlerHolds' /\ RecoveryOwns' /\ GateApart'
    BY <2>0, Types, NoneAssumption
    DEF LineInv, OnePlace, QueueWaits, TasksOwned, HandlerHolds, GateHolds,
       RecoveryOwns, GateApart, CanLand, Terminal, PublishExited, DropExec, Escalate,
       Idle, execVars, queueVars
  <2>3. TasksOwned'
    BY <2>0, PublishExitedTasks DEF LineInv, OnePlace
  <2>4. OnePlace'
    BY <2>0, <2>1, <2>2, <2>3 DEF OnePlace
  <2>5. Pumped'
    BY <2>0, Types, NoneAssumption
    DEF LineInv, Pumped, PublishExited, Idle, queueVars, trunkVars
  <2>6. Driven'
    BY <2>0, Types, NoneAssumption
    DEF LineInv, Driven, InHand, PublishExited, DropExec, Escalate, Idle, execVars,
       queueVars
  <2> QED
    BY <2>4, <2>5, <2>6 DEF LineInv
<1> QED
  BY <1>1, <1>2, <1>3

\* The operator puts a job back, or takes it out.
LEMMA OperatorsLine ==
    ASSUME TypeOK, GateInv, LineInv, NEW j \in Jobs,
           \/ RetryWork(j) \/ ReEvaluate(j) \/ RetryPublish(j) \/ Revoke(j)
    PROVE  LineInv'
<1>1. Distinct(queue)
  BY DEF LineInv, OnePlace, QueueWaits
<1>2. Distinct(Without(queue, j)) /\ ToSet(Without(queue, j)) = ToSet(queue) \ {j}
  BY <1>1, QueueOps
<1>3. CASE RetryWork(j)
  <2>1. OnePlace'
    BY SMTT(60), <1>3, Types, NoneAssumption
    DEF LineInv, OnePlace, QueueWaits, TasksOwned, HandlerHolds, GateHolds,
       RecoveryOwns, GateApart, CanLand, Terminal, RetryWork, EnsureExec, execVars,
       Idle, LaunchWork, taskVars, actorVars, queueVars
  <2>2. Pumped'
    BY <1>3, Types, NoneAssumption
    DEF LineInv, Pumped, RetryWork, actorVars, queueVars, trunkVars
  <2>3. Driven'
    BY <1>3, Types, NoneAssumption
    DEF LineInv, Driven, RetryWork, EnsureExec, execVars, LaunchWork, actorVars,
       queueVars
  <2> QED
    BY <2>1, <2>2, <2>3 DEF LineInv
<1>4. CASE ReEvaluate(j)
  <2>1. OnePlace'
    BY SMTT(60), <1>4, Types, NoneAssumption
    DEF LineInv, OnePlace, QueueWaits, TasksOwned, HandlerHolds, GateHolds,
       RecoveryOwns, GateApart, CanLand, Terminal, ReEvaluate, EnsureExec, execVars,
       jobVars, taskVars, queueVars
  <2>2. Pumped'
    BY <1>4, Types, NoneAssumption
    DEF LineInv, Pumped, ReEvaluate, Idle, queueVars, trunkVars
  <2>3. Driven'
    BY <1>4, Types, NoneAssumption
    DEF LineInv, Driven, InHand, ReEvaluate, EnsureExec, execVars, Idle, jobVars,
       taskVars, queueVars
  <2> QED
    BY <2>1, <2>2, <2>3 DEF LineInv
<1>5. CASE RetryPublish(j)
  <2>1. QueueWaits'
    BY <1>5, Types, NoneAssumption
    DEF LineInv, OnePlace, QueueWaits, HandlerHolds, GateHolds, RecoveryOwns, GateApart,
       CanLand, RetryPublish, EnsureExec, execVars, Idle, actorVars, queueVars
  <2>2. GateHolds' /\ HandlerHolds' /\ RecoveryOwns' /\ GateApart'
    BY <1>5, Types, NoneAssumption
    DEF LineInv, OnePlace, QueueWaits, HandlerHolds, GateHolds, RecoveryOwns, GateApart,
       CanLand, RetryPublish, EnsureExec, execVars, Idle, actorVars, queueVars
  <2>3. TasksOwned'
    BY <1>5, Types, NoneAssumption
    DEF LineInv, OnePlace, TasksOwned, Terminal, RetryPublish, EnsureExec, execVars
  <2>4. OnePlace'
    BY <1>5, <2>1, <2>2, <2>3 DEF OnePlace
  <2>5. Pumped'
    BY <1>5, Types, NoneAssumption
    DEF LineInv, Pumped, RetryPublish, actorVars, queueVars, trunkVars
  <2>6. Driven'
    BY <1>5, Types, NoneAssumption
    DEF LineInv, Driven, RetryPublish, EnsureExec, execVars, actorVars, queueVars
  <2> QED
    BY <2>4, <2>5, <2>6 DEF LineInv
<1>6. CASE Revoke(j)
  <2>1. OnePlace'
    BY <1>6, <1>2, Types, NoneAssumption
    DEF LineInv, OnePlace, QueueWaits, TasksOwned, HandlerHolds, GateHolds,
       RecoveryOwns, GateApart, CanLand, Revoke, DropExec, Idle, taskVars
  <2>2. Pumped'
    BY <1>6, <1>2, Types, NoneAssumption DEF Pumped, Revoke
  <2>3. Driven'
    BY <1>6, <1>2, Types, NoneAssumption
    DEF LineInv, Driven, InHand, Revoke, DropExec, Idle, taskVars
  <2> QED
    BY <2>1, <2>2, <2>3 DEF LineInv
<1> QED
  BY <1>3, <1>4, <1>5, <1>6

\* The pump, the drain, the origin, and a crash.
LEMMA GlobalsLine ==
    ASSUME TypeOK, GateInv, LineInv,
           \/ PumpHolds \/ PumpPops \/ Drain \/ OriginRelease \/ ReleaseMerged
           \/ ReleaseClosed \/ FastForward \/ Crash \/ UNCHANGED vars
    PROVE  LineInv'
<1>1. queue \in Seq(Jobs) /\ Distinct(queue)
  BY Types DEF LineInv, OnePlace, QueueWaits
<1>2. PumpPops => /\ Head(queue) \in Jobs \cap ToSet(queue) /\ Distinct(Tail(queue))
                  /\ ToSet(Tail(queue)) = ToSet(queue) \ {Head(queue)}
  <2>1. PumpPops => queue # << >>
    BY DEF PumpPops
  <2> QED
    BY <1>1, <2>1, Popped, PopKeeps
<1>3. Crash => Distinct(queue') /\ ToSet(queue') = {}
  BY DEF Crash, Distinct, ToSet
<1>4. CASE PumpHolds
  BY <1>4, Types, NoneAssumption
  DEF LineInv, InHand, Pumped, Driven, OnePlace, QueueWaits, TasksOwned, HandlerHolds,
     GateHolds, RecoveryOwns, GateApart, CanLand, PumpHolds, ReturnFrom, execVars,
     jobVars, taskVars, queueVars, trunkVars
<1>5. CASE PumpPops
  <2>1. OnePlace'
    BY <1>5, <1>2, Types, NoneAssumption
    DEF LineInv, OnePlace, QueueWaits, TasksOwned, HandlerHolds, GateHolds,
       RecoveryOwns, GateApart, CanLand, PumpPops, execVars, jobVars, taskVars
  <2>2. Pumped'
    BY <1>5, <1>2, Types, NoneAssumption DEF Pumped, PumpPops
  <2>3. Driven'
    BY <1>5, <1>2, Types, NoneAssumption
    DEF LineInv, Driven, InHand, QueueWaits, HandlerHolds, GateHolds, RecoveryOwns,
       GateApart, PumpPops, execVars, jobVars, taskVars, trunkVars
  <2> QED
    BY <2>1, <2>2, <2>3 DEF LineInv
<1>6. CASE Drain
  BY <1>6, Types, NoneAssumption
  DEF LineInv, Pumped, Driven, OnePlace, QueueWaits, TasksOwned, HandlerHolds,
     GateHolds, RecoveryOwns, GateApart, CanLand, Drain, actorVars, execVars, jobVars,
     taskVars, queueVars
<1>7. CASE OriginRelease
  BY <1>7, Types, NoneAssumption
  DEF LineInv, Pumped, Driven, OnePlace, QueueWaits, TasksOwned, HandlerHolds,
     GateHolds, RecoveryOwns, GateApart, CanLand, OriginRelease, actorVars, execVars,
     jobVars, taskVars, queueVars
<1>8. CASE ReleaseMerged
  BY <1>8, Types, NoneAssumption
  DEF LineInv, InHand, Pumped, Driven, OnePlace, QueueWaits, TasksOwned, HandlerHolds,
     GateHolds, RecoveryOwns, GateApart, CanLand, ReleaseMerged, Idle, execVars,
     jobVars, taskVars, queueVars
<1>9. CASE ReleaseClosed
  BY <1>9, Types, NoneAssumption
  DEF LineInv, InHand, Pumped, Driven, OnePlace, QueueWaits, TasksOwned, HandlerHolds,
     GateHolds, RecoveryOwns, GateApart, CanLand, ReleaseClosed, Idle, execVars,
     jobVars, taskVars, queueVars
<1>10. CASE FastForward
  BY <1>10, Types, NoneAssumption
  DEF LineInv, Pumped, Driven, OnePlace, QueueWaits, TasksOwned, HandlerHolds,
     GateHolds, RecoveryOwns, GateApart, CanLand, FastForward, actorVars, execVars,
     jobVars, taskVars, queueVars
<1>11. CASE Crash
  BY <1>11, <1>3, Types, NoneAssumption
  DEF LineInv, InHand, Pumped, Driven, OnePlace, QueueWaits, TasksOwned, HandlerHolds,
     GateHolds, RecoveryOwns, GateApart, CanLand, Terminal, GateInv, GateOwned,
     LandingOwned, Crash, ReturnFrom, jobVars, taskVars, trunkVars
<1>12. CASE UNCHANGED vars
  BY <1>12
  DEF LineInv, OnePlace, Pumped, Driven, QueueWaits, GateHolds, HandlerHolds,
     RecoveryOwns, TasksOwned, GateApart, CanLand, vars, jobVars, taskVars, trunkVars,
     execVars, queueVars, actorVars
<1> QED
  BY <1>4, <1>5, <1>6, <1>7, <1>8, <1>9, <1>10, <1>11, <1>12

LEMMA RecoverWorkPlace ==
    ASSUME TypeOK, GateInv, OnePlace, NEW j \in Jobs, RecoverWork(j)
    PROVE  OnePlace'
<1>1. WorkRecovered(j) /\ Nowhere(j)
  <2>1. RecoveryOwns
    BY DEF OnePlace
  <2> QED
    BY <2>1, RecoveredWork, FromNowhere DEF WorkRecovered
<1>2. QueueWaits'
  BY <1>1 DEF WorkRecovered, Nowhere, OnePlace, QueueWaits, CanLand
<1>3. GateHolds'
  BY <1>1 DEF WorkRecovered, Nowhere, OnePlace, GateHolds, CanLand
<1>4. HandlerHolds'
  BY <1>1 DEF WorkRecovered, Nowhere, OnePlace, HandlerHolds, CanLand, TasksOwned
<1>5. RecoveryOwns'
  BY <1>1 DEF WorkRecovered, Nowhere, OnePlace, RecoveryOwns
<1>6. TasksOwned'
  BY <1>1 DEF WorkRecovered, Nowhere, OnePlace, TasksOwned, Terminal, taskVars
<1>7. GateApart'
  BY <1>1 DEF WorkRecovered, Nowhere, OnePlace, GateApart, Recovering
<1> QED
  BY <1>2, <1>3, <1>4, <1>5, <1>6, <1>7 DEF OnePlace

LEMMA RecoverEvaluationPlace ==
    ASSUME TypeOK, GateInv, OnePlace, NEW j \in Jobs, RecoverEvaluation(j)
    PROVE  OnePlace'
<1>1. Distinct(Enqueue(j)) /\ ToSet(Enqueue(j)) \subseteq ToSet(queue) \cup {j}
  BY Enqueued, Types DEF OnePlace, QueueWaits
<1>2. EvaluationRecovered(j) /\ Nowhere(j)
  <2>1. RecoveryOwns /\ TasksOwned
    BY DEF OnePlace
  <2> QED
    BY <2>1, RecoveredEvaluation, FromNowhere DEF EvaluationRecovered
<1>3. /\ gate'[j] = None /\ \A k \in Jobs \ {j} : gate'[k] = gate[k]
  BY <1>2, Types, Ensured, Dropped DEF Nowhere, RecoverEvaluation, RecoveredPass
<1>4. /\ pc' \in {"idle", "recover", "pump"} /\ (pc' = "idle" => recovering' = {})
      /\ cur' = cur
  BY DEF RecoverEvaluation, RecoveredPass, ReturnFrom
<1>5. QueueWaits'
  BY <1>1, <1>2 DEF EvaluationRecovered, Nowhere, OnePlace, QueueWaits, CanLand
<1>6. GateHolds'
  BY <1>1, <1>2, <1>3 DEF EvaluationRecovered, Nowhere, OnePlace, GateHolds, CanLand
<1>7. HandlerHolds'
  BY <1>4 DEF HandlerHolds
<1>8. RecoveryOwns'
  BY <1>1, <1>2, <1>3, <1>4
  DEF EvaluationRecovered, Nowhere, OnePlace, RecoveryOwns, Recovering
<1>9. TasksOwned'
  BY <1>2 DEF EvaluationRecovered, Nowhere, OnePlace, TasksOwned, Terminal
<1>10. GateApart'
  BY <1>1, <1>2 DEF EvaluationRecovered, Nowhere, OnePlace, GateApart, Recovering
<1> QED
  BY <1>5, <1>6, <1>7, <1>8, <1>9, <1>10 DEF OnePlace

LEMMA RecoverWrapUpPlace ==
    ASSUME TypeOK, GateInv, OnePlace, NEW j \in Jobs, RecoverWrapUp(j)
    PROVE  OnePlace'
<1>1. Distinct(Enqueue(j)) /\ ToSet(Enqueue(j)) \subseteq ToSet(queue) \cup {j}
  BY Enqueued, Types DEF OnePlace, QueueWaits
<1>2. WrapUpRecovered(j) /\ Nowhere(j)
  <2>1. RecoveryOwns
    BY DEF OnePlace
  <2> QED
    BY <2>1, RecoveredWrapUp, FromNowhere DEF WrapUpRecovered
<1>3. pc' = "idle" => recovering' = {}
  BY DEF RecoverWrapUp, ReturnFrom
<1>4. QueueWaits'
  BY <1>1, <1>2 DEF WrapUpRecovered, Nowhere, OnePlace, QueueWaits, CanLand
<1>5. GateHolds'
  BY <1>1, <1>2 DEF WrapUpRecovered, Nowhere, OnePlace, GateHolds, CanLand
<1>6. HandlerHolds'
  BY <1>2 DEF WrapUpRecovered, Nowhere, HandlerHolds
<1>7. RecoveryOwns'
  BY <1>1, <1>2, <1>3 DEF WrapUpRecovered, Nowhere, OnePlace, RecoveryOwns, Recovering
<1>8. TasksOwned'
  BY <1>2 DEF WrapUpRecovered, Nowhere, OnePlace, TasksOwned, Terminal
<1>9. GateApart'
  BY <1>1, <1>2 DEF WrapUpRecovered, Nowhere, OnePlace, GateApart, Recovering
<1> QED
  BY <1>4, <1>5, <1>6, <1>7, <1>8, <1>9 DEF OnePlace

\* A recovered job goes to one place.
LEMMA RecoveriesLine ==
    ASSUME TypeOK, GateInv, LineInv, NEW j \in Jobs,
           RecoverWork(j) \/ RecoverEvaluation(j) \/ RecoverWrapUp(j)
    PROVE  LineInv'
<1>1. pc = "recover" /\ Nowhere(j)
  BY FromNowhere DEF LineInv, OnePlace, RecoverWork, RecoverEvaluation, RecoverWrapUp,
     Recovering
<1>2. UNCHANGED <<held, draining, gating>> /\ recovering' = recovering \ {j}
  BY DEF RecoverWork, RecoverEvaluation, RecoverWrapUp, Recovering, trunkVars
<1>3. OnePlace'
  BY RecoverWorkPlace, RecoverEvaluationPlace, RecoverWrapUpPlace DEF LineInv
<1>4. Pumped'
  <2>1. queue' = queue \/ pc' = "pump"
    BY DEF RecoverWork, RecoverEvaluation, RecoveredPass, RecoverWrapUp
  <2> QED
    BY <1>1, <1>2, <2>1 DEF LineInv, Pumped
<1>5. Driven'
  <2>1. RecoveryOwns /\ TasksOwned /\ Distinct(queue)
    BY DEF LineInv, OnePlace, QueueWaits
  <2>2. ToSet(queue) \subseteq ToSet(queue')
    BY <2>1, QueueOps DEF RecoverWork, RecoverEvaluation, RecoveredPass, RecoverWrapUp
  <2>3. \A k \in Jobs \ {j} : /\ jstate'[k] = jstate[k] /\ publish'[k] = publish[k]
                              /\ (k \in exec' <=> k \in exec)
    BY ZenonT(60), <2>1, RecoveredWork, RecoveredEvaluation, RecoveredWrapUp
    DEF WorkRecovered, EvaluationRecovered, WrapUpRecovered
  <2>4. ASSUME jstate'[j] = "WrapUp"
        PROVE  /\ j \in exec'
               /\ j \in ToSet(queue') \/ publish'[j] = "running"
                  \/ (pc' = "shipped" /\ cur' = j) \/ gating = j
    <3>1. CASE RecoverWork(j)
      BY <2>1, <2>4, <3>1, RecoveredWork DEF WorkRecovered
    <3>2. CASE RecoverEvaluation(j)
      <4>1. EvaluationRecovered(j)
        BY <2>1, <3>2, RecoveredEvaluation
      <4>2. RecoveredPass(j)
        BY <2>4, <3>2, <4>1, Types
        DEF EvaluationRecovered, RecoverEvaluation, Escalate
      <4>3. EnsureExec(j) /\ queue' = Enqueue(j)
        BY <2>4, <4>2, Types DEF RecoveredPass
      <4> QED
        BY <2>1, <4>3, QueueOps, Ensured
    <3>3. CASE RecoverWrapUp(j)
      <4>1. EnsureExec(j) /\ publish' = publish
        BY <2>4, <3>3, Types DEF RecoverWrapUp, Escalate, jobVars, taskVars
      <4>2. queue' = Enqueue(j) \/ publish[j] = "running" \/ (pc' = "shipped" /\ cur' = j)
        BY <2>4, <3>3, Types DEF RecoverWrapUp, Escalate
      <4> QED
        BY <2>1, <4>1, <4>2, QueueOps, Ensured
    <3> QED
      BY <3>1, <3>2, <3>3
  <2> QED
    BY <1>1, <1>2, <2>2, <2>3, <2>4 DEF LineInv, Driven, InHand
<1> QED
  BY <1>3, <1>4, <1>5 DEF LineInv

LEMMA NextLine == TypeOK /\ GateInv /\ LineInv /\ [Next]_vars => LineInv'
<1> SUFFICES ASSUME TypeOK, GateInv, LineInv, [Next]_vars
             PROVE  LineInv'
  OBVIOUS
<1>1. CASE ActorStep
  BY <1>1, EvaluationsLine, LandingsLine, GatesLine, ReworksLine, ShippingsLine,
     RecoveriesLine, GlobalsLine DEF ActorStep
<1>2. CASE Phases
  BY <1>2, PhasesLine DEF Phases
<1>3. CASE GateExits \/ GateExpires
  BY <1>3, GatesLine DEF GateExits, GateExpires
<1>4. CASE \E j \in Jobs : PublishExits(j)
  BY <1>4, ShippingsLine DEF PublishExits
<1>5. CASE Operator
  BY <1>5, OperatorsLine, GlobalsLine DEF Operator
<1>6. CASE Origin \/ Crash \/ UNCHANGED vars
  BY <1>6, GlobalsLine DEF Origin
<1> QED
  BY <1>1, <1>2, <1>3, <1>4, <1>5, <1>6 DEF Next

LEMMA InitLine == Init => LineInv
<1> SUFFICES ASSUME Init
             PROVE  LineInv
  OBVIOUS
<1>1. Distinct(queue) /\ ToSet(queue) = {}
  BY DEF Init, Distinct, ToSet
<1> QED
  BY <1>1, NoneAssumption DEF Init, LineInv, OnePlace, QueueWaits, GateHolds, HandlerHolds,
     RecoveryOwns, TasksOwned, GateApart, Pumped, Driven, Terminal

LEMMA LineHolds == Spec => [](TypeOK /\ GateInv /\ LineInv)
BY InitLine, NextLine, TypeCorrect, GateInvHolds, PTL DEF Spec
--------------------------------------------------------------------------------
\* A step on a job that is not at the gate leaves the gate as it is.
LEMMA Elsewhere ==
    ASSUME TypeOK, GatingHeld, NEW j \in Jobs, gating # j, gating' = gating,
           pc \notin {"opening", "reduce"},
           \A k \in Jobs \ {j} : gate'[k] = gate[k] /\ (k \in exec => k \in exec')
    PROVE  GatingHeld'
BY Types DEF GatingHeld, QueueTyped

\* The job at the gate is in WrapUp, and in no handler but the gate's.
LEMMA AtGate ==
    ASSUME TypeOK, OnePlace, GatingHeld, gating # None
    PROVE  /\ gating \in Jobs /\ CanLand(gating)
           /\ pc # "opening" => gate[gating] # None
           /\ pc \in {"rebased", "pinned", "launch", "landed", "complete", "shipped",
                      "entry", "fanout"} => gating # cur
<1>1. gating \in Jobs
  BY Types DEF QueueTyped
<1>2. CASE pc = "opening" /\ cur = gating
  BY <1>1, <1>2 DEF OnePlace, HandlerHolds
<1>3. CASE gate[gating] # None
  BY <1>1, <1>3 DEF OnePlace, GateHolds, HandlerHolds
<1> QED
  BY <1>1, <1>2, <1>3 DEF GatingHeld

LEMMA ElseSlices ==
    ASSUME TypeOK, NEW j \in Jobs, UNCHANGED execVars \/ DropExec(j) \/ EnsureExec(j)
    PROVE  \A k \in Jobs \ {j} : gate'[k] = gate[k] /\ (k \in exec => k \in exec')
BY Dropped, Ensured DEF execVars

LEMMA ElsePhases ==
    ASSUME TypeOK, GateInv, OnePlace, GatingHeld, Steady, NEW j \in Jobs,
           WorkFinished(j) \/ EvalPassed(j) \/ PhaseEscalated(j)
    PROVE  GatingHeld'
<1>1. pc = "idle" /\ jstate[j] \in {"Work", "Evaluation"} /\ gating' = gating
  BY DEF WorkFinished, EvalPassed, PhaseEscalated, Idle, queueVars
<1>2. gating # j
  BY <1>1, AtGate, NoneAssumption DEF CanLand
<1>3. UNCHANGED execVars \/ DropExec(j)
  BY DEF WorkFinished, EvalPassed, PhaseEscalated, FinalizePass
<1> QED
  BY <1>1, <1>2, <1>3, ElseSlices, Elsewhere

LEMMA ElseFolds ==
    ASSUME TypeOK, GateInv, OnePlace, GatingHeld, Steady, NEW j \in Jobs,
           LandingRefused(j) \/ LandingError(j) \/ Completed(j)
    PROVE  GatingHeld'
<1>1. /\ pc \in {"start", "rebased", "pinned", "complete", "shipped"} /\ cur = j
      /\ gating' = gating /\ DropExec(j)
  BY DEF LandingRefused, LandingError, Completed, Landing, LandingEscalates, queueVars
<1>2. gating # j
  BY <1>1, AtGate, NoneAssumption DEF GateInv, LandingOwned
<1> QED
  BY <1>1, <1>2, ElseSlices, Elsewhere

LEMMA ElseOperators ==
    ASSUME TypeOK, GateInv, OnePlace, GatingHeld, Steady, NEW j \in Jobs,
           \/ RetryWork(j) \/ ReEvaluate(j) \/ RetryPublish(j)
           \/ \E pass \in BOOLEAN : PublishExited(j, pass)
    PROVE  GatingHeld'
<1>1. /\ pc = "idle" /\ (jstate[j] = "Escalated" \/ publish[j] = "running")
      /\ gating' = gating
  BY DEF RetryWork, ReEvaluate, RetryPublish, PublishExited, Idle, queueVars
<1>2. gating # j
  BY <1>1, AtGate, NoneAssumption DEF CanLand
<1>3. UNCHANGED execVars \/ DropExec(j) \/ EnsureExec(j)
  BY DEF RetryWork, ReEvaluate, RetryPublish, PublishExited
<1> QED
  BY <1>1, <1>2, <1>3, ElseSlices, Elsewhere

LEMMA ElseRecovered ==
    ASSUME TypeOK, GateInv, OnePlace, GatingHeld, Steady, NEW j \in Jobs,
           RecoverWork(j) \/ RecoverEvaluation(j) \/ RecoverWrapUp(j)
    PROVE  GatingHeld'
<1>1. pc = "recover" /\ gating' = gating /\ j \in recovering
  BY DEF RecoverWork, RecoverEvaluation, RecoverWrapUp, Recovering
<1>2. gating # j
  BY <1>1 DEF OnePlace, GateApart
<1>3. \/ DropExec(j) \/ EnsureExec(j)
      \/ UNCHANGED gate /\ exec' = exec \cup {j}
  BY DEF RecoverWork, RecoverEvaluation, RecoverWrapUp, RecoveredPass
<1> QED
  BY <1>1, <1>2, <1>3, ElseSlices, Elsewhere

LEMMA GateOpenedHeld ==
    ASSUME TypeOK, GateInv, OnePlace, GatingHeld, Steady, NEW j \in Jobs, GateOpened(j)
    PROVE  GatingHeld'
<1>1. gating = j /\ gating' = j /\ j \in exec' /\ gate \in [Jobs -> Rounds \cup {None}]
  BY Types DEF GateOpened, GateInv, LandingOwned, OnePlace, HandlerHolds, CanLand, queueVars
<1>2. gate'[j] = [oldHead |-> head, slots |-> OpenStage(NoSlots)]
  BY <1>1 DEF GateOpened
<1>3. OpenSlots(gate'[j].slots) # {}
  <2>1. Unlaunched(NoSlots) # {}
    BY StageAssumption DEF Unlaunched, NoSlots
  <2> QED
    BY <1>2, <2>1, StageOpens
<1>4. gate'[j] # None
  <2>1. OpenStage(NoSlots) \in [Evals -> SlotStates]
    BY DEF OpenStage, NoSlots, SlotStates
  <2>2. gate'[j] \in Rounds
    BY <1>2, <2>1, Types DEF Rounds
  <2> QED
    BY <2>2, RoundsAssumption
<1> QED
  BY <1>1, <1>3, <1>4 DEF GatingHeld

LEMMA GateExitedHeld ==
    ASSUME TypeOK, GateInv, OnePlace, GatingHeld, Steady, NEW j \in Jobs, NEW e \in Evals,
           NEW pass \in BOOLEAN, GateExited(j, e, pass)
    PROVE  GatingHeld'
<1> DEFINE slots == [gate[j].slots EXCEPT ![e] = IF pass THEN "pass" ELSE "fail"]
           staged == OpenSlots(slots) = {}
           advances == staged /\ Failed(slots) = {} /\ Unlaunched(slots) # {}
<1>1. /\ gate[j] \in Rounds /\ gate[j] # None /\ j \in exec
      /\ gating' = gating /\ exec' = exec
  BY Types DEF GateExited, GateRuns, queueVars
<1>2. gating = j
  BY <1>1 DEF GateInv, GateOwned
<1>3. /\ \/ ~advances /\ gate' = [gate EXCEPT ![j].slots = slots]
         \/ advances /\ gate' = [gate EXCEPT ![j].slots = OpenStage(slots)]
      /\ IF staged /\ ~advances THEN pc' = "reduce" /\ cur' = j ELSE UNCHANGED <<pc, cur>>
  BY DEF GateExited, Steady
<1>0. /\ slots \in [Evals -> SlotStates]
      /\ OpenStage(slots) \in [Evals -> SlotStates]
  BY <1>1 DEF Rounds, OpenStage, SlotStates
<1> HIDE DEF slots, staged, advances
<1>4. \A s : gate' = [gate EXCEPT ![j].slots = s] =>
              gate'[j].slots = s /\ gate'[j] = [gate[j] EXCEPT !.slots = s]
  BY <1>1, Types DEF Rounds
<1>5. gate'[j] # None
  <2>1. gate'[j] \in Rounds
    BY <1>0, <1>1, <1>3, <1>4 DEF Rounds
  <2> QED
    BY <2>1, RoundsAssumption
<1>6. OpenSlots(gate'[j].slots) # {} \/ (pc' = "reduce" /\ cur' = j)
  <2>1. CASE advances
    BY <1>3, <1>4, <2>1, StageOpens DEF advances
  <2>2. CASE ~advances
    BY <1>3, <1>4, <2>2 DEF staged
  <2> QED
    BY <2>1, <2>2
<1> QED
  BY <1>1, <1>2, <1>5, <1>6 DEF GatingHeld

LEMMA PhasesHeld ==
    ASSUME TypeOK, GateInv, OnePlace, GatingHeld, Steady, NEW j \in Jobs,
           \/ EvaluationHeld(j) \/ EvaluationEntered(j) \/ EvaluatorsLaunched(j)
           \/ EvalFailed(j)
    PROVE  GatingHeld'
<1>1. CASE EvaluationHeld(j)
  BY SMTT(30), <1>1, Types, NoneAssumption
  DEF GatingHeld, EvaluationHeld, execVars, queueVars
<1>2. CASE EvaluationEntered(j)
  BY SMTT(30), <1>2, Types, NoneAssumption
  DEF GatingHeld, EvaluationEntered, execVars, queueVars
<1>3. CASE EvaluatorsLaunched(j)
  BY SMTT(30), <1>3, Types, NoneAssumption
  DEF GatingHeld, EvaluatorsLaunched, execVars, queueVars
<1>4. CASE EvalFailed(j)
  BY SMTT(30), <1>4, Types, NoneAssumption
  DEF GatingHeld, EvalFailed, actorVars, queueVars
<1> QED
  BY <1>1, <1>2, <1>3, <1>4

LEMMA LandingsHeld ==
    ASSUME TypeOK, GateInv, OnePlace, GatingHeld, Steady, NEW j \in Jobs,
           \/ LandNothing(j) \/ LandUngated(j) \/ LandingUnread(j) \/ SquashConflict(j)
           \/ OpenGate(j)
    PROVE  GatingHeld'
<1>1. CASE LandNothing(j)
  BY SMTT(30), <1>1, Types, NoneAssumption
  DEF GatingHeld, LandNothing, Landing, execVars, queueVars
<1>2. CASE LandUngated(j)
  BY SMTT(30), <1>2, Types, NoneAssumption
  DEF GatingHeld, LandUngated, Landing, execVars, queueVars
<1>3. CASE LandingUnread(j)
  BY SMTT(30), <1>3, Types, NoneAssumption
  DEF GatingHeld, LandingUnread, Landing, execVars, queueVars
<1>4. CASE SquashConflict(j)
  BY SMTT(30), <1>4, Types, NoneAssumption
  DEF GatingHeld, SquashConflict, Landing, execVars
<1>5. CASE OpenGate(j)
  BY SMTT(30), <1>5, Types, NoneAssumption DEF GatingHeld, OpenGate, Landing
<1> QED
  BY <1>1, <1>2, <1>3, <1>4, <1>5

LEMMA GatesHeld ==
    ASSUME TypeOK, GateInv, OnePlace, GatingHeld, Steady, NEW j \in Jobs,
           \/ GateLaunchError(j) \/ GatePassed(j) \/ GateFailed(j)
           \/ \E e \in Evals : GateLaunchExpired(j, e)
    PROVE  GatingHeld'
<1>1. CASE GateLaunchError(j)
  BY SMTT(30), <1>1, Types, NoneAssumption DEF Steady, GateLaunchError
<1>2. CASE GatePassed(j)
  BY SMTT(30), <1>2, Types, NoneAssumption DEF GatingHeld, GatePassed, Reducing
<1>3. CASE GateFailed(j)
  BY SMTT(30), <1>3, Types, NoneAssumption DEF GatingHeld, GateFailed, Reducing
<1>4. CASE \E e \in Evals : GateLaunchExpired(j, e)
  BY SMTT(30), <1>4, Types, NoneAssumption DEF Steady, GateLaunchExpired
<1> QED
  BY <1>1, <1>2, <1>3, <1>4

LEMMA HandlersHeld ==
    ASSUME TypeOK, GateInv, OnePlace, GatingHeld, Steady, NEW j \in Jobs,
           \/ PinBase(j) \/ WorkEntryRefused(j) \/ WorkEntered(j) \/ WorkLaunched(j)
           \/ Landed(j) \/ Revoke(j)
    PROVE  GatingHeld'
<1>1. CASE PinBase(j)
  BY SMTT(30), <1>1, Types, NoneAssumption DEF GatingHeld, PinBase
<1>2. CASE WorkEntryRefused(j)
  BY SMTT(30), <1>2, Types, NoneAssumption
  DEF GatingHeld, WorkEntryRefused, execVars, queueVars
<1>3. CASE WorkEntered(j)
  BY SMTT(30), <1>3, Types, NoneAssumption DEF GatingHeld, WorkEntered, queueVars
<1>4. CASE WorkLaunched(j)
  BY SMTT(30), <1>4, Types, NoneAssumption
  DEF GatingHeld, WorkLaunched, execVars, queueVars
<1>5. CASE Landed(j)
  BY SMTT(30), <1>5, Types, NoneAssumption DEF GatingHeld, Landed, execVars, queueVars
<1>6. CASE Revoke(j)
  BY SMTT(30), <1>6, Types, NoneAssumption DEF GatingHeld, Revoke, DropExec, Idle
<1> QED
  BY <1>1, <1>2, <1>3, <1>4, <1>5, <1>6

LEMMA GlobalsHeld ==
    ASSUME TypeOK, GateInv, OnePlace, GatingHeld, Steady,
           \/ PumpHolds \/ PumpPops \/ Drain \/ OriginRelease \/ ReleaseMerged
           \/ ReleaseClosed \/ FastForward \/ Crash \/ UNCHANGED vars
    PROVE  GatingHeld'
<1>1. CASE PumpHolds
  BY SMTT(30), <1>1, Types, NoneAssumption
  DEF GatingHeld, PumpHolds, execVars, queueVars
<1>2. CASE PumpPops
  BY SMTT(30), <1>2, Types, NoneAssumption DEF GatingHeld, PumpPops
<1>3. CASE Drain
  BY SMTT(30), <1>3, Types, NoneAssumption
  DEF GatingHeld, Drain, actorVars, execVars, queueVars
<1>4. CASE OriginRelease
  BY SMTT(30), <1>4, Types, NoneAssumption DEF GatingHeld, OriginRelease, queueVars
<1>5. CASE ReleaseMerged
  BY SMTT(30), <1>5, Types, NoneAssumption
  DEF GatingHeld, ReleaseMerged, Idle, execVars, queueVars
<1>6. CASE ReleaseClosed
  BY SMTT(30), <1>6, Types, NoneAssumption
  DEF GatingHeld, ReleaseClosed, Idle, execVars, queueVars
<1>7. CASE FastForward
  BY SMTT(30), <1>7, Types, NoneAssumption
  DEF GatingHeld, FastForward, actorVars, execVars, queueVars
<1>8. CASE Crash
  BY SMTT(30), <1>8, Types, NoneAssumption DEF GatingHeld, Crash
<1>9. CASE UNCHANGED vars
  BY <1>9, Types DEF GatingHeld, vars, execVars, queueVars, actorVars
<1> QED
  BY <1>1, <1>2, <1>3, <1>4, <1>5, <1>6, <1>7, <1>8, <1>9

LEMMA NextGating ==
    ASSUME TypeOK, GateInv, OnePlace, GatingHeld, Steady, [Next]_vars
    PROVE  GatingHeld'
<1>1. CASE ActorStep
  BY <1>1, PhasesHeld, LandingsHeld, GateOpenedHeld, GatesHeld, HandlersHeld, ElseFolds,
     ElseRecovered, GlobalsHeld DEF ActorStep
<1>2. CASE Phases
  BY <1>2, ElsePhases, PhasesHeld DEF Phases
<1>3. CASE GateExits \/ GateExpires \/ \E j \in Jobs : PublishExits(j)
  BY <1>3, GateExitedHeld, GatesHeld, ElseOperators DEF GateExits, GateExpires, PublishExits
<1>4. CASE Operator
  BY <1>4, ElseOperators, HandlersHeld, GlobalsHeld DEF Operator
<1>5. CASE Origin \/ Crash \/ UNCHANGED vars
  BY <1>5, GlobalsHeld DEF Origin
<1> QED
  BY <1>1, <1>2, <1>3, <1>4, <1>5 DEF Next

LEMMA GatingHolds ==
    ASSUME Steady
    PROVE  Spec => [](TypeOK /\ GateInv /\ LineInv /\ GatingHeld)
<1>1. Init => GatingHeld
  BY DEF Init, GatingHeld
<1>2. TypeOK /\ GateInv /\ LineInv /\ GatingHeld /\ [Next]_vars => GatingHeld'
  BY NextGating DEF LineInv
<1> QED
  BY <1>1, <1>2, LineHolds, PTL DEF Spec
--------------------------------------------------------------------------------
\* A job's gate-fix rounds are counted in its slice, before they are stamped on a
\* task: the count covers the stamps, and is ahead of them while the task of a
\* counted round is not yet launched.
FixFits(j) ==
    /\ IsFiniteSet(fixes[j]) /\ Cardinality(fixes[j]) <= GATE_FIX_BUDGET
    /\ j \notin exec => ~execFix[j]
    /\ j \in exec =>
         /\ Cardinality(fixes[j]) <= fixUsed[j] /\ fixUsed[j] <= GATE_FIX_BUDGET
         /\ execFix[j] /\ execCycle[j] \notin fixes[j] => Cardinality(fixes[j]) < fixUsed[j]
         /\ asFix /\ cur = j /\ pc = "rebased" => fixUsed[j] < GATE_FIX_BUDGET
         /\ asFix /\ cur = j /\ pc = "pinned" => Cardinality(fixes[j]) < fixUsed[j]

\* Only the handler of a gate's verdict is on a gate fix.
FixOwned ==
    /\ asFix => pc \in {"rebased", "pinned", "launch"}
    /\ asFix \/ pc = "reduce" => cur \in exec
    /\ pc = "launch" /\ asFix => execFix[cur]

FixesFit == FixOwned /\ \A j \in Jobs : FixFits(j)

LEMMA FixTypes ==
    ASSUME TypeOK
    PROVE  /\ exec \subseteq Jobs /\ execFix \in [Jobs -> BOOLEAN] /\ asFix \in BOOLEAN
           /\ execCycle \in [Jobs -> Nat] /\ fixUsed \in [Jobs -> Nat]
           /\ fixes \in [Jobs -> SUBSET Nat] /\ cycle \in [Jobs -> Nat]
           /\ cur \in Jobs \cup {None}
BY DEF TypeOK, TasksTyped, ExecTyped, ActorTyped

\* A step that leaves a job's slice and stamps as they are, and does not put the
\* handler on its gate fix.
LEMMA FixKept ==
    ASSUME NEW j \in Jobs, FixFits(j),
           fixes'[j] = fixes[j], fixUsed'[j] = fixUsed[j], execFix'[j] = execFix[j],
           execCycle'[j] = execCycle[j], j \in exec' <=> j \in exec,
           asFix' /\ cur' = j /\ pc' \in {"rebased", "pinned"} =>
               asFix /\ cur = j /\ pc' = pc
    PROVE  FixFits(j)'
BY DEF FixFits

\* A slice dropped, or rebuilt with the count the stamps add up to.
LEMMA FixDropped ==
    ASSUME TypeOK, NEW j \in Jobs, FixFits(j), DropExec(j), fixes'[j] = fixes[j]
    PROVE  /\ FixFits(j)'
           /\ \A k \in Jobs \ {j} :
                 /\ fixUsed'[k] = fixUsed[k] /\ execFix'[k] = execFix[k]
                 /\ execCycle'[k] = execCycle[k] /\ (k \in exec' <=> k \in exec)
BY FixTypes DEF FixFits, DropExec

LEMMA Counted ==
    ASSUME NEW j \in Jobs, FixFits(j), NEW n \in FixesCounted(j)
    PROVE  n \in Nat /\ Cardinality(fixes[j]) <= n /\ n <= GATE_FIX_BUDGET
<1>1. CASE fixes[j] = {}
  BY <1>1, FS_EmptySet DEF FixesCounted, GATE_FIX_BUDGET
<1>2. CASE fixes[j] # {}
  BY <1>2 DEF FixesCounted, GATE_FIX_BUDGET
<1> QED
  BY <1>1, <1>2

LEMMA FixEnsured ==
    ASSUME TypeOK, NEW j \in Jobs, FixFits(j), EnsureExec(j), fixes'[j] = fixes[j],
           asFix' /\ cur' = j => pc' \notin {"rebased", "pinned"}
    PROVE  /\ FixFits(j)' /\ (execFix'[j] => j \in exec /\ execFix[j])
           /\ j \in exec => UNCHANGED execVars
           /\ \A k \in Jobs \ {j} :
                 /\ fixUsed'[k] = fixUsed[k] /\ execFix'[k] = execFix[k]
                 /\ execCycle'[k] = execCycle[k] /\ (k \in exec' <=> k \in exec)
<1>1. CASE j \in exec
  <2>1. UNCHANGED execVars
    BY <1>1 DEF EnsureExec
  <2> QED
    BY <1>1, <2>1 DEF execVars, FixFits
<1>2. CASE j \notin exec
  <2>1. PICK n \in FixesCounted(j) : fixUsed' = [fixUsed EXCEPT ![j] = n]
    BY <1>2 DEF EnsureExec
  <2>2. /\ fixUsed'[j] = n /\ ~execFix'[j] /\ j \in exec'
        /\ \A k \in Jobs \ {j} :
              /\ fixUsed'[k] = fixUsed[k] /\ execFix'[k] = execFix[k]
              /\ execCycle'[k] = execCycle[k] /\ (k \in exec' <=> k \in exec)
    BY <1>2, <2>1, FixTypes DEF EnsureExec
  <2> QED
    BY <1>2, <2>1, <2>2, Counted DEF FixFits
<1> QED
  BY <1>1, <1>2

\* Steps that stamp nothing, and drop or rebuild a slice between the handlers.
LEMMA SlicesFit ==
    ASSUME TypeOK, FixesFit, fixes' = fixes, asFix' => asFix,
           asFix' => UNCHANGED <<pc, cur, execVars>>,
           pc' = "reduce" => cur' \in exec',
           \/ UNCHANGED <<exec, execFix, execCycle, fixUsed>>
           \/ \E j \in Jobs : DropExec(j) \/ (EnsureExec(j) /\ ~asFix')
    PROVE  FixesFit'
<1>1. FixOwned'
  BY FixTypes DEF FixesFit, FixOwned, execVars
<1>2. CASE UNCHANGED <<exec, execFix, execCycle, fixUsed>>
  BY <1>1, <1>2, FixKept DEF FixesFit
<1>3. ASSUME NEW j \in Jobs, DropExec(j)
      PROVE  FixesFit'
  <2>1. FixFits(j)' /\ \A k \in Jobs \ {j} : FixFits(k)'
    BY <1>3, FixDropped, FixKept DEF FixesFit
  <2> QED
    BY <1>1, <2>1 DEF FixesFit
<1>4. ASSUME NEW j \in Jobs, EnsureExec(j), ~asFix'
      PROVE  FixesFit'
  <2>1. FixFits(j)' /\ \A k \in Jobs \ {j} : FixFits(k)'
    BY <1>4, FixEnsured, FixKept DEF FixesFit
  <2> QED
    BY <1>1, <2>1 DEF FixesFit
<1> QED
  BY <1>2, <1>3, <1>4

\* The stamps a launch adds.
LEMMA LaunchStamps ==
    ASSUME TypeOK, NEW j \in Jobs, NEW c \in Nat, NEW fix \in BOOLEAN,
           LaunchWork(j, c, fix)
    PROVE  /\ fix \/ fixes' = fixes
           /\ \A k \in Jobs \ {j} : fixes'[k] = fixes[k]
           /\ fixes'[j] \in {fixes[j], fixes[j] \cup {c}}
BY FixTypes DEF LaunchWork, taskVars

\* A launch of a counted round.
LEMMA StampFits ==
    ASSUME TypeOK, FixesFit, NEW j \in Jobs, j \in exec, execFix[j],
           LaunchWork(j, execCycle[j], TRUE), UNCHANGED execVars, ~asFix',
           pc' # "reduce"
    PROVE  FixesFit'
<1> DEFINE c == execCycle[j]
<1>1. /\ \A k \in Jobs \ {j} : fixes'[k] = fixes[k]
      /\ fixes'[j] \in {fixes[j], fixes[j] \cup {c}} /\ c \in Nat
  BY FixTypes, LaunchStamps
<1>2. FixFits(j)'
  <2>1. CASE fixes'[j] = fixes[j]
    BY <2>1, FixKept DEF FixesFit, execVars
  <2>2. CASE fixes'[j] = fixes[j] \cup {c} /\ c \notin fixes[j]
    <3>1. /\ IsFiniteSet(fixes'[j]) /\ Cardinality(fixes'[j]) = Cardinality(fixes[j]) + 1
      <4>1. IsFiniteSet(fixes[j])
        BY DEF FixesFit, FixFits
      <4>2. /\ IsFiniteSet(fixes[j] \cup {c})
            /\ Cardinality(fixes[j] \cup {c}) = Cardinality(fixes[j]) + 1
        <5> HIDE DEF c
        <5> QED
          BY <2>2, <4>1, FS_AddElement
      <4> QED
        BY <2>2, <4>2
    <3>2. /\ Cardinality(fixes[j]) < fixUsed[j] /\ fixUsed[j] <= GATE_FIX_BUDGET
          /\ Cardinality(fixes[j]) \in Nat /\ fixUsed[j] \in Nat
      BY <2>2, FixTypes, FS_CardinalityType DEF FixesFit, FixFits
    <3>3. Cardinality(fixes'[j]) <= fixUsed[j]
      BY <3>1, <3>2
    <3>4. c \in fixes'[j] /\ fixUsed'[j] = fixUsed[j] /\ exec' = exec /\ execCycle'[j] = c
      BY <2>2 DEF execVars
    <3> QED
      BY <3>1, <3>2, <3>3, <3>4 DEF FixFits, GATE_FIX_BUDGET
  <2> QED
    BY <1>1, <2>1, <2>2
<1>3. \A k \in Jobs \ {j} : FixFits(k)'
  BY <1>1, FixKept DEF FixesFit, execVars
<1>4. FixOwned'
  BY DEF FixOwned
<1> QED
  BY <1>2, <1>3, <1>4 DEF FixesFit

\* The steps on the counts: every other step is SlicesFit's.
LEMMA EvalFailedFits ==
    ASSUME TypeOK, OnePlace, FixesFit, NEW j \in Jobs, EvalFailed(j)
    PROVE  FixesFit'
<1>1. pc = "idle" /\ ~asFix /\ j \in exec
  BY DEF EvalFailed, Idle, FixesFit, FixOwned
<1>2. UNCHANGED <<pc, cur, asFix, exec, fixUsed>>
  BY DEF EvalFailed, actorVars
<1>3. CASE draining
  BY <1>1, <1>2, <1>3, SlicesFit DEF EvalFailed
<1>4. CASE ~draining
  <2>1. PICK c \in Nat : LaunchWork(j, c, FALSE)
    <3>1. LaunchWork(j, execCycle[j] + 1, FALSE)
      BY <1>4 DEF EvalFailed, EvalRework
    <3>2. execCycle[j] + 1 \in Nat
      BY FixTypes
    <3> QED
      BY <3>1, <3>2
  <2>2. /\ fixes' = fixes /\ ~execFix'[j]
        /\ \A k \in Jobs \ {j} : execCycle'[k] = execCycle[k] /\ execFix'[k] = execFix[k]
    BY <1>4, <2>1, LaunchStamps, FixTypes DEF EvalFailed, EvalRework
  <2>3. FixOwned'
    BY <1>1, <1>2 DEF FixOwned
  <2>4. FixFits(j)' /\ \A k \in Jobs \ {j} : FixFits(k)'
    BY <1>1, <1>2, <2>2, FixKept DEF FixesFit, FixFits
  <2> QED
    BY <2>3, <2>4 DEF FixesFit
<1> QED
  BY <1>3, <1>4

LEMMA GateFailedFits ==
    ASSUME TypeOK, OnePlace, FixesFit, NEW j \in Jobs, GateFailed(j)
    PROVE  FixesFit'
<1>1. /\ pc = "reduce" /\ cur = j /\ cur' = j /\ pc' = "rebased" /\ ~asFix /\ j \in exec
      /\ UNCHANGED <<exec, execFix, execCycle, fixUsed, fixes>> /\ asFix' = GetsFix(j)
  BY DEF GateFailed, Reducing, FixesFit, FixOwned, taskVars
<1>2. asFix' => fixUsed[j] < GATE_FIX_BUDGET
  BY <1>1 DEF GetsFix
<1>3. FixOwned'
  BY <1>1 DEF FixOwned
<1>4. FixFits(j)' /\ \A k \in Jobs \ {j} : FixFits(k)'
  BY <1>1, <1>2, FixKept DEF FixesFit, FixFits
<1> QED
  BY <1>3, <1>4 DEF FixesFit

LEMMA PinBaseFits ==
    ASSUME TypeOK, OnePlace, FixesFit, NEW j \in Jobs, PinBase(j)
    PROVE  FixesFit'
<1>1. /\ pc = "rebased" /\ cur = j /\ cur' = j /\ pc' = "pinned" /\ asFix' = asFix
      /\ UNCHANGED <<exec, execFix, execCycle, fixes>>
  BY DEF PinBase, taskVars
<1>2. /\ \A k \in Jobs \ {j} : fixUsed'[k] = fixUsed[k]
      /\ fixUsed[j] \in Nat /\ fixUsed'[j] = IF asFix THEN fixUsed[j] + 1 ELSE fixUsed[j]
  BY FixTypes DEF PinBase
<1>3. FixOwned'
  BY <1>1 DEF FixesFit, FixOwned
<1>4. \A k \in Jobs \ {j} : FixFits(k)'
  BY <1>1, <1>2, FixKept DEF FixesFit
<1>5. FixFits(j)'
  <2>1. IsFiniteSet(fixes[j]) /\ Cardinality(fixes[j]) \in Nat
    BY FS_CardinalityType DEF FixesFit, FixFits
  <2> QED
    BY <1>1, <1>2, <2>1 DEF FixesFit, FixFits, GATE_FIX_BUDGET
<1> QED
  BY <1>3, <1>4, <1>5 DEF FixesFit

LEMMA WorkEnteredFits ==
    ASSUME TypeOK, OnePlace, FixesFit, NEW j \in Jobs, WorkEntered(j)
    PROVE  FixesFit'
<1>1. /\ pc = "pinned" /\ cur = j /\ cur' = j /\ pc' = "launch" /\ asFix' = asFix
      /\ UNCHANGED <<exec, fixUsed, fixes>> /\ j \in exec
  BY DEF WorkEntered, taskVars, OnePlace, HandlerHolds, CanLand
<1>2. /\ \A k \in Jobs \ {j} : execCycle'[k] = execCycle[k] /\ execFix'[k] = execFix[k]
      /\ execFix'[j] = asFix
  BY FixTypes DEF WorkEntered
<1>3. FixOwned'
  BY <1>1, <1>2 DEF FixesFit, FixOwned
<1>4. FixFits(j)' /\ \A k \in Jobs \ {j} : FixFits(k)'
  BY <1>1, <1>2, FixKept DEF FixesFit, FixFits
<1> QED
  BY <1>3, <1>4 DEF FixesFit

LEMMA WorkLaunchedFits ==
    ASSUME TypeOK, OnePlace, FixesFit, NEW j \in Jobs, WorkLaunched(j)
    PROVE  FixesFit'
<1>1. /\ pc = "launch" /\ cur = j /\ pc' = "pump" /\ ~asFix' /\ UNCHANGED execVars
      /\ LaunchWork(j, execCycle[j], asFix)
  BY DEF WorkLaunched
<1>2. CASE asFix
  <2>1. j \in exec /\ execFix[j]
    BY <1>1, <1>2 DEF FixesFit, FixOwned
  <2>2. LaunchWork(j, execCycle[j], TRUE)
    BY <1>1, <1>2
  <2> QED
    BY <1>1, <2>1, <2>2, StampFits
<1>3. CASE ~asFix
  <2>1. LaunchWork(j, execCycle[j], FALSE) /\ execCycle[j] \in Nat
    BY <1>1, <1>3, FixTypes
  <2>2. fixes' = fixes
    BY <2>1, LaunchStamps
  <2> QED
    BY <1>1, <2>2, SlicesFit DEF execVars
<1> QED
  BY <1>2, <1>3, FixTypes

LEMMA RetryWorkFits ==
    ASSUME TypeOK, OnePlace, FixesFit, NEW j \in Jobs, RetryWork(j)
    PROVE  FixesFit'
<1>1. /\ pc = "idle" /\ pc' = pc /\ cur' = cur /\ asFix' = asFix /\ ~asFix /\ EnsureExec(j)
      /\ LaunchWork(j, execCycle'[j], execFix'[j])
      /\ execCycle'[j] \in Nat /\ execFix'[j] \in BOOLEAN
  BY Ensured DEF RetryWork, Idle, FixesFit, FixOwned, actorVars
<1>2. CASE execFix'[j]
  <2>1. j \in exec /\ execFix[j] /\ UNCHANGED execVars
    <3>1. CASE j \in exec
      BY <1>1, <1>2, <3>1 DEF EnsureExec, execVars
    <3>2. CASE j \notin exec
      BY <1>1, <1>2, <3>2, FixTypes DEF EnsureExec
    <3> QED
      BY <3>1, <3>2
  <2>2. LaunchWork(j, execCycle[j], TRUE)
    <3>1. execCycle'[j] = execCycle[j]
      BY <2>1 DEF execVars
    <3> QED
      BY <1>1, <1>2, <3>1
  <2> QED
    BY <1>1, <2>1, <2>2, StampFits
<1>3. CASE ~execFix'[j]
  <2>1. LaunchWork(j, execCycle'[j], FALSE)
    BY <1>1, <1>3
  <2>2. fixes' = fixes
    BY <1>1, <2>1, LaunchStamps
  <2> QED
    BY <1>1, <2>2, SlicesFit
<1> QED
  BY <1>1, <1>2, <1>3

LEMMA RecoveriesFit ==
    ASSUME TypeOK, OnePlace, FixesFit, NEW j \in Jobs,
           RecoverWork(j) \/ RecoverEvaluation(j) \/ RecoverWrapUp(j)
    PROVE  FixesFit'
<1>1. /\ pc = "recover" /\ asFix' = asFix /\ ~asFix /\ j \notin exec
      /\ pc' # "reduce" /\ cycle[j] \in Nat /\ cycle[j] + 1 \in Nat
  <2>1. pc = "recover" /\ asFix' = asFix /\ j \in recovering
    BY DEF RecoverWork, RecoverEvaluation, RecoverWrapUp, Recovering
  <2>2. pc' # "reduce"
    BY DEF RecoverWork, RecoverEvaluation, RecoverWrapUp, RecoveredPass, ReturnFrom
  <2> QED
    BY <2>1, <2>2, FixTypes DEF FixesFit, FixOwned, OnePlace, RecoveryOwns
<1>2. \/ UNCHANGED fixes
      \/ \E c \in {cycle[j], cycle[j] + 1} : LaunchWork(j, c, FALSE)
  BY DEF RecoverWork, RecoverEvaluation, RecoverWrapUp, RecoveredPass, taskVars, jobVars
<1>3. fixes' = fixes
  BY <1>1, <1>2, LaunchStamps
<1>4. CASE DropExec(j) \/ EnsureExec(j)
  BY <1>1, <1>3, <1>4, SlicesFit
<1>5. ASSUME exec' = exec \cup {j}, UNCHANGED execFix,
             execCycle' = [execCycle EXCEPT ![j] = cycle[j] + 1],
             NEW n \in FixesCounted(j), fixUsed' = [fixUsed EXCEPT ![j] = n]
      PROVE  FixesFit'
  <2>1. /\ fixUsed'[j] = n /\ execFix'[j] = execFix[j] /\ j \in exec'
        /\ \A k \in Jobs \ {j} : /\ fixUsed'[k] = fixUsed[k] /\ execCycle'[k] = execCycle[k]
                                 /\ execFix'[k] = execFix[k] /\ (k \in exec' <=> k \in exec)
    BY <1>5, FixTypes
  <2>2. FixFits(j)'
    BY <1>1, <1>3, <2>1, Counted DEF FixesFit, FixFits
  <2>3. \A k \in Jobs \ {j} : FixFits(k)'
    BY <1>1, <1>3, <2>1, FixKept DEF FixesFit
  <2>4. FixOwned'
    BY <1>1 DEF FixOwned
  <2> QED
    BY <2>2, <2>3, <2>4 DEF FixesFit
<1>6. \/ DropExec(j) \/ EnsureExec(j)
      \/ /\ exec' = exec \cup {j} /\ UNCHANGED execFix
         /\ execCycle' = [execCycle EXCEPT ![j] = cycle[j] + 1]
         /\ \E n \in FixesCounted(j) : fixUsed' = [fixUsed EXCEPT ![j] = n]
  BY DEF RecoverWork, RecoverEvaluation, RecoverWrapUp, RecoveredPass
<1> QED
  BY <1>4, <1>5, <1>6

\* The steps that leave the stamps alone: a slice is kept, dropped, or rebuilt.
LEMMA OthersFit ==
    ASSUME TypeOK, OnePlace, FixesFit, NEW j \in Jobs,
           \/ WorkFinished(j) \/ EvalPassed(j) \/ PhaseEscalated(j)
           \/ EvaluationHeld(j) \/ EvaluationEntered(j) \/ EvaluatorsLaunched(j)
           \/ LandingRefused(j) \/ LandingError(j) \/ LandNothing(j) \/ LandUngated(j)
           \/ LandingUnread(j) \/ SquashConflict(j) \/ OpenGate(j) \/ GateOpened(j)
           \/ GateLaunchError(j) \/ GatePassed(j) \/ WorkEntryRefused(j)
           \/ Landed(j) \/ Completed(j) \/ ReEvaluate(j) \/ RetryPublish(j) \/ Revoke(j)
           \/ \E pass \in BOOLEAN : PublishExited(j, pass)
           \/ \E e \in Evals : GateLaunchExpired(j, e)
           \/ \E e \in Evals, pass \in BOOLEAN : GateExited(j, e, pass)
    PROVE  FixesFit'
<1>1. fixes' = fixes
  BY DEF WorkFinished, EvalPassed, PhaseEscalated, EvaluationHeld, EvaluationEntered,
     EvaluatorsLaunched, LandingRefused, LandingError, LandingEscalates, LandNothing,
     LandUngated, LandingUnread, SquashConflict, OpenGate, GateOpened, GateLaunchError,
     GatePassed, WorkEntryRefused, Landed, Completed, ReEvaluate, RetryPublish, Revoke,
     PublishExited, GateLaunchExpired, GateExited, taskVars, jobVars
<1>2. ~asFix'
  <2>1. ~asFix \/ asFix' = FALSE
    BY DEF FixesFit, FixOwned, WorkFinished, EvalPassed, PhaseEscalated, EvaluationHeld,
       EvaluationEntered, EvaluatorsLaunched, LandingRefused, LandingError,
       LandingEscalates, LandNothing, LandUngated, LandingUnread, SquashConflict, OpenGate,
       GateOpened, GateLaunchError, GatePassed, Reducing, WorkEntryRefused, Landed,
       Completed, ReEvaluate, RetryPublish, Revoke, PublishExited, GateLaunchExpired,
       GateExited, GateRuns, Landing, Idle
  <2>2. asFix' = asFix \/ asFix' = FALSE
    BY DEF WorkFinished, EvalPassed, PhaseEscalated, EvaluationHeld, EvaluationEntered,
       EvaluatorsLaunched, LandingRefused, LandingError, LandingEscalates, LandNothing,
       LandUngated, LandingUnread, SquashConflict, OpenGate, GateOpened, GateLaunchError,
       GatePassed, WorkEntryRefused, Landed, Completed, ReEvaluate, RetryPublish, Revoke,
       PublishExited, GateLaunchExpired, GateExited, actorVars
  <2> QED
    BY <2>1, <2>2
<1>3. pc' = "reduce" => cur' \in exec'
  BY DEF FixesFit, FixOwned, WorkFinished, EvalPassed, PhaseEscalated, EvaluationHeld,
     EvaluationEntered, EvaluatorsLaunched, LandingRefused, LandingError,
     LandingEscalates, LandNothing, LandUngated, LandingUnread, SquashConflict, OpenGate,
     GateOpened, GateLaunchError, GatePassed, Reducing, WorkEntryRefused, Landed,
     Completed, ReEvaluate, RetryPublish, Revoke, PublishExited, GateLaunchExpired,
     GateExited, GateRuns, Landing, Idle, FinalizePass, ReturnFrom, actorVars
<1>4. \/ UNCHANGED <<exec, execFix, execCycle, fixUsed>>
      \/ DropExec(j) \/ EnsureExec(j)
  BY DEF WorkFinished, EvalPassed, PhaseEscalated, EvaluationHeld, EvaluationEntered,
     EvaluatorsLaunched, LandingRefused, LandingError, LandingEscalates, LandNothing,
     LandUngated, LandingUnread, SquashConflict, OpenGate, GateOpened, GateLaunchError,
     GatePassed, Reducing, WorkEntryRefused, Landed, Completed, ReEvaluate, RetryPublish,
     Revoke, PublishExited, GateLaunchExpired, GateExited, FinalizePass, execVars
<1> QED
  BY <1>1, <1>2, <1>3, <1>4, SlicesFit

LEMMA GlobalsFit ==
    ASSUME TypeOK, OnePlace, FixesFit,
           \/ PumpHolds \/ PumpPops \/ Drain \/ OriginRelease \/ ReleaseMerged
           \/ ReleaseClosed \/ FastForward \/ Crash \/ UNCHANGED vars
    PROVE  FixesFit'
<1>1. CASE Crash
  <2>1. /\ exec' = {} /\ execFix' = [j \in Jobs |-> FALSE] /\ asFix' = FALSE
        /\ fixes' = fixes /\ pc' # "reduce"
    BY <1>1 DEF Crash, ReturnFrom, jobVars, taskVars
  <2>2. FixOwned' /\ \A j \in Jobs : FixFits(j)'
    BY <2>1 DEF FixesFit, FixOwned, FixFits
  <2> QED
    BY <2>2 DEF FixesFit
<1>2. CASE UNCHANGED vars
  <2>1. /\ UNCHANGED <<exec, execFix, execCycle, fixUsed, fixes>>
        /\ UNCHANGED <<pc, cur, asFix>>
    BY <1>2 DEF vars, jobVars, taskVars, execVars, actorVars
  <2>2. FixOwned' /\ \A j \in Jobs : FixFits(j)'
    BY <2>1 DEF FixesFit, FixOwned, FixFits
  <2> QED
    BY <2>2 DEF FixesFit
<1>3. CASE \/ PumpHolds \/ PumpPops \/ Drain \/ OriginRelease \/ ReleaseMerged
           \/ ReleaseClosed \/ FastForward
  <2>1. /\ fixes' = fixes /\ asFix' = asFix /\ ~asFix /\ pc' # "reduce"
        /\ UNCHANGED <<exec, execFix, execCycle, fixUsed>>
    BY <1>3 DEF PumpHolds, PumpPops, Drain, OriginRelease, ReleaseMerged, ReleaseClosed,
       FastForward, ReturnFrom, Idle, FixesFit, FixOwned, jobVars, taskVars, execVars,
       actorVars
  <2> QED
    BY <2>1, SlicesFit
<1> QED
  BY <1>1, <1>2, <1>3

LEMMA NextFits ==
    ASSUME TypeOK, OnePlace, FixesFit, [Next]_vars
    PROVE  FixesFit'
<1>1. ASSUME NEW j \in Jobs,
             \/ EvalFailed(j) \/ GateFailed(j) \/ PinBase(j) \/ WorkEntered(j)
             \/ WorkLaunched(j) \/ RetryWork(j)
      PROVE  FixesFit'
  BY <1>1, EvalFailedFits, GateFailedFits, PinBaseFits, WorkEnteredFits, WorkLaunchedFits,
     RetryWorkFits
<1>2. CASE ActorStep
  BY <1>1, <1>2, RecoveriesFit, OthersFit, GlobalsFit DEF ActorStep
<1>3. CASE Phases
  BY <1>1, <1>3, OthersFit DEF Phases
<1>4. CASE GateExits \/ GateExpires \/ \E j \in Jobs : PublishExits(j)
  BY <1>4, OthersFit DEF GateExits, GateExpires, PublishExits
<1>5. CASE Operator
  BY <1>1, <1>5, OthersFit, GlobalsFit DEF Operator
<1>6. CASE Origin \/ Crash \/ UNCHANGED vars
  BY <1>6, GlobalsFit DEF Origin
<1> QED
  BY <1>2, <1>3, <1>4, <1>5, <1>6 DEF Next

LEMMA InitFits == Init => FixesFit
<1> SUFFICES ASSUME Init
             PROVE  FixesFit
  OBVIOUS
<1>1. IsFiniteSet({}) /\ Cardinality({}) = 0
  BY FS_EmptySet
<1>2. GATE_FIX_BUDGET \in Nat
  BY DEF GATE_FIX_BUDGET
<1>3. FixOwned
  BY DEF Init, FixOwned
<1>4. \A j \in Jobs : FixFits(j)
  BY <1>1, <1>2 DEF Init, FixFits
<1> QED
  BY <1>3, <1>4 DEF FixesFit
--------------------------------------------------------------------------------
\* Between messages a job in WrapUp waits in the queue, is at its gate or has its
\* publish running, and has its slice: whatever was lost to a crash, a conflict, a
\* failed round or a full landing line, none is left for nobody to move on.
THEOREM NoneIsLost == Spec => []WrapUpIsDriven
<1>1. LineInv => WrapUpIsDriven
  <2> SUFFICES ASSUME LineInv, Idle, ~draining, NEW j \in Jobs, jstate[j] = "WrapUp"
               PROVE  /\ j \in ToSet(queue) \/ gating = j \/ publish[j] = "running"
                      /\ j \in exec
    BY DEF WrapUpIsDriven
  <2>1. recovering = {} /\ pc \notin InHand
    BY DEF LineInv, OnePlace, RecoveryOwns, Idle, InHand
  <2> QED
    BY <2>1 DEF LineInv, Driven
<1> QED
  BY <1>1, LineHolds, PTL

\* The landing line holds jobs in WrapUp only, each once, and none that is at the
\* gate.
THEOREM WaitsInWrapUp ==
    ASSUME Steady
    PROVE  Spec => []QueueIsWrapUp
<1>1. TypeOK /\ LineInv /\ GatingHeld => QueueIsWrapUp
  <2> SUFFICES ASSUME TypeOK, LineInv, GatingHeld
               PROVE  QueueIsWrapUp
    OBVIOUS
  <2>1. \A i \in DOMAIN queue : queue[i] \in ToSet(queue)
    BY DEF ToSet
  <2>2. gating # None => jstate[gating] = "WrapUp" /\ gating \notin ToSet(queue)
    BY AtGate DEF LineInv, OnePlace, GateApart, CanLand
  <2> QED
    BY <2>1, <2>2 DEF LineInv, OnePlace, QueueWaits, Distinct, CanLand, QueueIsWrapUp
<1> QED
  BY <1>1, GatingHolds, PTL

\* Nothing in the pipeline stands still with nobody to move it: a gate has a round
\* with a command out, a line that nothing holds has been pumped, and every job in
\* WrapUp is driven.
THEOREM PipelineDriven ==
    ASSUME Steady
    PROVE  Spec => []PipelineIsDriven
<1>1. GatingHeld => GateIsLive
  BY DEF GatingHeld, GateIsLive, Idle
<1>2. LineInv => QueueIsPumped
  BY DEF LineInv, Pumped, QueueIsPumped, Idle
<1> QED
  BY <1>1, <1>2, NoneIsLost, GatingHolds, PTL DEF PipelineIsDriven

\* However rounds, retries, restarts and recreated slices fall, a job gets no more
\* gate-fix rounds than the budget.
THEOREM FixesAreBounded == Spec => []GateFixBudget
<1>1. TypeOK /\ LineInv /\ FixesFit /\ [Next]_vars => FixesFit'
  BY NextFits DEF LineInv
<1>2. FixesFit => GateFixBudget
  BY DEF FixesFit, FixFits, GateFixBudget
<1> QED
  BY <1>1, <1>2, InitFits, LineHolds, PTL DEF Spec
==============================================================================
