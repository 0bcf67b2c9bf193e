# Chuggernaut: a TLA+ verification project

Chuggernaut runs jobs (agent, command or human work on a git branch) through
authoring, execution, evaluation and landing.  One process, the *dispatcher*,
decides everything; *worker* daemons on the nodes of a fleet run the containers
and host tasks; projects may be linked to an *origin* repository and have
recurring schedules.  This directory holds TLA+ models of these parts, TLC
instances of them, and TLAPS proofs about them.

Paths below are relative to `src/crates/`; `dispatcher/`, `domain/`, `vcs/`,
`worker/` and `container/` stand for those crates' `src/` directories.

| file | what it is |
| --- | --- |
| `MergeGate.tla` | the landing pipeline: queue, gate, promote, rework, publish, drain, releases, restart |
| `Trunk.tla` | what that pipeline promises of the default branch; `MergeGate` implements it |
| `JobGraph.tla` | authoring, dependencies, batches, the ready queue, completion, restart |
| `Precedence.tla` | what the job graph promises of the order of work; `JobGraph` implements it |
| `Execution.tla` | one job's cycles of work and evaluation: task log, containers, rounds, escalation, restart |
| `NodeCapacity.tla`, `Queues.tla`, `Fleet.tla` | the capacity protocol, the queue operations, and over both the placement of launches and the launch queue |
| `HostTasks.tla`, `Worker.tla` | the tasks of a worker node, and over them the daemon: launch gate, self-refresh, cancel, GC roots |
| `Cron.tla`, `Schedules.tla`, `Origin.tla`, `Upkeep.tla` | cron occurrences, the schedule table, origin releases, and the three composed for one project |
| `MC*.tla`, `*.cfg` | instances for TLC |
| `MergeGate_proofs.tla` | types, the gate and the hold, nothing lands untested, `MergeGate` implements `Trunk`, no landing is lost, the gate-fix budget |
| `Execution_proofs.tla`, `Execution_kept_proofs.tla` | types and slots; one task at a time, a true inbox, what lands |
| `JobGraph_proofs.tla`, `Worker_proofs.tla`, `Upkeep_proofs.tla`, `Queues_proofs.tla`, `Fleet_proofs.tla` | theorems about the other modules |
| `PROJECT.json` | components, runs, mutants, source map, hazards, findings, theorems |

## 1. Inventory

### The shape of the system

The dispatcher is a **single-writer actor** (`dispatcher/core.rs`,
`DispatcherCore::run`): one mailbox, one handler at a time, each handler run to
its end.  Handlers are `async` and await NATS KV writes, git commands and
container launches on the way, but no other message is handled meanwhile.  What
does run concurrently is outside: containers and the monitors that report their
exits, the placements of agents, the worker daemons, the operators' requests,
and the origin repository.  The process may die at any await.  On restart
`reconcile` rebuilds the in-memory state from the job records, the task log and
git.

Most handlers are a pure *decision* (`domain/decide/*.rs`: a view and an event
to transitions, effects and a step) run by a *fold* in the dispatcher
(`eval.rs`, `exec.rs`, `ready.rs`, `interpret.rs`) that gathers the view,
applies the effects and feeds their outcomes back as the next event.

The worker daemon is a second concurrent program: its launch handlers, the
self-refresh, the cancel of one, the root reaper and the per-task reapers run
beside each other and share a few atomics (`worker/daemon.rs`, `RefreshGate`).

### Components

| component | state it keeps | operations | interacts with | what makes it correct | module |
| --- | --- | --- | --- | --- | --- |
| landing pipeline (`domain/decide/merge_gate.rs`, `wrapup.rs`, `dispatcher/eval.rs`, `vcs/lib.rs`) | per project: queue, `gating`, `pending_rework`; per job: gate round, gate-fix count, `base_ref`; the default branch | finalize, pump, land, open gate, gate exit, reduce, rework, gate fix, publish, complete | evaluation, origin releases (hold), drain, revoke, launch queue | nothing lands untested; nothing is lost or Done without having landed; the queue never stops for nothing | `MergeGate` |
| work and evaluation (`domain/decide/work.rs`, `eval.rs`, `dispatcher/exec.rs`) | execution slice (`ExecState`): cycle, attempt, evaluation round, rework counters; tasks | enter work, attempt, exit, infra loss, submit, stage fan-out, reduce, rework | landing, launch queue, scans, resolutions | one attempt at a time; budgets hold; what lands was evaluated; a late exit changes nothing | `Execution` |
| escalation and resolution (`domain/decide/escalation.rs`, `dispatcher/core.rs`, `exec.rs`) | Escalated or Stalled jobs, inbox tasks, phase to retry at | escalate, stall, retry, resolve, claim, close | all phases | a parked job has one open inbox task; a resolution answers its own escalation | `Execution`, `JobGraph` |
| authoring, graph, batches (`domain/graph.rs`, `release.rs`, `decide/authoring.rs`, `dispatcher/core.rs`) | jobs, `deps`, `rdeps`, members | create, update, draft, edit members, finalize, release, revoke (cascade), absorb, unbatch | ready queue, `on_job_done` | acyclic graph that agrees with the records; a job runs only after its dependencies; members follow their batch | `JobGraph` |
| ready queue (`domain/queue.rs`, `decide/ready.rs`, `dispatcher/ready.rs`) | FIFO of Ready jobs, claims | try_unblock, start_job, drain_queue, stall, rescan | graph, work entry | a Ready job is queued; only Ready jobs are | `JobGraph` |
| launch queue (`dispatcher/launch_queue.rs`) | deferred launches by priority | defer, drain, resume, expire | every launch, scans | a Pending task is queued once; nothing waits for ever | `Fleet` |
| fleet capacity and placement (`dispatcher/capacity.rs`, `worker/capacity.rs`, `worker/backend.rs`) | slots wanted and observed per node, pushes in flight, reservations | announce, ping, set, reconcile, push, place | launch queue | observations are never ahead of the node; a node is not overfilled; it ends at the slots asked of it | `NodeCapacity`, `Fleet` |
| worker daemon and backends (`worker/daemon.rs`, `container/host.rs`, `docker.rs`) | refresh gate, roots, task directories, live set | launch, status, kill, remove, refresh, cancel, reap | dispatcher, engine, nix store | one host task per node; a swap finds the node quiet; an exit read is real; a root outlives its task | `HostTasks`, `Worker` |
| restart reconciliation (`dispatcher/reconcile.rs`) | none of its own | recover work, evaluation, wrap-up; heal inbox; sweep containers; rescan | all | the state before the crash is resumed, nothing twice | all |
| origin releases (`dispatcher/forge_ingest/origin.rs`) | the project's release record, pins, the hold | release, sync (merged, closed, fast-forward) | landing, default branch | work landed here survives the reset to the merged release | `Origin`, `MergeGate` |
| schedules (`domain/decide/schedule.rs`, `dispatcher/schedules.rs`, `types/cron.rs`) | schedule table, anchors | refresh, fire, skip | create_job, landings | one live job per schedule; no occurrence twice; missed ones coalesce | `Cron`, `Schedules` |
| scans (`dispatcher/scan.rs`) | none | task timeouts, job deadlines, heartbeats, launch-queue expiry, schedules | all | everything that waits has a clock | all |
| drain (`dispatcher/core.rs`) | `draining` | drain, flush | launches, queues | nothing new starts, nothing is lost | all |
| invariant checker (`dispatcher/invariants.rs`) | none | six checks after every message | graph, queues | its checks are invariants of the models | `MergeGate`, `JobGraph`, `Execution` |
| store, API, auth, CLI, web, secrets, knowledge, harness, channel, webhooks, platform | records and wire types | adapters | dispatcher | no protocol state of their own: not modelled | |

### What is hard here

* **Awaits inside a handler, and crashes at them.** A rework is a branch
  rebase, a job put, a transition, a slice update and a task create; a crash
  may fall between any two, and recovery has to infer which were done.
* **`base_ref` as evidence.** The fast path lands without a gate when the head
  equals `base_ref`.  Every path that re-enters the pipeline has to keep
  `base_ref` meaning "what the checks ran on".
* **A queue with three holds.** A landing waits for the gate, a release and a
  drain, each lifted by a different handler, each of which must pump.
* **Outcomes after decisions.** The promote compare-and-swap is an effect of a
  step already decided.
* **Recovery from a log.** Whether a squash has landed, which evaluation round
  was running, and how much budget is left are read off the task log.
* **Handlers that stop half-way.** A cascade or an absorption writes one record
  after the other; a failing write leaves the rest undone.
* **Observations over two transports.** An announce may be lost or overtaken, a
  ping is applied unconditionally, and the operator's intent is pushed until it
  is reported back.
* **Load, count, recheck.** The daemon's launches, refreshes and cancels read
  and write the same flags without a lock; a task outlives the daemon that
  started it, and its pid may be another's by then.
* **Calls to an origin nobody controls.** Pull requests are merged, squashed or
  closed and branches pushed between any two calls of a release or a sync.

The full list, each at its line and with the properties that cover it, is
`hazards` in `PROJECT.json`.  The note of a hazard says what of it no passing
run reaches: the fault its instances leave out, the hypothesis of a property
that excuses it, or the `v_` run that shows it.

## 2. The modules

In every module a variable below the persisted ones is memory that a crash or a
restart loses, and an `await` at which the process may die is the end of a step.

### `MergeGate`: the landing pipeline

| variables | code |
| --- | --- |
| `jstate`, `base`, `retryAt` | `Job.state`, `Job.base_ref`, the phase in the escalation |
| `branch` | what a merge of `job/{seq}` would find: nothing, mergeable commits, conflict markers |
| `cycle`, `workTask`, `fixTask`, `fixes`, `evals`, `publish` | the job's task log, reduced to what the pipeline and the recovery read from it |
| `head`, `ahead`, `held` | the default branch as a position; it has unreleased commits; a release is Open |
| `exec`, `execCycle`, `execFix`, `fixUsed`, `gate` | `ExecState` and its gate round |
| `queue`, `gating`, `pending` | `MergeGateState` |
| `draining` | the drain flag |
| `pc`, `cur`, `asFix`, `recovering` | the handler the actor is in, at which await |
| `landed`, `stack`, `verified` | history: what a property needs to know of the branch and no code stores |

Everything from `exec` to `recovering` is lost by `Crash`.  `pc` is what makes
the model one of a *running* handler: each of its values is a point where the
process may die.

| actions | code |
| --- | --- |
| `WorkFinished`, `EvalPassed`, `EvalFailed`, `PhaseEscalated` | the exits of the two phases before landing, one step each |
| `EvaluationHeld`, `EvaluationEntered`, `EvaluatorsLaunched` | `enter_evaluation` with `rebase_for_evaluation` and the fan-out |
| `PumpHolds`, `PumpPops` | `pump_merges`, `MergeGateState::next_candidate` |
| `LandingRefused`, `LandingError`, `LandNothing`, `LandUngated`, `LandingUnread`, `SquashConflict`, `OpenGate`, `GateOpened`, `GateLaunchError` | `run_landing` folding `merge_gate::decide` |
| `GateExited`, `GateLaunchExpired`, `GatePassed`, `GateFailed` | `on_gate_exited`, `expire_queued_launch`, `gate_reduce` |
| `PinBase`, `WorkEntryRefused`, `WorkEntered`, `WorkLaunched` | `LandingEvent::Rebased`, `launch_gate_fix`, `enter_work`, `launch_work_task` |
| `Landed`, `Completed`, `PublishExited` | `wrapup::decide` |
| `RetryWork`, `ReEvaluate`, `RetryPublish`, `Revoke`, `Drain` | `handle_resolve_task`, `escalation_retry_phase`, `revoke_job`, `drain` |
| `OriginRelease`, `ReleaseMerged`, `ReleaseClosed`, `FastForward` | `origin_release`, `origin_sync` |
| `Crash`, `RecoverWork`, `RecoverEvaluation`, `RecoverWrapUp` | process death, then `reconcile` |

*Abstractions.*  The default branch is a number: commits are only ever put on
top of it, and a reset to a merged release is a new position as well.  The run
of one work task, and of one round of evaluators, is one step (`Execution` has
the inside); the *gate's* evaluators exit one by one, in their stages.  A gate
exit that matches no open slot of the round in flight is dropped by
`on_gate_exited`, and is left out.  So is a call that fails after the squash has
landed, and escalates a job whose change is in: `LandingError` is of the calls
before.  `verified[j]` is the position of the trunk
the branch, as it now stands, has passed its checks on.

*Faults.*  `Faults` names what may go wrong in an instance.  `git`, `skew`,
`promote`, `stageLaunch` and `queueTimeout` are failures the code means to
handle.  The other four open a window in which the code does not do what its
documents say (section 4): `syncInGate`, `crashInRework`, `crashInFanout`,
`reworkInCycle`.

*Abstract specification.*  `Trunk` is written for somebody who sees only the
default branch and the jobs' outcomes: a gated branch lands only tested on the
position it lands on, a release out for review freezes the branch, a job is done
only with its work in.  The mapping is `trunk <- head`, `frozen <- held`, `work`
the jobs with a branch that is not empty, `tested <- verified`, `done` the jobs
in Done.

### `JobGraph`: authoring, dependencies, batches, the ready queue

| variables | code |
| --- | --- |
| `state`, `deps`, `members`, `batchId` | the job records |
| `graph` | `JobGraph` in memory (`deps`; `rdeps` is its inverse, `Dependents`) |
| `queue` | the ready queue |
| `todo`, `pc` | what the running handler has yet to write, and whether the drain of the queue follows |

The first write of a handler is one step.  The rest is a list of chores, each
for a set of jobs (`absorb`, `unbatch`, `revoke`, `finish`, `unblock`), one job
a step: there a write may fail and end the handler, or the process die.  The
drain of the ready queue follows every handler.

| actions | code |
| --- | --- |
| `CreateJob`, `CreateBatch`, `UpdateJob`, `EditMembers`, `EditLabels`, `DraftJob`, `FinalizeJob`, `ReleaseJob`, `RefuseRelease` | the authoring handlers of `core.rs` over `decide/authoring.rs` and `release.rs` |
| `Revoke`, `RevokeTarget`, `Unbatch`, `Absorb` | `revoke_job` and its cascade, `release_members`, `absorb_members` |
| `CompleteJob`, `FinishMember`, `FinishRefused`, `TryUnblock` | `on_job_done` and `try_unblock` |
| `StartJob`, `StartFails`, `DrainAgain`, `DeadlineScan`, `PreworkRetry` | `drain_queue`, `start_job`, the deadline scan, the retry of a stalled job |
| `HandlerFails`, `Crash` | an error that ends a handler; death and `reconcile` with its rescan |

`Work` stands for everything between the start and Done.  `Precedence`, the
abstract specification, knows what each job needs, which jobs were started and
which are finished: work starts on finished needs, which are settled by then,
and jobs finish alone or as a group that is closed under what it needs.

### `Execution`: one job's work and evaluation

| variables | code |
| --- | --- |
| `job`, `log`, `claim`, `esc` | the job record, the task records, `claimed_next`, the escalation |
| `box`, `tip` | the container of each task; commits on the job branch |
| `slice`, `watched`, `draining` | `ExecState` (cycle, reworks, submission, round with its slots), the exit monitors, the drain flag |
| `todo` | what the running handler has yet to write |
| `kind`, `approval` | job type, faults and bounds; the sign-off asked for |

Chores are `enter`, `attempt`, `place`, `stamp`, `unclaim` (work.rs), `evaluate`,
`launch`, `slots`, `settle`, `finalize` (eval.rs), `escalate`, `inbox`
(escalation.rs), `retry`, `prework`, `revoke` (resolutions), `recover`,
`attach`, `rebuild`, `sweep` (reconcile.rs): one per write, and the process may
die between any two.  The messages are `Exit`, `ContainerStarted`,
`SubmitResult`, `SubmitEval` (from the containers, late or twice with the fault
`late`), `ResolveEscalation`, `ResolveWork`, `ResolveEval`, `ClaimJob`,
`UnclaimJob`, `SetRequireApproval`, `Revoke` (from operators), `TimeoutScan`,
`DeadlineScan`, `Drain`; `BoxEnds`, `Vanish` and `Push` are the containers' own;
`Restart` is a crash at any point followed by `reconcile`.  Which faults may
happen is part of the kind (`FaultKinds`).

### `Fleet` over `NodeCapacity` and `Queues`

`NodeCapacity` has `cell` (the daemon's own number with epoch and generation,
`worker/capacity.rs`), `announces` and `pushes` on the wire, `fleet`, `roster`
and `heard` (what the dispatcher observed), `intent` (persisted) and `ledger`
(pushes and their answers), with the operations `Announce`, `SetSlots`,
`SetNodeCapacity`, `Push`, `CapacityPushed`, `HearAnnounce`, `Lapse`,
`CapacityScan`, the starts and stops of daemons and docker endpoints, and
`CapacityRestart`.

`Fleet` adds the launches: `task`, `queue` (`launch_queue`), `joined` and `late`
(ages), `boxes` (what the nodes run), `place`, `lock` and `reserved` (the
placements under way, `place_lock`, `FleetNode.reserved`), `turn` (what the
actor is doing) and `msgs`.  `Begin` decides a launch; `TakeLock`, `SkipNode`,
`Ping`, `ReadLoad`, `Choose`, `LaunchRpc`, `Release` are a placement, whose
steps interleave with everything else; `AgentPlaced` and `CommandPlaced` are its
return to an agent's own run or to the actor; `DrainOne` is one entry of the
drain that follows every message; `HandleExit`, `HandleStarted`,
`HandleDeferred`, `HandleCapacity`, `Scan`, `Revoke` are the messages, `Restart`
the rebuild.  `Queues` has the two operations the queue needs (`retain` and a
priority insert) over positions.

### `Worker` over `HostTasks`

`HostTasks` is what survives a daemon and what does not: `dir`, `meta`, `code`
(`exit_code`), `command` and `wrapper` (the process group), `recycled` (pids
that belong to somebody else by now), and in memory `live`, `reap`, `timers`.
`Worker` adds `gate` (the flags and counters of `RefreshGate`), `call` (each
launch request and where it is), `refresh`, `cancel`, `roots` and `rooted` (GC
roots and the keys this daemon remembers), and history variables for what a
cancel was told and which refreshes swapped the daemon.  A host task is *on
record* (`OnRecord`) from the spawn whose `meta.json` its launch goes on to
write, for as long as that file is there.

A launch is `Load`, `Count`, `Recheck` (the refresh gate), `Realise` (a root is
taken), `StartHost`, `SpawnHost`, `NoteHost` or `StartImage`, and `Remember`; a
refresh is `BeginRefresh`, `Built`, `Quiesce`, `Drain`, `CheckHostWork`,
`BeginSwap`, `OpenSwap`, `RecheckSwap` and `Swap` or `SwapFails`; a cancel
`CancelReads`, `CancelStores`, `CancelLooks`; the reaper `ReapList` and `Reap`.
`Swap` and `Crash` replace the daemon.  Every await and every atomic access is a
step.

### `Upkeep` over `Origin`, `Schedules` and `Cron`

`Origin` has the origin's `main`, `branches` and `prs`, the local `integration`
branch with `fetched` and `pins`, the release `record`, the hold `held`, and the
landing queue seen from outside; `op` is the handler that runs.  A release is
`ReleaseFetch`, `ReleaseCount`, `ReleasePin`, `ReleasePush`, `ReleasePr`,
`ReleaseOpen`, a sync `SyncFetch`, `SyncAsk`, `SyncReset`, `SyncSettle`, each
one call that may fail (`CallFails`) or lose its answer; between any two
`MergePr`, `ClosePr`, `MergeBranch` and `PushMain` happen at the origin.  A
branch is a set of commits with the changes they bring.

`Cron` has the backward search for the latest occurrence
(`LatestOccurrence`, day by day, bounded by `Lookback`), `Schedules` the table
(`Load`, `Merge`), the decision of a tick (`Decision`: anchor, coalescing, skip
while a job is live) and its outcomes.  `Upkeep` ties them: which files the
head of the integration branch has decides what a refresh loads.

## 3. Runs

| run | instance | shows |
| --- | --- | --- |
| `core` | `MergeGate`, two gated jobs, one restart, symmetry | `QueueIsWrapUp`, `PipelineIsDriven`, `GateSeesHead`, `LandedIsVerified`, `ImplementsTrunk` |
| `faults` | a gated and an ungated job; `promote`, `stageLaunch`, `queueTimeout`; one origin move | `WrapUpIsDriven` |
| `restart` | one gated, publishing job; four cycles, a restart, a move, `git`, `skew`; fair | `TypeOK`, `GateFixBudget`, `DoneMeansLanded`, `HoldFreezesHead`, `LandingsEnd` |
| `graph` | `JobGraph`, seven projects; fair | `AdmittedOnDoneDeps`, `QueueIsTrue`, `GraphIsTrue`, `MembersAreHeld`, `ImplementsPrecedence`, `BlockedMovesOn`, `MembersFollowBatch` |
| `exec_safety` | `Execution`, ten kinds of jobs | `OneAtATime`, `LandsWhatWasEvaluated`, `BudgetsHold`, `InboxIsTrue`, `SlotsAreLatest` |
| `exec_live` | a command, its review, a drain and a restart; fair | `MovesOn` |
| `fleet` | `Fleet`, seven fleets; fair | `WatermarkIsHonest`, `PendingIsHeld`, `QueueIsClassed`, `CommandsFit`, `ParkedMovesOn`, `FleetConverges` |
| `worker` | `Worker`, ten nodes; fair | `OneTaskRuns`, `SwapIsQuiet`, `CancelHolds`, `ExitIsReal`, `RootHeld`, `TasksSettle`, `RootsGo` |
| `upkeep` | `Upkeep`, seven projects; fair | `WorkIsKept`, `SchedulesFireOnce`, `SchedulesKeepUp` |
| `v_promote`, `v_parked`, `v_host` | one window each | the findings of section 4 |

**Plans and kinds.** Except for `MergeGate`, a run explores a set of small
instances at once: a variable (`plan`, `kind`) that `Init` chooses and no step
changes says which tasks, faults and bounds the instance has.  Each is small in
one direction, so that the interesting cases are reached without their product.
The MC modules say of each what it is for.

**Bounds.**  *MergeGate*: two jobs are enough for one at the gate and one behind
it, which is all the pipeline distinguishes (the gate has depth 1).  Two
evaluators in two stages separate a compile failure (the first stage fails while
a later one is pending) from a gate failure, and a stage advance from a verdict.
Two cycles (`MaxCycle`) give every job a rework and a second landing; `restart`
has four, so that the gate-fix budget of two could be exceeded.  `MaxMoves`
bounds origin commits, merged releases, and landings of a branch that is already
in (an operator may re-evaluate such a job without end).  One crash falls at
every value of `pc` the faults allow.  Symmetry is used in `core` only, which
checks no liveness.  Jobs with `wrap_up: none` (`ScratchOnly`) are in no run;
the theorems cover every choice of `ScratchOnly`.
*JobGraph*: three jobs that may depend on each other either way round make every
circle and chain there is between an edit and its re-check; two batches, one
shared job and a member with a dependency outside it make every conflict between
batches; one restart (two for chains) falls between any two writes.
*Execution*: three to five tasks give an attempt, its retry, a round of two
stages, a rework or an escalation and its answer; one commit may arrive at any
time; one restart falls between any two writes.
*Fleet*: one node, or two with different transports, and one slot are where
placements collide; three commands give one running, one parked and one
overtaking.  `MaxGen` caps the generation counter of a daemon.
*Worker*: two host tasks compete for the one slot, also over a restart and a
sweep, with kills and given-up launches, in scopes (`Recovering`) and without and
with reused pids (`Together`); two refreshes and two cancels
let a cancel reach the wrong refresh; two restarts let a pid be reused by the
second daemon's reading.
*Upkeep*: two landed changes, two of other people, two releases; a calendar of
two minutes an hour, two hours a day, two days a month, two months a year and a
week of three days makes every field of a cron expression restrict something,
and `Lookback` of two days is exceeded within the run.

**Deadlock** is not checked: when every job is over and the bounds are used up,
the system has nothing left to do.  The liveness properties say what must not
stop before that.

**Fairness** is what the code's scheduling gives.
* *MergeGate*: a handler that has begun runs on (weak fairness of `ActorStep`).
  A gate or publish command exits, or the task timeout scan kills it, and either
  is a message in the actor's first-in first-out mailbox; it can be handled only
  between two other messages, hence strong fairness of `GateExits` and of each
  job's `PublishExits`.  Nothing is assumed of operators, evaluators, work tasks
  or the origin, so `LandingsEnd` excepts a landing held by a release or a drain.
* *JobGraph*: weak fairness of the chores, of the drain and of its repetition
  (the scan tick), and of the completion of each started job.
* *Execution*: weak fairness of the handlers, of the monitors' reports of each
  task, of the timeout scan, of the end of an agent's container (its harness
  kills an agent that overruns, `agent/src/claude.rs`), and of the restart that
  a drain is for.
* *Fleet*: weak fairness of the actor's turn and of time; strong fairness of the
  scan, of each task's placement and messages, and of hearing announces and
  answers, which wait in the same mailbox; weak fairness of announcing and
  serving.  Daemons need not come back and containers need not end.
* *Worker*: launches, waits and removals of the dispatcher, the processes (a
  command ends by its deadline), wrappers and reapers, the steps of a refresh,
  the root reaper and time.  Nothing obliges anyone to ask, refresh or reuse a
  pid.
* *Upkeep*: handlers go on; a tick and the end of a drain are messages in the
  mailbox (strong fairness).  None for releases and syncs, which operators ask
  for.

**Mutants.** Each property of each passing run has a mutant: a definition of the
model replaced by what a plausible mistake in the code would make of it (the
operators commented *Mutant of*), under which the run must fail.

## 4. Where the code and its documents disagree

Three runs expect a violation; `findings` has the quotations.

* `v_promote`: an origin sync moves the trunk under a gate; the refused promote
  is not read, and the job is Done without having landed.
* `v_parked`: a work command resumed from the launch queue whose launch fails
  leaves the queue, its record stays Pending, and the failure it reports is
  ignored.
* `v_host`: a killed host task that ignores SIGTERM is taken for gone when the
  shell around it has died; the next host task runs beside it.

The models showed more, each behind a fault, a plan or a hypothesis that a
change of a configuration turns on.

*MergeGate.*
* An expired gate command, or a gate stage whose launch fails, leaves its
  escalated job in the gate, and the queue stands still (`queueTimeout`,
  `stageLaunch` with `PipelineIsDriven`; `dispatcher/launch_queue.rs:675`,
  `eval.rs:1198`, against `invariants.rs:260`).
* A crash after a rework has put the new `base_ref` and before the job leaves
  WrapUp: the rebased, unresolved branch takes the fast path (`crashInRework`;
  `domain/decide/merge_gate.rs:388`).
* A gate rework after a sync rebases onto the head the gate saw but pins the head
  it reads now (`syncInGate`; `merge_gate.rs:386`).
* A job reworked in the cycle of a failed publish reaches WrapUp with that
  publish in the log, and a restart takes the squash for landed
  (`reworkInCycle`; `dispatcher/reconcile.rs:361`).  The same happens where a
  restart relaunches failed work in a cycle that already has a publish task.
* A job evaluated twice in a cycle, with a crash before the second round has
  tasks, is recovered with the first round's verdicts (`crashInFanout`;
  `reconcile.rs:495`).

*JobGraph.*
* A cascade stops at a batch, and a revoked Draft batch or member leaves the
  other side as it was (`cascadeBatch`, `revokeMember`; `core.rs:2231`,
  `core.rs:2041`, `eval.rs:1784`, against `docs/spec.md:854`-`879`).
* Two Draft batches may list the same job (`overlap`), and a circle through a
  batch is not refused (`authoring.rs:146`).
* A start that fails leaves its job Ready and off the queue (`core.rs:1790`); a
  crash in the middle of an absorption leaves members that are not absorbed.

*Execution.*
* The rework budget is counted in memory, and a restart gives it back
  (`exec.rs:1491`); a drain relaunches or closes what it should leave
  (`exec.rs:1151`, `eval.rs:644`).
* The deadline leaves Running the tasks whose containers it kills
  (`scan.rs:521`); an unreachable node's container is taken for lost
  (`reconcile.rs:636`), and a silent evaluator spends no retry (`eval.rs:676`).
* A resolution is matched by the state of the job and not by the escalation it
  answers (`exec.rs:1097`); a late submission may turn a failed attempt's summary
  or verdict into the job's (`work.rs:716`, `eval.rs:1024`).
* The same rule lets an old review be answered in the place of the work or the
  escalation, where a job type has human evaluators or a deadline left tasks open
  (`OneInbox` excludes both): TLC finds two attempts at once, a stale inbox and
  budgets that are exceeded for such kinds.  The sign-off of `require_approval`
  does not do it, as it comes last and alone.
* A launch that fails before its container is placed ends the handler: of a
  relaunch the slot keeps the task before, and of a restart the sweep is left out
  (`exec.rs`, `report_launch_failure`; the fault `setup`).
* A restart that finds a rework without an attempt evaluates the cycle before
  again, and so grants the retries of its evaluators once more.

*Fleet.*
* Reconciliation sorts the queue by age alone and loses the class order
  (`reconcile.rs:55`); `?` in the drain loses the entry it has popped
  (`launch_queue.rs:298`).
* A docker endpoint that does not answer fails the whole placement
  (`worker/backend.rs`, `SkipNode`); a stale ping sets the observation back
  (`types/worker.rs:798`), until the next announce.
* `set_node_capacity` pushes beside a push in flight, and the answers may cross.

*Worker.*
* `refresh_cancel` reads the outcome, stores the flag and looks at the swap in
  three steps: it may be told that nothing was cancelled and cancel the next
  refresh (`daemon.rs:1978`).
* A crash between the spawn and `meta.json` leaves a process on no record
  (`host.rs:2217`), and a sweep may remove the directory of a launch it gave up:
  such a task holds no slot, and `OneTaskRuns` is not about it.
  Two tasks of a job share a root key (`core.rs:2913`).  These are the
  hypotheses of the theorems in section 5.

*Upkeep.*
* "Lossless by construction" (`docs/spec.md:1689`) holds only of origins with
  pull requests; elsewhere a pin may be all that keeps a change.
* A schedule that was deleted may fire until the next refresh (20 ticks); a load
  that fails empties the table, and the next one arms every anchor anew; a job
  whose release fails stays Frozen and blocks its schedule.


## 5. Proofs

TLAPS checks every theorem below, for every value of the constants.  The only
assumptions are those the modules name (`ASSUME`), which TLC evaluates in every
run: `None` and the like are no elements, evaluators are finitely many and
staged, bounds are natural numbers, the plans of a module have the shape `Init`
relies on.  Nothing is assumed of how many jobs, tasks, nodes or schedules there
are.  Every inductive invariant was checked by TLC on small instances first.

A theorem with a hypothesis (`ASSUME Safe`, `Gentle => ...`) excludes exactly a
window in which the code does not do it; section 4 says what happens there.

### `MergeGate`

* **`TypeCorrect`**, `Spec => []TypeOK`.  Inductive as it stands.  `TypeOK` is a
  conjunction of parts, one per group of variables; `Frame` says that a step
  keeps the part of every group it leaves alone, so that the lemma of an action
  proves only the parts it touches.
* **`HoldIsKept`**, `Spec => HoldFreezesHead`.  Not inductive: a release is
  opened on what `gating` says, a pump goes by the hold, and a round in a slice
  outlives both unless it goes with them.  `GateInv` says who owns what: a round
  belongs to the job at the gate, a release is open only while the gate is free,
  and a handler that lands or gates runs while no release is open.  `HeadMoves`
  lists the only four steps that move the default branch.  Every fault and crash
  is covered.
* **`PromotesOnSeenHead`**, `Spec => []GateSeesHead` without `syncInGate`.  From
  `GateInv`, with `RoundsKept`: a round keeps its head until it is taken out.
* **`LandsOnlyVerified`**, `Spec => LandedIsVerified` if `syncInGate`,
  `crashInRework` and `crashInFanout` are not among the faults (`Safe`).  The
  fast path trusts `base_ref`, so the proof is about what that stands for.
  `LandsSettled`: a job that may land passed its checks on its base, or its base
  is behind the head, or its cycle is a gate fix, and then the fast path is
  closed.  It needs that the branch is stacked on its base unless the head has
  left that behind (`StackIsBase`), that a passing round in the log is of the
  branch as it is stacked (`PassIsFresh`), that the slice the fast path reads is
  of the cycle the log ends with (`SliceIsCurrent`) and a fix task is stamped in
  it (`FixStamped`), and that nobody but its handler changes a job while it lands
  (`QueueWaits`, `GateWaits`, `HandlerOwns`, `RecoveryOwns`, `TasksOwned`).
  `LandInv` is their conjunction.
* **`DoneIsLanded`**, `Spec => []DoneMeansLanded`, under `Safe` and `Sound`
  (neither `promote` nor `reworkInCycle`).  `OutcomeInv` carries the fact from
  the landing to the end of the job: once a publish task exists, or the handler
  is past the landing, the work is in (`WorkIsIn`), which a restart relies on
  when it reads a publish task as "landed"; a gate round is of a branch with work
  on it (`GateHasWork`); and a job whose branch never lands is never on its way
  there (`ScratchApart`).
* **`TrunkIsKept`**, `Spec => ImplementsTrunk`, under the same hypotheses.  Each
  action is one step of `Trunk` or none: `ChangeSteps`, `TestSteps`, `LandSteps`,
  `FinishSteps` and `OriginSteps` say which, `HiddenSteps` lists the rest.
  `LandedTested` and `GateInv` give the guard of `Trunk!Land`, `OutcomeInv` that
  of `Trunk!Finish`.
* **`NoneIsLost`**, `Spec => []WrapUpIsDriven`, with no hypothesis: all nine
  faults and every crash.  Between messages the property says what it should, but
  a handler takes a job out of the queue and puts it down somewhere else several
  writes later.  `LineInv` says what holds at every await: a job is in one place
  (`OnePlace`: queue, gate, hand of a handler, publish task, to be recovered), a
  queue that may be left alone is held by something (`Pumped`), and a job in
  WrapUp has its slice and is in one of those places (`Driven`).
* **`WaitsInWrapUp`**, `Spec => []QueueIsWrapUp`, and **`PipelineDriven`**,
  `Spec => []PipelineIsDriven`, without `stageLaunch` and `queueTimeout`
  (`Steady`): `GatingHeld` says that the gate is held by a round with a command
  out, or by the handler that opens or reduces it.  It uses that the least
  pending stage has an evaluator (`StageOpens`).
* **`FixesAreBounded`**, `Spec => []GateFixBudget`, with no hypothesis.  The
  budget is counted in the slice, before the round's task is stamped; the slice
  is lost in a crash and counted anew from the log.  `FixFits`: the count covers
  the stamps, and is ahead of them while a counted round is not yet launched;
  `FixOwned`: only the handler of a gate's verdict is on a fix.

### `JobGraph`

* **`TypeCorrect`**, **`AdmitsOnDone`** (`AdmittedOnDoneDeps`: a job that has
  been admitted has all its dependencies Done) and **`GraphAgrees`**
  (`GraphIsRecord`: the graph in memory is the records'), from one inductive
  invariant: the three and `Fits`, what a list of chores may hold, given the
  states of the jobs.  `Fits` is needed because a handler's later writes act on
  what its first write decided, with others failing in between.  A cascade that
  is half done, a restart and every fault are covered.
* **`QueueHoldsReady`**, `Spec => []QueueIsTrue`.  `QueueInv` says it of every
  step and not only between messages: the queue is a sequence of Ready jobs
  without repetition, and unless a start or a write fails no Ready job is
  missing.  `WithoutIs`, `AppendIs`, `TailIs` and `SetToSeqIs` say what each
  operation on the queue leaves in it.
* **`MembersHeld`**, `Spec => []MembersAreHeld`, for `Orderly` plans: those
  without batches, or without a failing write, lists of members that overlap, a
  cascade onto a batch and a member revoked by hand, each of which the code lets
  take a batch apart.  A batch is committed in one write and absorbs its members
  in the following ones, so the property is false inside every handler.  `HoldInv`
  says what holds there (`BatchHolds`): a member is held, or a chore is yet to
  absorb it; a job that is held is held by a batch that is committed, or a chore
  is yet to give it back or to finish it; and no two batches that are not over
  share a member (`MembersApart`).
* **`PrecedenceIsKept`**, `Spec => ImplementsPrecedence`, for `Orderly` plans
  whose restarts meet no batch (`Untorn`).  Each action is one step of
  `Precedence` or none: `AuthoringRevises`, `RevokeSeen`, `StartSeen`,
  `CompleteSeen`; the writes to members after their batch is Done are none
  (`MemberSeen`), since `finished` counts a member from then on.  `BatchNeeds` (a
  batch has the dependencies its members have outside it, until it ends) is what
  lets the group finish together.

### `Execution`

* **`TypeCorrect`**, `Spec => []TypeOK`.  Beside the shape of the log and of the
  slice it says of every chore that is left that it finds what it needs when its
  turn comes (`ChoreTyped`): a `place` has a Running task, a `slots` a round, a
  `rebuild` the slice of its cycle.  It needs the order in which chores stand
  (`InOrder`).
* **`SlotsAlwaysTrue`**, `Spec => []SlotsAreLatest`, from `SlotsKept`: every slot
  but those a chore is yet to write (`Stale`) is for the latest task of its
  evaluator, and what is launched is covered by a chore that writes its slot.
* **`InboxAlwaysTrue`** (`InboxIsTrue`) and **`AlwaysOneAtATime`**
  (`OneAtATime`).  Neither is inductive, nor is anything smaller than the two
  conjunctions `Kept` (types, slots, human tasks that wait, chores that follow
  one another) and, under `OneInbox`, `OneTask`:
  - `OpenAlone`: a task that is open (Pending, or Running work) is the last of all
    tasks, and nothing left to do opens another or ends the phase;
  - `CyclesKept`: the cycle of the slice is the last, and each chore is of the
    phase the job is in;
  - `RoundKept`: what a round waits for is launched, attached to or about to be,
    and a round that is rebuilt after a restart has the stage in flight;
  - `SignOffKept`: the round waits for a pending sign-off, or is going to.

  They hold only together: a chore is alone because the task before it is over,
  and a task is alone because no chore would open another.  `AlwaysKept` proves
  them; `InboxKept` adds that a parked job has its task or something that heals
  it, `BranchFree` that a container on the branch is of a Running attempt or will
  be swept.
* **`AlwaysLandsEvaluated`** (`LandsWhatWasEvaluated`).  `LandsKept` follows the
  verdicts from the tasks into the slots (`Signed`: a slot's verdict is its
  task's, and that task saw the commit the branch is at), through the stages that
  are about to be launched (`Sealed`), to the decision to land (`Verified`).  No
  commit may come in between: `PushedBefore` shows from `OpenAlone` and
  `BranchFree` that nothing is on the branch then.  It is about the runs without
  a restart, as the property is (section 4).

### `Fleet`, `NodeCapacity`, `Queues`

* **`WatermarkCorrect`** (`WatermarkIsHonest`).  `WInv`: no report of a daemon,
  on the wire, in the observation or in the reply a placement waits for, is ahead
  of that daemon's epoch and generation, and one that is level has its number.
* **`LaunchesAtOnePlace`** (`AtOnePlace`) and **`ParkedIsHeld`**
  (`PendingIsHeld`).  `QInv`: the queue is a sequence without repetition, and a
  launch is in one place: queued, in the actor's hand, being placed, in a
  message, or over.  `ParkedIsHeld` is for plans of agents and evaluators; a work
  command's failure is ignored by the code (`v_parked`).
* **`ClassesKept`** (`QueueIsClassed`): until a restart, finishing launches stay
  ahead of work.
* **`NoNodeOverfull`** (`CommandsFit`).  `FitInv`: placement is serial, so what
  it counted on a node, with the reservations, can only have shrunk when it
  launches there.
* `Queues_proofs` has what the priority insert and `retain` do to a queue:
  `RankOrder` to `InsertBefore`, used by the above.  `JobGraph` takes from its
  ready queue with the same `Retain` (`Without`), and its proofs use these lemmas.

### `Worker`, `HostTasks`

* **`TypeCorrect`** and **`CancelIsKept`** (`CancelHolds`), from `CancelInv`:
  what a cancel and the refresh it aims at know of each other.
* **`ExitsAreReal`** (`ExitIsReal`), with no hypothesis.  `LifeInv` says of each
  task which of its directory, metadata, exit code, processes and reaper may be
  in what state together.
* **`SwapsAreQuiet`** (`SwapIsQuiet`) for a `Gentle` node, whose killed host
  tasks heed SIGTERM: on others a killed task outlives its wrapper (`v_host`).
  `GateInv` counts the launches inside the gate; `QuietInv` is what the look at
  the host work may be relied on for at the swap.
* **`OneRuns`** (`OneTaskRuns`) for every `Gentle` node, through crashes and
  sweeps.  `HeldInv`: a launch at its start has the mutex, and saw no host task
  on record run.
* **`AllOnRecord`**: on a `Gentle` node that is `Calm` (its daemon does not
  crash, or its tasks end with it, and it sweeps no launch it gave up) every host
  task that runs is on record, so at most one runs at all.
* **`RootsAreHeld`** (`RootHeld`) for a node that is `Gentle`, `Calm` and whose
  tasks have root keys of their own (`Apart`).  `RootsInv` spares, in a reaper's pass, the keys of what runs.
  Each of `Gentle`, `Calm` and `Apart` is needed; TLC finds the counterexample
  without it.

### `Upkeep`, `Origin`, `Schedules`, `Cron`

* **`LandedWorkIsKept`** (`WorkIsKept`): whatever is landed is in main, in the
  integration branch, or pinned.  The invariant follows a release through its
  calls (`Counted`, `Quiet`), a sync through its (`Asking`: it resets only to a
  main that holds what the release brought), and says what an open release
  covers (`Covered`).
* **`SchedulesFire`** (`SchedulesFireOnce`).  `FireInv`: of one schedule all jobs
  but the last are over, each is at an occurrence that was the latest when it
  was created, and after the end of the job before.  `NewestOccurrence` proves
  that the day-by-day search finds the newest matching minute.

### Only model-checked

* The liveness properties (`LandingsEnd`, `BlockedMovesOn`,
  `MembersFollowBatch`, `MovesOn`, `ParkedMovesOn`, `FleetConverges`,
  `TasksSettle`, `RootsGo`, `SchedulesKeepUp`): fairness and ENABLED are beyond
  the prover.  So is induction over data; where a recursive definition is needed
  in a proof (the search of `Cron`), the lemma goes by a least element instead.
* `BudgetsHold` of `Execution`: how often a lineage has failed, been lost or
  reworked, counted against the answers an operator gave.
* Of `JobGraph`, the rest of `GraphIsTrue`: acyclicity and the reach of a
  cascade are properties of paths.

## 6. Left to do

`BudgetsHold`: each conjunct needs a counter of what was granted since the last
answer, which the log has only as the attempt numbers of its tasks.  The rest of
`GraphIsTrue`, with a definition of circles by a rank instead of by paths.
Scans of disk space and the display snapshots are in no model.

## 7. Not modelled

`components` in `PROJECT.json` has the reason for each.

* Store, API, authentication, command line, web, secrets, workload identity,
  project configuration: adapters.  A write succeeds, fails or is where the
  process dies; a request is an action of an operator, and one sent again is that
  action taken twice.
* Forge triage is a task record beside the job whose outcome moves nothing; the
  ingest of issues is a filter that creates drafts; webhooks are a stub.
* Of the worker and the backends: transfer of files, logs, environments and
  mounts, credentials, the Kubernetes backend (a stub).
* Of the harness, channel and knowledge: everything but the submissions they
  send.
* Snapshots for display and disk housekeeping: no transition depends on them.
