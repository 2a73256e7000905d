# OpenThrottle supervisor: TLA+ models and proofs

OpenThrottle runs agents on a repository: a *pipeline run* goes through the
stages of a compiled definition, each stage has one or more *attempts*, each
attempt is executed in a provider sandbox, and what it changed in the world
(sandboxes, branches, pull requests, comments) goes through a table of
*effects*. The supervisor (`src/supervisor/src`) is one Node process over one
SQLite file. It is meant to be killed at any time and to go on from its tables.
What can go wrong is between its transactions, and that is what is modelled
here.

Paths below are relative to `src/supervisor/src` unless they start with `src/`.

## 1. Inventory

| Part | State | Operations | Interacts with |
|---|---|---|---|
| Effect delivery: `operations/kernel-effects.ts`, `persistence/kernel-store-leases.ts` | rows of `effects`: status, lease, dispatch fence, `available_at`, `last_error` | lease next, mark dispatch started, complete (hold, acknowledge, reject), recover expired; `drainOne` over them | provider adapters (reconcile, prepare, dispatch); operator rejection; kernel transitions that insert intents |
| Integration reconciliation: `providers/daytona/kernel-adapter.ts` | continuation in the row (count of absences), fence files in the sandbox | reconcile, prepare, dispatch | effect delivery; sandbox runner |
| Execution kernel: `pipeline/kernel/reducer.ts`, `persistence/kernel-store.ts` | run row (version, cursor, active attempts), attempt rows, records, checkpoints | `applyAtomicTransition` of some fifteen reducer commands; `quarantineExhaustedAttemptRecovery` | coordinators load a view, reduce, and apply by compare-and-set |
| Ordinary coordinator: `pipeline/kernel/ordinary-coordinator.ts` | none of its own | `executeLeasedAttempt`, `resumeReadyAttempt`, `requestRunControl`, `terminalizeExhaustedRecovery` | runtime port, kernel, leases |
| Attempt leases and scheduling: `persistence/kernel-store-leases.ts` | lease columns of attempts | lease next eligible, renew, recover expired; width, cohorts, runtime slots, reservations | kernel, worker |
| Runtime session: `app/kernel-runtime-session.ts` | session of an attempt | bind, deliver steering | coordinator callback `on_session` |
| Worker and monitor: `operations/kernel-worker.ts`, `kernel-worker-monitor.ts` | lease ids; counters | `runCycle`: recover, resume, inbox, lease and execute, effects, external | everything above and below |
| Inbox: `persistence/kernel-inbox-store.ts`, `app/kernel-inbox-handler.ts`, `app/kernel-inbox-router.ts`, `app/kernel-provider-prompt.ts` | `inbox_events`, maintenance setting | ingest, lease, complete, retry, fence; admit, stop, control, steer | HTTP server, worker, run control, admission transaction |
| External boundary: `operations/kernel-external-*.ts`, `kernel-plan-bindings.ts` | none of its own | start, advance and settle effect, evaluation and human stages | kernel, effects |
| Pipeline lifecycle: `reducer.ts`, `pipeline/kernel/runtime-resource.ts`, `successor-attempt.ts`, `sandbox-recovery.ts` | cursor, re-entry counts | stage transition, exhaustion, provision, stop, cleanup, recovery | external boundary |
| Structured execution: `pipeline/kernel/structured-*.ts`, `app/kernel-structured-*.ts` | plan and evidence records | waves, promotion, settlement of a wave | kernel |
| Providers: `providers/github`, `providers/linear`, `providers/codex`, `providers/daytona` | remote; a refresh token | reconcile, dispatch; credential refresh | effect delivery, sandbox seeds |
| Storage: `persistence/blob-store.ts`, `epoch-database.ts`, projections, analysis, registration | files, one SQLite epoch | put, verify, open, back up; single-statement rows | all |
| Sandbox runner: `src/sandbox/runner` | files in a sandbox | execute an attempt, submit a result, integrate a checkpoint | adapters read its sealed files |
| Contracts, CLI: `src/contracts`, `src/cli` | none | compile and validate definitions; scaffold, ship, stop | HTTP server |

Two conventions carry most of the design and most of the risk:

* **Durable fences.** An effect that changes the world is fenced in its row
  before it is sent, and whoever finds the fence reconciles and does not send
  again. Exactly one kind, the Daytona integration, can prove that a fenced
  dispatch never started and may resume it.
* **Optimistic views.** A kernel command is reduced from a view of the run
  loaded earlier, across awaits, and applied by compare-and-set on the run's
  version. Attempt leases are fenced by id, generation and worker.

What is hard, and so what the properties are for, is listed line by line under
`hazards` in `PROJECT.json`. In short: takeovers of a lease whose holder is
still alive; deaths between the transactions of one operation; answers that
are lost or late; decisions taken in one view and committed under another;
terminal transitions that race executions; counters kept in rows across
leases; queues whose head never goes away.

What makes each part correct:

* effect delivery: at most one execution, truthful settlement, permanent
  fences, no starvation, fenced work settles;
* integration: no give-up without the absences it claims, and a lost sandbox
  is noticed in the end;
* operator rejection: an effect is settled once, a request that comes again is
  answered with its own rejection, a leased effect is left to its worker;
* kernel: the fan-in counts every member once, completed work is not redone,
  only the holder commits, an outcome is final, the stage ends;
* scheduling: no slot twice, reservations within the capacity, no run blocked
  for ever by half-made pools or by the claims of another run;
* worker: events before attempts, a poisoned row holds up no sound run, a
  worker that fails for ever is noticed;
* inbox: an event is taken in and handled once, however often it is delivered
  or leased; consumed means done; a run comes from one event; a stop ends the
  run it was made for and no other, and does end it; nothing is taken in behind
  the maintenance fence, and nothing accepted is left lying;
* session start: one activity per event, before its admission, and slots that
  are given back;
* admission: what is promoted was reviewed, a completed admission has promoted,
  a stop reaches the run that works;
* pipeline: every sandbox is known to whoever must stop it, none is left at the
  end, a decided outcome stands, every run ends;
* structured execution: a unit is integrated once, after its needs, in the
  version that passed its gates; the whole change is checked before it is
  published;
* checkpoints: executor and supervisor compute the same merge from different
  sets of commits, and no commit is missing where it is needed;
* attempt in a sandbox: one runner, work completed once, what is recorded is
  what was staged first;
* steering: a comment is heard in the turn it was sealed for;
* Codex account: no refresh token is spent twice, a seed outlives its action;
* GitHub: what is confirmed was pushed, reviewable or green; nobody else's
  commits are overwritten;
* volume: a committed pointer can be read after any kill or loss of power;
* epoch: one release serves an item; definitions: a run keeps the definitions
  it was admitted with; graph check: accepted if and only if its runs end.

## 2. Modules

| Module | Models | Role |
|---|---|---|
| `EffectContract` | what the effects table promises | abstract specification |
| `EffectDelivery` | the table, `drainOne`, the operator and the provider | detailed specification |
| `EffectRefinement` | the mapping from `EffectDelivery` to `EffectContract` | refinement |
| `IntegrationAbsence` | the absence count of one fenced integration | refines a step of `EffectDelivery` |
| `OperatorRejection` | the operator's requests, their evidence and their replay | the same transaction as `EffectDelivery`'s, seen from the operator |
| `ExecutionKernel` | one stage of a run: frontier, attempts, leases, executions | detailed specification |
| `PipelineLifecycle` | a run through its stages, its pool of sandboxes and its effects | composes one step of the kernel per settlement with the phases of the external boundary |
| `AttemptScheduling` | several runs, their claims and reservations | the part of leasing that `ExecutionKernel` leaves out |
| `WorkerCycle` | the passes of a cycle and the monitor | the order in which the others get their turns |
| `StructuredExecution` | the settlement planner of `core/structured` | |
| `CheckpointIntegration` | the commits that travel between the sandboxes of a plan | |
| `AttemptExecution` | one attempt between the Daytona adapter and the runner | below one `Launch` and `Answer` of `ExecutionKernel` |
| `IntakeContract` | what the inbox promises to providers and operators | abstract specification |
| `InboxIntake` | the inbox table, the workers' handlers, admission, stops and control | detailed specification |
| `IntakeRefinement` | the mapping from `InboxIntake` to `IntakeContract` | refinement |
| `SessionStart` | the acknowledgement of a Linear session | before the admission of `InboxIntake` |
| `AdmissionPromotion` | the admission run and its promotion to a second run | after it |
| `Steering` | a comment on its way to the agent | |
| `CodexCredentials` | the shared account, its refresh and its copies | |
| `GithubPublication` | a push and a pull request, request by request | a dispatch of `EffectDelivery` in detail |
| `ProviderWait` | the wait for required checks and its continuation | a reconciliation of `EffectDelivery` in detail |
| `VolumeStorage` | the blob root, the epoch file and the objects on a disk | |
| `EpochRelease` | the release an epoch is pinned to | |
| `DefinitionClosure` | the definitions a run is admitted with and compiled from again | |
| `PipelineValidation` | the searches of `validateStages`, and runs of what they accept | |
| `EffectDeliveryProofs`, `ExecutionKernelProofs`, `InboxIntakeProofs` | | theorems about the three detailed specifications, and their refinements |
| `WorkerProofs`, `PipelineProofs` | | theorems about the modules of the run `pipelines`, and about their composition |
| `CheckpointProofs`, `ExecutionProofs` | | theorems about the modules of the run `execution`, and about their composition |
| `SandboxProofs` | | theorems about the modules of the run `sandbox`, and about their composition |
| `MCEffectDelivery`, `MCEffectLiveness`, `MCExecutionKernel`, `MCInboxIntake`, `MCPipelines`, `MCExecution`, `MCSandbox` | | instances for TLC |

`PROJECT.json` has under `map`, for each definition, the lines it models.
Definitions whose comment says *Mutant of X* are deliberately wrong variants of
`X`; replacing `X` by one of them must break a property, which shows that the
property depends on that piece of code. A property that a run checks is mostly a
conjunction of named parts (`LifecycleSafe` is `NothingForgotten`,
`NoLeakAtEnd` and four more), and the parts are what is worth reading: each has
a mutant operator of its own in the module, and `PROJECT.json` lists one mutant
for each conjunction.

`MCPipelines`, `MCExecution` and `MCSandbox` hold several
modules each, which share no variable. A behaviour follows one of them, which the
variable `part`, which never changes, names, while the others stand still; so one run
answers for all of them, and the states add up and do not multiply. Fairness is
conditioned on `part` (the `...Fairness` of each `MC` module repeats that of
its modules term by term).

### EffectDelivery

`status`, `lease`, `mode`, `fence`, `due`, `expired`, `noted` are columns of
the row. `live` is the set of effects whose run is pending or running, since
only those are leased. Each worker has its drain: a program counter that
stands before the next await of `drainOne`, the effect and lease it holds, and
the *snapshot* it was leased with (`jobMode`, `jobFence`), which the code goes
on using although the row may change under it. `sent`, `target`, `executions`
are the provider: requests under way, what a reconciliation would find, and
how often the mutation was entered.

| Action | Code |
|---|---|
| `Schedule`, `RunEnds` | a kernel transition inserts an intent, or ends its run |
| `RecoverOnly`, `LeaseNextEffect` | `leaseNextEffect`, which first recovers a batch of expired rows: to `pending`, or to `unknown` if fenced |
| `Observe`, `ObserveFails` | reconciliation, and the holds on its failures |
| `PrepareDispatch`, `MarkDispatchStarted` | preparation, then the fence, checked by lease id and worker only |
| `Dispatch`, `Reobserve` | the request, whose error is swallowed, and the observation after it |
| `HoldUnknown`, `AppendDelivery`, `LeaseLost` | `completeLeasedEffect`: hold, settle, or a fence that no longer matches |
| `RejectUnknown` | the operator's rejection transaction |
| `LeaseExpires`, `BecomeDue`, `Crash` | clock and process |
| `Execute`, `Lose`, `TargetAppears` | provider (external) |

Observations are modelled by what they *may* say. An absent target may be
reported as absent or as not yet known; a plain mutation that finds its target
already there does not change it. A lease id is never reused (`UsedLeases`),
as the code makes a fresh UUID for each lease.

### IntegrationAbsence

Refines one disjunct of `TargetAppears`: on which evidence a fenced
integration is *rejected because its sandbox is gone*. Its state is the count
in `unknown_detail`/`last_error`, the count in the snapshot, the sandbox and
the launch files, and as history the last lookups.

### ExecutionKernel

`run`, `active`, `done` are the run row; `status`, `session`, `checkpoint`,
`result`, `retries`, `corrections` and the lease columns are the attempt rows.
An execution has a view: `seenActive`, `seenDone` are what it loaded, and it
is in `fresh` as long as the run's version is the one it loaded. Every write
empties `fresh`, so a commit whose view is stale is not enabled, as the
compare-and-set fails. What a commit writes to the run row is computed from
the view, so that the compare-and-set is what makes it right and not the model.

| Action | Code |
|---|---|
| `Lease`, `Recover`, `Renew`, `LeaseExpires` | attempt leases; a recovery keeps the lease id and raises its generation |
| `Load` | `loadExactReductionView` |
| `Start`, `BindSession`, `CompleteWork`, `ResultPending`, `Record`, `Settle`, `Retry` | one reducer command each, with the coordinator's guards before it |
| `Launch`, `Answer`, `Throw` | the runtime call: its start, the answers of `KernelRuntimeOutcome`, an exception |
| `DecideRecovery`, `RecoveryStale`, `RecoveryRefused`, `ReplacePool` | recovery of a fatal sandbox, in its two loads |
| `Terminate`, `Quarantine`, `RunControl` | terminal transitions: failed, needs human, stop, supersede, exhausted recovery |
| `Abandon`, `GiveUp` | an execution that leaves the rows as they are |
| `ResumeReady` | restart continuation of completed or recorded work |

Abstractions, and why they lose nothing the properties see:

* The claim (lease id, generation, worker, purpose) is the execution that
  holds it: two executions never have equal claims, and the purpose follows
  from the status.
* All attempts are agent attempts, of one stage. The stage's transition is the
  end of the behaviour (`run = "successor"`); successor, cleanup and restored
  attempts belong to the next stage.
* A runtime always exists, and the stage has no active effects of its own; a
  terminal transition is then always possible, or is diverted to the cleanup
  stage, which is in `PipelineLifecycle`.
* An answer `fatal` stands for a fatal sandbox, returned or thrown; `failed`
  also for the repeated operational failure that is found in earlier evidence.
* The correction deadline may have passed at any time: it is a choice.
* Runtime slots and reservations are left to `AttemptScheduling`; leaving them
  out only allows more schedules.

### InboxIntake

`status`, `lease`, `expired` are columns of `inbox_events`; `due` and `earlier`
are `available_at` as far as the code compares it: which rows are due, and
which of the due rows come before another. `run`, `origin`, `late`, `coeval`
belong to the run that `resolveRun` finds for an issue: its state, the event it
was admitted from, the stops whose grace was over at its admission, and the
admissions consumed in the millisecond of its `admitted_at`. Each worker has the
event it handles, the await its handler stands before (`pc`), and what it has
read before that await.

| Action | Code |
|---|---|
| `SetMaintenanceFence`, `Receive`, `Ingest` | the fence; a request's look at it and its transaction, which looks again |
| `LeaseNext`, `LeaseNone` | `leaseNext`: recovery of expired rows, up to `HeadLimit` unreadable rows set aside as dead, one row leased or none |
| `HandleOther`, `HandleAdmission`, `Admit`, `AdmitRefused` | the admission handler and its transaction |
| `HandleStop`, `Authorize`, `HandleControl`, `RunControl` | a stop by comment in its three parts; an operator's control |
| `HandlerThrows`, `Retry`, `Complete` | the end of a handler in `runCycle` |
| `LeaseExpires`, `BecomeDue`, `GracePasses`, `Tick`, `Crash` | clock and process |
| `BlobLost`, `RunEnds` | a payload that cannot be read any more; a run that ends by itself |

Abstractions:

* A lease is the worker that holds it. A worker has one event at a time, and a
  worker that has lost a row and takes it again has left the first handler.
* The look of `requestRunControl` at its run and its commit are one step; a
  commit that loses its compare-and-set throws (`HandlerThrows`).
* A payload that cannot be read concerns the row itself and the look for the
  origin of its own issue. In the code an unreadable admission of *another*
  issue in the same millisecond makes a stop stale as well, and so do more
  admissions in one millisecond than the query's limit.
* Comments that steer a session are in `Steering`, the handshake of a Linear
  session in `SessionStart`, and the second run that a promotion makes of an
  issue in `AdmissionPromotion`.

### PipelineLifecycle

`stage`, `ending`, `members`, `reentries` are the cursor; `status`, `tries`,
`ordinal` the attempts of the stage; `phase`, `delivery`, `usedKeys` the effects
of its external attempt; `context` the records the attempt was given: which
pool, which targets, which recovery. `box` is the provider.

| Action | Code |
|---|---|
| `StartExternal`, `SchedulePhase`, `ScheduleThrows`, `PromoteSubject`, `RecordResult`, `RecoverPublication` | `kernel-external-boundary.ts`: an external attempt plans its phase, schedules its effects, and turns their deliveries into an outcome |
| `SettleProvision`, `SettlePublish`, `SettleStop`, `SettleCleanup`, `RestoreFrontier` | the settlement and the transition it commits: next stage, re-entry, exhaustion, stop, cleanup, end |
| `StartWork`, `FinishWork`, `SettleSibling`, `SettleBarrier`, `FatalWork` | work attempts with their dependencies, and the loss of a sandbox |
| `LoseLease`, `StopRequest` | faults, and an operator's stop |
| `ConfirmCreate` ... `ConfirmPublication`, `RejectEffect`, `FailIntegrate`, `LoseSandbox` | providers (external) |

An attempt is a few states here and an effect one delivery; `ExecutionKernel` and
`EffectDelivery` have what is between. The rejection of a cleanup is not among
the rejections of the instance: the code ends the run as failed then
(`runtime-lifecycle.ts:96`), and the sandbox stays. An integration that fails in
its sandbox is rejected with evidence that it may be tried again
(`FailIntegrate`), and only that evidence, not any rejection, re-enters the
publication (`PlanOutcome`). The quarantine of a run whose effects are active is not followed either.

### AttemptScheduling

Runs in the stages that count for a reservation, the claims of their attempts
and their create and cleanup effects; the worker's snapshot is read in one step
and used in another, between which a run may be admitted or go on, and a
manifest may fail to resolve (`MaxFlaky`). `ReservedSlots`, `Fits`,
`CanShareItsRun` and `Candidates` are `kernel-store-leases.ts` term by term.
What is left out: after a restart of the supervisor a run whose manifest is not
resolved counts with its standing sandboxes only.

### WorkerCycle

A run is a token that goes through the queues; `Poison` names the queues in
which handling it throws each time. A pass has a budget (`CycleLimit`), and the
step that throws ends the cycle or is swallowed, as in `runCycle`. `quiet` is
what the monitor counts; time is counted in cycles.

### StructuredExecution

The state is what the planner derives from the records of the run: the wave, the
outcomes of its members, and for each unit how many edits it had, which gates it
passed since the last of them and which version was accepted. `On` is
`core/structured` (its outcomes and limits, one unit gate and one final gate). A
planner that throws leaves `refusal` set and stutters from then on. The planner
itself checks nothing of the gates: `PipelineIsGated` states what of the authored
pipeline the safety rests on, in terms of its edges alone (`OnlyPast`), and TLC
evaluates it for the pipeline of the instance.

### CheckpointIntegration

A commit is its place in `commits` and names those behind it (`past`, of which the
last is its parent); a slot is the set of commits its repository has. `Attempt` adds a commit and its bundle, `Plan` names the next merge,
`FetchAncestry`, `Integrate`, `Inspect` are the executor's side and the
supervisor's check of it. `MergeBase` and the three-way merge are operators over
the lines of commits, with `Contents` and `Paths` as small sets. `PlanFits` states
what a plan needs of its pool, and is a hypothesis of one theorem only.

### AttemptExecution

The supervisor's call (`call`), its lease, generation and counters; the files of
the sandbox (`fence`, `sealed`, `sessions`, `engine`, `checkpoint`, `staged`,
`rejected`, `forensics`); and the live runners, each with its lease and step.
Either side may die or be cut off at every step, also between the two
transactions of work with an invalid result: `CompleteWork` gives the lease up,
and `AskForCorrection`, the call that follows it, is lost with the supervisor.
`Stranded` is the row that stays behind, and `AttemptIsOver` is stated up to it.
A runner that throws in its tail may have staged or rejected its candidate
(`GivesUp`); it seals failed work that is not retried, as only the preparation
of an agent throws errors that are (`agent-runtime.mjs:351`). Prompts, the agents' protocols
and git plumbing are left out.

### OperatorRejection, IntegrationAbsence

`OperatorRejection` has the maintenance fence with its version, the effect with
its version and count of look-ups, the run that owns it, and the answer to each
request. One `Request(r)` is one transaction: refused for its fence, answered as
a replay, in conflict, or rejecting for good.

### SessionStart, AdmissionPromotion

`SessionStart`: `Webhook`, `StartHandling` and `AdmitNotice` are the two ways in
(a wake that is dropped if no slot is free; the worker, which joins or queues);
`LookUp`, `CreateThought`, `CreateCutOff`, `LookAgain`, `ArriveLate` the task;
`Perish` a restart, which empties the memory. `AdmissionPromotion`: `Propose`,
`SettleRole`, `GiveUpRole` are the roles with what their successor attempt is
given; `Seal`, `Send`, `CompileChosen`, `Attach`, `Observe`, `Promoted` the
promotion; `AskStop`, `HandleHalt` the stop from the thread. The runtime that
`core/admission` provisions and cleans up is that of `PipelineLifecycle`.

### Steering

`Arrive`, `Enqueue`, `TooLate`, `Authorize`, `Deliver`, `Emit`, `Journal` follow
a comment from the event over the sealed envelope and the file in the sandbox to
the agent's hook; `LeaseTurn`, `FenceTurn`, `Launch`, `BindTurn`, `CollectTurn`,
`Recover` are the turn it is for. The epoch is the generation of the lease.

### CodexCredentials

`Ask` joins or starts the one refresh, `Exchange` is the provider rotating the
token, `Answered`, `Refused`, `TimedOut`, `SettingsFail` what becomes of the
call. `lost` and `reused` are history. Time is a clock of a few ticks. A request
that the provider takes after its timeout ends as one that it took just before;
that it takes it later than the next request with the same token is left out.

### GithubPublication, ProviderWait

Every request of the adapter is an action, and between any two of them people
push, delete, merge, close and edit (`Touch`) and the process may die.
`ProviderWait` is one reconciliation per step: what it reads of every check and
status may be complete, pending, or missing (`Remember`, `Expire`, `Judge`), a
collection that is not found or not read makes all of them `missing` or `unknown`
(`Unread`), and the continuation is what the next one starts from. A failure ages
whatever becomes of its check later (`Tick`). Tokens and paging are I/O.

### VolumeStorage, EpochRelease

A published name is `absent`, `seen` by the running system, `kept` on the disk,
or `torn`; `Kill` keeps what the system has seen, `Outage` what was synced and
some of the rest. `Put` to `CommitPointer` is one blob, `Initialize` to
`PublishDatabase` the initialization of a volume. `EpochRelease` has the pin, the
image, the process and the items; `Accept` is `accept-release.mjs` beside the
running supervisor.

### DefinitionClosure, PipelineValidation

A file is a name with a body, and the body of a definition selects other
definitions. `Load` is the two passes that look at every file of both channels,
selected or not, and never at what it says: unreadable files and too many
(`Readable`, `Joins`), mirrors of core files that differ (`Mirrors`), names that
collide in case or define one identity (`Distinct`), and files that belong nowhere,
to a skill of the other channel or to none (`Indexed`). `Require` walks from the
config and parses what is selected, and nothing else. `Pin` notes the compiler
version and the digest of the runtime capabilities (`environment`), and `Trusted`
is what a reduction asks of the bundle before it compiles it again: the hashes of
its core definitions and that environment. So a run that was pinned under another
environment is not reduced by this release (`PinnedIsCompiled` says so in its
premise); that a release is accepted only while nothing is in progress, which keeps
this from happening, is `EpochRelease`. The registration of evaluators, which
depends on the environment too, counts as parsing (`Parses`). `PipelineValidation` runs the
two searches of `validateStages` with their worklists over several hundred
graphs, and then a run over the accepted ones. `VerdictIsRight` compares the
searches with definitions that need no search (`Reachable`, `Endless`).

## 3. Runs

| Run | Instance | Shows |
|---|---|---|
| `effects_safe` | a push and an integration, 2 workers, 4 leases, recovery batch 1 | `AtMostOneExecution`, `DeliverySafe` (one dispatcher, requests with their fence, untouched offers, true deliveries), `FenceAndSettlementArePermanent`, `ImplementsContract` |
| `effects_live` | an integration with 2 crashes, or a push and a wait; 1 worker, 3 leases | `DeliverySettles`: a fenced launch settles, an effect that is served is settled or fenced, no effect that is due starves |
| `kernel_frontier` | a parallel pair and a third that depends on one of it, 2 executions, 1 retry, 1 correction, no fault | `FrontierSafe` (fan-in, claims, budget, run control), `WorkStands` |
| `kernel_live` | one attempt, 2 executions, 2 faults | `SessionIsTheHolders`, `AttemptsSettle`: a result that is known is settled, a stage ends |
| `inbox_safe` | one GitHub issue with two admissions and a stop between them, the fence open; one Linear event under two delivery ids; such an event, a stop and a control; 2 workers, 1 fault | `IntakeSafe`, `ImplementsContract` |
| `inbox_live` | an admission and a malformed event, which may both become unreadable, and a stop, `HeadLimit` 1, 1 worker, 1 fault | `IntakeSettles`: what was accepted settles, a stop takes effect |
| `pipelines` | 2 notices over 1 slot, 2 refusals, 1 restart; an admission with 2 re-entries and 1 outage; a run with 2 units and 2 slots, 2 faults, 1 recovery; 3 runs for 2 sandboxes; 5 runs through a worker, one of them sound and one for each of the 4 poisons (an event, an attempt, an effect and an external boundary that throw every time); one check required twice, and a status; 2 publications, 3 touches, 2 deaths | `StartSafe`, `PromotionSafe`, `LifecycleSafe`, `SchedulingSafe`, `EventsComeFirst`, `WaitSafe`, `PublicationSafe`, `PipelinesSettle` |
| `execution` | a plan of 3 units and 2 reviewers; 2 waves of 2 units; an agent's and a command's attempt with 1 retry, 1 correction, 1 error; 7 names from two channels (4 definitions of the repository and the platform, a file of a skill's package, one that belongs nowhere, one whose name differs in case only) with 1 commit, 1 release and 2 compiler environments; 2 items over 2 releases | `StructuredSafe`, `CheckpointSafe`, `AttemptSafe`, `ClosureSafe`, `ReleaseSafe`, `ExecutionSettles` |
| `sandbox` | absence threshold 2 (as in the code), 3 faults; 2 requests for an account of 3 tokens; 1 comment over 2 turns, 3 crashes; 2 operators; graphs of 3 stages; 3 blobs in 2 shards, 2 kills, 2 outages | `FatalNeedsAbsences`, `CredentialsSafe`, `SteeringSafe`, `RejectionSafe`, `VerdictIsRight`, `StorageSafe`, `SandboxSettles` |
| `integration_absence_consecutive` | threshold 2, 1 fault | violation: see below |
| `kernel_stranded`, `kernel_replay` | small instances | violations: see below |

Every passing run checks the types of its modules in one invariant as well.

Why the bounds are enough. Effects share no state but the queue and the
recovery batch, so two show every interference, with a batch of one so that it
is exceeded. A second worker is what a takeover needs, and with four leases two
effects can each be taken over. Crashes are not counted in `effects_safe`
because for safety an expired lease with a holder that never moves again is a
crash. In the kernel, two executions let one be superseded by the other at any
point; one retry and one correction reach both limits; the third attempt is
there for dependencies. What deaths and lost leases do they do to one attempt,
so they happen in `kernel_live` and not beside two siblings.

In the inbox, what two events can do to each other they do through one issue, so
there is one of GitHub and one of Linear; two workers show the overtaking of one
handler by another at any await; a fault is what takes a row from a living
handler, or fails a call. `HeadLimit`, 100 in the code, is small enough to be
met.

In `pipelines`, two units with a dependency are a wave that settles in two
steps; one recovery replaces a pool once, and two faults let a second one hit the
stop or cleanup of the replacement. Three runs are two that compete and one whose
pool can never fit. `CycleLimit` 2 is met by two rows of a queue. A wait has two
runs of a check, so that a repeated one can fail as well; with `MaxRuns` 4 the
continuation would grow past what the adapter accepts (see below). Three touches
and two deaths let people act between every two requests of a publication.

In `execution`, the three units make two waves, one of two members; the waves of
the checkpoints fill the pool, because a unit of a later wave in a slot that no
earlier wave used cannot have the integration it starts from (see below). One
error, one retry and one correction give leases in three generations, so that a
runner of an older one can outlive two. Definitions have two bodies each, so that
every one can change or select another. Two releases and six changes of the pin
or the image are there and back again.

In `sandbox`, three tokens are two rotations, one of which may be lost; two turns
are a session and its successor; a second operator is what a replay can be
confused with. The graphs vary every shape that the searches tell apart in three
stages: a forward and a backward edge, bounded or not, a loop body in the graph
or in a file, an unknown target. Two of the blobs share a shard, so that one may
rely on what another made. The re-entries of an admission are 2 of 3.

For what the theorems of section 5 state, none of these bounds matters.

Only the inbox runs check for deadlock. Elsewhere the systems stop on purpose: a
run has ended, an effect has settled, and bounds on faults, leases and changes
stop them too. That they do not stop earlier is what the liveness properties say.
Symmetry is used in runs that check no liveness property.

### Where the code and its documentation disagree

* `FatalAbsencesAreConsecutive`. A reconciliation that finds the sandbox but no
  proof of launch resumes the dispatch; the observation after that is given the
  continuation read *with the lease* (`operations/kernel-effects.ts:629`), so
  the absence that came before the sandbox was seen still counts. The rejection
  says "absent on 2 consecutive reconciliations". What holds is
  `FatalNeedsAbsences`: there were two.
* `CompletedWorkGoesOn`. Work with an invalid result is committed in two
  transactions, `work_complete` and `result_pending`. A death in between leaves
  a row that nothing leases, recovers or lists
  (`pipeline/kernel/ordinary-coordinator.ts:686`). `StageEnds` is therefore
  stated up to such a stranded attempt. The run can still be stopped
  (`ControlFindsAttempt`).
* `RecoveryReplaysOnlyUnfinished`. The recovery of a sandbox pool checks its
  siblings in one view and commits under a later one
  (`ordinary-coordinator.ts:882`); only the *set* of active attempts is
  compared again, not their statuses, so work a sibling completed in between is
  thrown away with the pool.

### Further observations

These came up while modelling. They have no run of their own. Where the list
names a definition, the module states it and TLC refutes it when it is added to
the run of that module; the properties that are checked are stated so that they
say no more than what holds.

* *Recovery forgets and repeats* (`PipelineLifecycle`: `RecoveryKeepsFrontier`,
  `RecoveryResumesOnce`). A recovery goes over a stop and a cleanup to a new
  provision, and the successor of those keeps the trigger only
  (`successor-attempt.ts:117`, `kernel-external-boundary.ts:691`): attempts
  that were active beside it are not created again, which
  `kernel-external-boundary.test.ts:1854` expects. The recovery record is
  inherited by every later successor as well, so a later cleanup provisions and
  runs the same work once more. `RunIsOver` therefore stops at a recovery.
* *A cleanup whose leases are exhausted* asks for a new `stop_needs_human` whose
  idempotency keys are used, and throws each time (`ScheduleThrows`).
* *Planner refusals* (`StructuredExecution`: `NeverAcceptedTwice`,
  `OversizedNeedsHuman`). A wave in which a member was accepted before a sibling
  was rejected has two accepted versions and is refused for ever
  (`kernel-structured-planner.ts:461`); so is a wave with mixed `success` and
  `no_change` (332). An integration that exceeds the evidence bound returns a
  failure without attempts (577), which the reducer refuses (`reducer.ts:1353`)
  where `core-structured.md:47` promises `needs_human`. `PlanIsOver` has
  `refusal` as one of its ends.
* *Merge bases* (`CheckpointIntegration`: `DivergentBranchesMeetAtBase`). "Divergent
  unit branches meet only at the stable checkpoint base"
  (`kernel-checkpoint-bundle.ts:513`) fails for units of a later wave. A slot is the
  unit's place in the plan modulo the size of the pool
  (`runtime-resource.ts:175`), and what a later wave starts on is the bundle of
  the last integration alone. A slot that no earlier wave used has no repository
  to fetch that bundle into (`kernel-adapter.ts:1370`; with waves of 3 and 2
  units over 4 slots TLC ends in `fence`); one that was last used three
  integrations ago lacks a commit on the way back to the base, and
  `checkpoint-bundle.mjs` refuses the input (waves of 4 and 2 units over 4
  slots: `missing`). `CheckpointSafe` is therefore checked with waves that fill
  the pool, and proved of every plan that meets `PlanFits`: where a unit of a later
  wave starts, one of the last three integrations before its wave was made. On the
  eight plans and four sizes of pool that TLC was given, `NothingIsMissing` holds
  exactly where `PlanFits` does.
* *Leases in a sandbox* (`AttemptExecution`: `FenceAdmitsLease`,
  `SealedResultSettles`, `AdoptsOwnCommand`). A new lease starts at generation
  0 (`kernel-store-leases.ts:191`) while the fence in the sandbox belongs to the
  attempt and keeps the highest (Daytona adapter, 1228 to 1295), so a lease after
  a recovered one is refused. A result sealed before its session was bound makes
  `collect` throw until the lease is exhausted. A call may adopt a command of
  another lease. A deadline before the dispatch is retried unverified, which
  `RetriedWhenQuiet` excepts.
* *Required checks* (`ProviderWait`: `HeldIsAccepted`). Four runs of one check can
  give a continuation that the adapter then refuses to read.
* *Comments* (`Steering`: `ConsumedIsHeard`, `HandledWhileAtWork`). A comment
  between 32,001 and 32,768 characters is accepted (`steering.ts:15`) and never
  drained (`ot-inbox-drain.sh:65`). A comment is handled only while no attempt
  runs, as the worker awaits its batch (`kernel-worker.ts:171`), although
  `SPEC.md:435` speaks of a live session.
* *Admission* (`AdmissionPromotion`). A review that is repaired gets the context of
  its own result and no longer the plan; an approval then has nothing to promote
  and throws for ever (`NothingToPromote`, which `AdmissionIsOver` excepts). A
  failure while the promotion is under way leaves its effect held (`Undecided`).
  A stop by run reference that was accepted during the promotion is stale when it
  is handled, and the promoted run goes on; `StopReachesTheWork` is about stops
  from the thread.
* *Worker* (`WorkerCycle`). A poisoned effect keeps its place in the queue
  (`kernel-store-leases.ts:790`); if a cycle takes longer than a lease, the
  effects behind it and the external pass get no turn. The instance has leases
  of two cycles and one poisoned effect: as many of them as a lease has cycles
  would leave no cycle without one that throws. An external attempt that throws for ever is reported as a
  stalled worker (`FailingIsNoticed`), and nothing else becomes of it.
* *Effects*. A process that dies between the creation and the start of a sandbox
  leaves an effect that can only be held.
* *Receipt recovery* does not sync the parent directory, and looks for a file
  before renaming over its name; temporary files of killed processes stay.

## 4. Fairness

*Effects.* The worker runs a cycle at an interval and a cycle drains effects
until the queue is idle, so leasing and every step of a drain are weakly fair;
so are expiry and retry times, as time passes (`Scheduling`). For effects to
settle the provider must do its part (`Service`): observations, preparations
and requests that are tried again and again succeed in the end (strong
fairness, as the provider may fail in between any number of times), and a
launched runner seals its result. `NoStarvation` needs `Scheduling` only.

*Inbox.* Weakly fair are leasing (`LeaseNext`, `LeaseNone`), which is a loop of
every cycle, every step of a handler, as its awaits return or throw, and the
clock: expiry of a lease that no living worker holds, retry times, the grace,
the millisecond. Faults are finitely many (`MaxFaults`); without that, a remote
call that always fails keeps its event for ever, which the code intends.
Providers need not deliver anything, a payload need not be lost, a run need not
end and the fence need not open. `StopTakesEffect` speaks of stops that count
for their run when it has been made, and gives up only when a payload is lost
on the way; `Effective` names the condition that the run's admission is alone
in its millisecond, which the code asks for on purpose
(`app/kernel-provider-prompt.test.ts`, "two eligible origins").

*Integration.* Weak fairness of the worker's steps; errors are bounded.

*Kernel.* Leases, recovery and continuation are weakly fair (each is a loop of
every cycle), and the expiry of a lease whose holder is gone. Commits are
strongly fair: another execution's write disables them by making the view
stale, and the code answers a stale view by loading and reducing again. That
a retry loop wins in the end is an assumption; it is justified as every write
that can beat it is itself a step of a finite protocol, apart from heartbeats,
which come at an interval far longer than a load and a commit. Nothing is
assumed of `Crash`, `Renew`, `RunControl` or of the expiry of a held lease.

*Session start.* Weakly fair are the steps of each task, the worker's look at an
event, and its admission; refusals and restarts are bounded. Nothing is assumed
of webhooks: the worker alone brings an event to its admission.

*Admission.* Weak fairness of the steps of the roles and of the promotion
together (`Admission`); failures are bounded, stops need not come.

*Lifecycle and scheduling.* Every queue of the worker gets its turn, so the
external boundary (`Advance`), each unit's work and each provider's answer are
weakly fair; so are the lease loop (`WorkerStep`) and each run's own steps. The
rejections, losses and stops are faults, which are bounded and not assumed.

*Worker.* Weak fairness of `Cycle`: the interval timer. *Wait.* Of the tick and of
the reconciliation: an effect that is held is due again after a time.
*Publication.* Of `Deliver`: the drain goes on.

*Structured execution, checkpoints.* Weak fairness of the whole next-state
relation: attempts settle, as `ExecutionKernel` shows, and the planner is called
with each settlement.

*Attempt in a sandbox.* Weak fairness of the supervisor's call alone. Runners and
agents owe nothing: `AttemptIsOver` is reached although nothing in the sandbox ever
answers, by deadlines and counted leases.

*Definitions.* Weak fairness of an admission and of the reductions.

*Codex.* Weak fairness of the answer, the refusal and the timeout of a request:
the timeout is the code's, and one of the three comes. *Steering.* Weak fairness
of the cycle, of the journal, of the agent's end and of expiry; strong fairness
of handling the inbox and of setting a comment aside, since the worker's cycle
comes by again and again while an execution stands between. *Volume.* Weak
fairness of the process's own steps, and strong fairness of storing each blob,
as a killed process is started again and offers what it has to store.
*Validation.* Weak fairness of its step: it is a computation.

*Releases and the operator's rejection* are stated without fairness: nobody has
to act.

## 5. Proofs

`tlapm` checks the eight proof modules to the last leaf, for all values of the
constants that satisfy the named assumptions of the modules. Every safety
invariant and every action property that a passing run checks is a theorem; what
a run checks is, name for name, what is proved. Two of them have a hypothesis that
the code does not ensure (`LifecycleIsSafe`, `CheckpointsAreSafe`), for the reasons
below. TLC evaluated each inductive invariant (`IInv`, or one with
the module's name before it) on the instances above before it was proved.

### The detailed specifications

*EffectDelivery*, from `EffectKinds`, `Nulls` and `Bounds`. No safety
property is inductive: `OfferedIsUntouched` says nothing of a worker that holds
a snapshot. `IInv` adds `RowShape` (lease columns go with `processing`, a row
is offered for dispatch exactly while it has no fence), `WorkerShape` (a
snapshot that has a fence has the row's, and a worker about to complete has
seen what the target still is), `OneDispatch` (for a mutation without launch
proof: the worker about to send, the request, and the execution exclude each
other) and `WorldShape` (requests carry the row's fence, nothing is executed
without one). The key step is `MarkDispatchStarted`: only the holder of an
unexpired *or* unrecovered lease passes it, the row then has no fence, hence no
request was ever sent. `Implementation` uses `IInv` to map each action to one of
`EffectContract` or to a stutter.

*ExecutionKernel*, from `FrontierAssumption`, `AcyclicAssumption`,
`LimitAssumption`, `FiniteAssumption`, `NoneAssumption`. `IInv` adds to the
properties `ViewShape` (a fresh view is exact), `RowShape` (a lease only in
statuses that may be leased; no checkpoint before work is complete; an unleased
`result_pending` has a correction left) and `AnswerShape` (an answer with a
checkpoint, if its claim still holds, is about a bound session). The proof is by
frame: a few lemmas say what each group of variables may do in a step
(`QuietStep`, `EndStep`, `RowMoves`), then one lemma for each conjunct of `IInv`
shows it from those. `ControlAlwaysFinds` takes the acyclicity of dependencies,
which `compileKernelCursor` enforces, and finds a member whose dependencies are
all settled. `ClaimsShared` needs the finiteness of the frontier for its
cardinalities. The action properties `CheckpointsFenced`, `WorkNotRedone` and
`OutcomesFinal` follow from `IInv` step by step.

*InboxIntake*, from `DeliveryAssumption`, `BoundAssumption` and
`NoneAssumption`. None of the three properties is inductive, as none says what a
worker knows: `IInv` adds `WorkerShape` (what a worker has read before an await
still holds after it: the run it saw is there, and the stop is later than that
run's origin) and `ControlShape` (control is only asked of an issue with a run,
and a run that has an ender has ended). That this survives the steps of the
others is `RowsForward`
and `RunsForward`: a settled row stays as it is, and a run keeps its origin and
its late stops for good. `Consumption` then says who can consume a row, and
`ContractStep` maps each action to one of `IntakeContract` or to a stutter, a
lease that sets unreadable rows aside to one `Drop` of all of them.

### Admission, worker and providers

*SessionStart*, from `StartAssumption`. `SlotsHold` counts the slots by the
tasks at work, by cardinality, and a release that hands its slot on does not
change the number; `LineHolds` says that the line is empty or holds the event
that is handled; `AnswerIsTrue` that the worker is told of a start only when
Linear shows it.

*AdmissionPromotion*, from `PromotionAssumption` and `NilAssumption`.
`PromotionIInv` says what each role is given and says (`RolesHold`: a reviewer
who is given a plan is given the newest), what is sealed, sent and attached
(`SendingHolds`: from the sealing on neither plans nor results come anew) and what
a handled stop found (`StopHolds`). The lemma `SuccessorKeeps` carries every way
from role to role.

*WorkerCycle*, from `CycleAssumption`. `EventsComeFirst` compares the state at the
end of a pass with what was there when the cycle began, so `OldWaits` says where
that still is: in the inbox, until it has been passed. The queues are sequences
without repetition that hold what is in them (`InboxHolds`, `DueHolds`), which the
lemmas on appending, removing and joining keep.

*AttemptScheduling*, from `SchedulingAssumption`. The worker decides on a snapshot
and writes later. `ClaimsHold` says that whoever has claims is in the snapshot
unless it came after it, and that such a run is known to fit; the room the snapshot
shows is then there when the lease is written. Reservations are added up by
cardinality over finite sets of runs.

*ProviderWait*, from `RequiredAssumption` and `WaitBoundsAssumption`. `WaitHolds`:
the failures that the continuation keeps were seen, and a check it keeps as passed
was green. *GithubPublication*, from `PublicationAssumption`. `PullsHold`: a pull
request that carries what the run wrote was open with that head, however people
move, close and reopen it between two requests.

### A run

*PipelineLifecycle*, from `LifecycleSetsAssumption` and
`LifecycleBoundsAssumption`. `LifecycleIInv` has a part for each stage, which says
what the stages before it left at the provider and in the attempt's context
(`ProvisionHolds`, `WorkHolds`, `ReclaimHolds`), `Known` (every sandbox that exists
is one of the pool that is being made or of the targets the attempt was given),
`StagesHold` and `EndHolds`. `LifecycleIsSafe` has a hypothesis, that cleanups are
not rejected: a rejected one ends the run as `failed` with its sandbox still
there (`runtime-lifecycle.ts:96`). All its other parts hold without it
(`SandboxesAreKnown`, `OutcomesStand`).

*EpochRelease*, from `ReleaseAssumption`. `ServedByThePin` says that what is
in progress was served by the pinned release alone, `WorksUnderThePin` that a
supervisor that takes in work or has some to go on with is of that release. The
acceptance, which moves the pin, is enabled only while nothing is in progress.

*DefinitionClosure*, from `ClosureAssumption`. `LoadableIsInPlace` shows that the
steps of the two passes, channel by channel, refuse exactly what is out of place in
the files as the commit and the release hold them together. `WalkHolds` is the invariant of the
compiler's worklist: what it has selected and what it still wants are in the
closure of the config, and what the selected ones select is among both, so that an
empty worklist has the closure. `ChannelsHold` keeps the two channels apart,
`ReductionHolds` says that a reduction goes by a bundle it found trusted.

*AttemptExecution*, from `ActionsAssumption`, `LimitsAssumption` and
`UnsetAssumption`. The invariant has the supervisor's half (`CallHolds`: what the
row and the call say of leases and of what is recorded) and the sandbox's
(`SandboxHolds`: what the runners that live may still write, and what is sealed). A
step of the one side keeps the other's half because work that is complete stays so
and a candidate that is staged stays the same.

*StructuredExecution*, from `PlanIsAcyclic` and `PipelineIsGated`. The pipeline is
data, so nothing can be said stage by stage. `PassedHolds` and `CheckedHolds` speak
instead of *every* set of stages that is entered only past a gate and left, by an
edit, only to be gated again: in such a stage the gate has been passed since the
last edit, by the whole wave before a member settles there, and by a member of it
after. `PipelineIsGated` then gives such a set for each gate with the acceptance,
or the publication, in it. `LoopHolds` says of the integrations that the members of
a wave are unmerged and all they need is merged. The next unit is the least of those
that are left (`SetHasLeast`, by well-foundedness of the natural numbers).

*CheckpointIntegration*, from `CheckpointAssumption` and `WavesAssumption`.
`ChainHolds` says that the integrations are one line of commits from the source to
the head, `UnitsHold` that a unit's commits branch off it where the wave began, and
that none but attempts are on the branch. So the merge is decided by two things
alone, whether the unit is the first of its wave and whether its last attempt
started on the head the wave began with; whoever holds the candidate's line and the
integrations after it decides alike (`Agreement`), and the executor holds them in
its slot (`SlotsHold`), the supervisor in the bundles (`SealedIsEnough`).
`ResultsAreAccepted` and `MergesKeepBoth` follow for every plan and pool.
`CheckpointsAreSafe` has the hypothesis `PlanFits`, by which `SlotIsClose` shows
that the bundle of the last integration closes the gap in the slot. That units are
counted by their waves (`UnitsBeforeIs`, by cardinality) is what tells one turn of
the integration from another (`TurnIs`).

### A sandbox and its host

*IntegrationAbsence*, from `ThresholdAssumption` and `FaultsAssumption`.
`FatalNeedsAbsences` is about the look-ups that were made; the count travels
through the row, the snapshot of a lease and the hold that is written back, so
the invariant adds `Seen` of each of them: it stands for absences seen before.

*OperatorRejection*, from `RejectionAssumption`. The delivery record says
by whom and, if by an operator, for which request; `DeliveryTells` adds what it
says of the row: an open effect has none, and one that an operator made is of
this very version of the effect and older than the run. A request that comes
again checks just that, so its replay is answered.

*Steering*, from `SteeringAssumption`. An agent emits in the epoch of its lease, and
a comment is heard in the turn it was sealed for, although a turn may be taken over
at any time: `EpochsAreDeaths` counts that every take-over had a death before it,
`TurnHolds` says what the agent that runs was admitted with, `SealedForGood` that a
comment that has come as far as the sandbox is never sealed again.

*CodexCredentials*, from `CredentialBoundsAssumption`. To show `SpentOnce` the
invariant must account for every token that was ever minted: it is good, or spent
and lost, or spent and its successor is known (`Minted`); in the last case no place
that a request would take a token from has it any more (`SuccessorStands`); and
refreshes are ordered by the time they started (`InOrder`, `LaterIsAnother`).

*VolumeStorage*, from `StorageAssumption`. `FilesAreWhole` (a name is given to a file
only after its bytes were flushed) and `JobHolds` (what each step of a put and of an
initialization may rely on) survive any kill and any loss of power; `PointersKept`
follows at the commit of a pointer.

*PipelineValidation*, from `GraphAssumption`: for any graph, the two searches of
`validateStages` accept if and only if no target is unknown, every stage of a
compiled pipeline can be reached and no cycle is endless. `ReachHolds` is what the
worklist owes. For the depth-first search, `VisitedHolds` says that every set of
stages that were left has one that leads out of the set, `PathHolds` that the stages
still being visited are one path; an edge back into the path then closes an endless
cycle, and a search that ends found none. Neither needs induction over the graph.

### The compositions

`PipelinesTypeCorrect`, `SandboxTypeCorrect` and `ExecutedTypeCorrect` are about the
compositions of the runs: every step of one is a step of one module and a stutter of
the others (`StepIsAStepOfEach`, `ExecutedStepIsOfEach`), so that what each module's
steps keep is kept.

### What the proofs found

* `RetriedWhenQuiet` (`AttemptExecution`) held in the runs as it was first
  stated, because they have one retry. With two, a retry that is not verified,
  before the dispatch, leaves a runner of an earlier lease alive past the lease
  after the next. The property now says what holds, of the runners of the lease
  that is given up.
* In `Outage` (`VolumeStorage`) and in the outcome of a plan
  (`PipelineLifecycle`) the arms of a CASE overlapped, which TLC resolves by order
  and the prover rightly does not.
* `PipelineIsGated` is what had to be said of a pipeline before the planner could be
  proved safe; the schema of pipelines asks for none of it.
* What `CheckpointSafe` needs of a plan and its pool. The runs had waves that fill
  the pool; the proof needs less, `PlanFits`, and no check of the code implies
  either (see the observation on merge bases). The rest of the property needs
  nothing of the kind.

### What stays with TLC

All liveness, because temporal reasoning under fairness and `ENABLED` is out of the
prover's reach. The three violations. No module declares a RECURSIVE operator. What
a fold or a recursive function computes for every input is not proved: the theorems
on induction take an operator as a parameter, which the provers cannot instantiate.
Where a proof needs a least element, it takes one from a first-order theorem on
well-founded relations. The operators `@@` and `:>` cannot be expanded in a proof,
so the modules proved about write functions out.

## 6. Plan

*Done:* effect delivery with its contract; the kernel of one stage; the inbox with
its contract; and around these three the lifecycle of a run, scheduling, the
worker's cycle, the sandbox, the providers, storage, releases and definitions.

*Left*, in this order:

1. `StageContract`: the abstract fan-in of one stage, implemented by
   `ExecutionKernel`, so that `PipelineLifecycle` rests on it by refinement.
2. The quarantine of a run with active effects, and a rejected cleanup, in
   `PipelineLifecycle`.
3. Manifests that are not resolved after a restart, in `AttemptScheduling`.
4. The backup of an epoch database beside a running supervisor.

## 7. Not modelled

The command line: it scaffolds files and sends requests to the HTTP server, and
keeps no protocol of its own. Request parsing and signatures, prompts, request
documents, the schemas of single documents, encodings, projections and analysis:
single statements or pure functions without behaviour across transactions. The
provider services appear only as what their adapters may see; tokens and paging
of the GitHub App are I/O. The agents themselves may do anything within their
turn. The build, the website and the deployment files are not part of the
program's logic.
