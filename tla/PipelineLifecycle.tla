------------------------- MODULE PipelineLifecycle -------------------------
(***************************************************************************)
(* One pipeline run through the stages the compiler wraps around every     *)
(* authored pipeline: provision a pool of sandboxes, do the authored work, *)
(* publish, stop the pool, clean it up.  The module follows                *)
(* operations/kernel-external-boundary.ts (what one external attempt does),*)
(* operations/kernel-plan-bindings.ts (its phases, keys and outcomes),     *)
(* pipeline/kernel/reducer.ts (what a settlement or a terminal command     *)
(* commits), pipeline/kernel/successor-attempt.ts (what the next attempt   *)
(* is told) and contracts/src/runtime-lifecycle.ts (the stages).           *)
(*                                                                         *)
(* Work attempts are abstracted to pending, running, complete and settled; *)
(* ExecutionKernel has their detail, EffectDelivery that of one effect.    *)
(***************************************************************************)
EXTENDS Naturals, FiniteSets, Sequences, Functions

CONSTANTS
  Slots,          \* the members of the run's sandbox pool
  Units,          \* the work attempts of the authored work stage
  Needs,          \* Needs[u]: the units that settle before u may start
  Solo,           \* the one attempt of a lifecycle or publish stage
  WorkRetryLimit, \* run.work_retry_limit
  MaxReentries,   \* max_reentries of the authored edges
  Rejects,        \* the kinds of effect a provider or operator may reject
  LossStages,     \* the stages in which the provider may lose a sandbox
  FaultStages,    \* the stages in which a worker may die before its result
  MaxFaults,      \* bound: lost leases and lost sandboxes
  MaxRecoveries,  \* bound: sandbox recoveries
  MaxResumes,     \* bound: restored frontiers
  MaxSubject,     \* bound: commits the run publishes
  None

ASSUME LifecycleSetsAssumption ==
  /\ IsFiniteSet(Slots) /\ Slots # {}
  /\ IsFiniteSet(Units) /\ Units # {} /\ Solo \notin Units
  /\ Needs \in [Units -> SUBSET Units]
ASSUME LifecycleBoundsAssumption ==
  /\ {WorkRetryLimit, MaxReentries, MaxFaults, MaxRecoveries, MaxResumes,
      MaxSubject} \subseteq Nat
  /\ None \notin {"shipped", "failed", "needs_human", "canceled"}

VARIABLES
  stage,      \* run.cursor.stage_id, its outcome suffix kept in ending
  ending,     \* the outcome an ot_runtime_stop_* or _cleanup_* stage ends in
  ended,      \* run.terminal_outcome
  subject,    \* run.current_subject, as the number of commits it is ahead
  reentries,  \* run.cursor.reentries of the authored edges
  members,    \* run.cursor.barrier.member_scope_keys of the current stage
  status,     \* the status of every attempt of the current stage
  tries,      \* the leases given to every attempt so far
  ordinal,    \* work_retry_ordinal of every attempt
  phase,      \* how many phases the external attempt has scheduled
  advanced,   \* its output_subject is verified
  delivery,   \* the deliveries of the last scheduled phase, per target
  context,    \* the records sealed into the current attempts
  usedKeys,   \* the idempotency keys in effects, which is UNIQUE in them
  box,        \* the provider: the sandboxes of every pool
  recoveries, \* recovery DecisionRecords so far; each is named by its number
  lastFront,  \* the frontier the last recovery recorded
  resumes,    \* the recoveries whose frontier was restored, in order
  hits        \* faults so far

runVars      == <<stage, ending, ended, subject, reentries>>
attemptVars  == <<members, status, tries, ordinal, phase, advanced, delivery>>
recordVars   == <<context, usedKeys, recoveries, lastFront, resumes>>
lifecycleVars == <<runVars, attemptVars, recordVars, box, hits>>

Endings   == {"shipped", "failed", "needs_human", "canceled"}
Members   == Units \cup {Solo}
Pools     == (0 .. MaxRecoveries) \X (0 .. MaxSubject)
Kinds     == {"create", "start", "stop", "cleanup"}
External  == {"provision", "publish", "stop", "cleanup"}
Reclaim   == {"stop", "cleanup"}

-----------------------------------------------------------------------------
(* Plans: the phases of an external attempt and whom each one addresses.   *)

\* Mutant of Phases: the sandboxes are created and not started
CreatedIsEnough(st) ==
  CASE st = "provision" -> <<"create">>
    [] st = "publish"   -> <<"integrate", "push", "pull_request">>
    [] st = "stop"      -> <<"stop">>
    [] st = "cleanup"   -> <<"cleanup">>

Phases(st) ==
  CASE st = "provision" -> <<"create", "start">>
    [] st = "publish"   -> <<"integrate", "push", "pull_request">>
    [] st = "stop"      -> <<"stop">>
    [] st = "cleanup"   -> <<"cleanup">>

\* The pool a provision creates is named by the run's current subject and by
\* the recovery it serves; the other plans find theirs in the sealed context.
Pool == IF stage = "provision" THEN <<context.recovery, subject>>
        ELSE context.pool

FirstSlot == CHOOSE s \in Slots : TRUE

\* Mutant of Targets: the first sandbox that was told of, for all of them
FirstTarget == IF stage = "provision" THEN Slots
               ELSE IF stage = "publish" THEN {FirstSlot}
               ELSE {CHOOSE s \in context.targets : TRUE}

Targets == CASE stage = "provision" -> Slots
             [] stage = "publish"   -> {FirstSlot}
             [] OTHER               -> context.targets

Unanswered == \E s \in Slots : delivery[s] = "pending"
Refused    == \E s \in Slots : delivery[s] \in {"rejected", "retryable", "fatal"}
Kind       == Phases(stage)[phase]

\* Mutant of PlanDone: only a plan that is confirmed to its end is done
NeedsEveryPhase ==
  /\ stage \in External /\ status[Solo] \in {"work_complete", "recorded"}
  /\ ~Unanswered
  /\ phase = Len(Phases(stage)) /\ (stage = "publish" => advanced)

\* Every phase scheduled so far is answered, and there is no further one to
\* schedule: the binding evaluates the schedules.
PlanDone ==
  /\ stage \in External /\ status[Solo] \in {"work_complete", "recorded"}
  /\ ~Unanswered
  /\ Refused \/ (phase = Len(Phases(stage)) /\ (stage = "publish" => advanced))

\* Mutant of PlanOutcome: a pool that was created in part is no resource
PartIsNothing ==
  IF stage = "provision" /\ phase = 1 /\ Refused THEN "no_resource"
  ELSE IF Refused THEN "failure" ELSE "success"

\* An integration whose evidence says so is worth another try; a rejection that
\* does not is a failure, as is the absence of a sandbox that is not recovered.
PlanOutcome ==
  CASE ~Refused -> "success"
    [] /\ stage = "provision" /\ phase = 1
       /\ \A s \in Slots : delivery[s] = "rejected"      -> "no_resource"
    [] /\ Refused /\ stage = "publish"
       /\ \E s \in Slots : delivery[s] = "retryable"    -> "retryable"
    [] OTHER -> "failure"

Fatal == /\ stage = "publish" /\ phase = 1
         /\ \E s \in Slots : delivery[s] = "fatal"
         /\ ordinal[Solo] < WorkRetryLimit

-----------------------------------------------------------------------------
(* The next stage and what its attempts are told.                          *)

NoContext == [pool |-> None, targets |-> {}, recovery |-> 0,
              frontier |-> {}, trigger |-> None]

Unscheduled == /\ phase' = 0 /\ advanced' = FALSE
               /\ delivery' = [s \in Slots |-> "none"]

\* deriveKernelSuccessorAttempt: the runtime deliveries and the recovery
\* record are inherited; the frontier records of the recovery are not.
Inherited == [context EXCEPT !.frontier = {}]

EnterSolo(st, end, ctx) ==
  /\ stage' = st /\ ending' = end
  /\ members' = {Solo}
  /\ status' = [m \in Members |-> IF m = Solo THEN "pending" ELSE "none"]
  /\ tries' = [m \in Members |-> 0] /\ ordinal' = [m \in Members |-> 0]
  /\ Unscheduled
  /\ context' = ctx

EnterWork(ctx) ==
  /\ stage' = "work" /\ ending' = None
  /\ members' = Units
  /\ status' = [m \in Members |-> IF m \in Units THEN "pending" ELSE "none"]
  /\ tries' = [m \in Members |-> 0] /\ ordinal' = [m \in Members |-> 0]
  /\ Unscheduled
  /\ context' = ctx

End(outcome) == /\ ended' = outcome /\ stage' = "none" /\ ending' = None
                /\ UNCHANGED <<attemptVars, context>>

\* #prepareTerminalTransition and terminalCommand: the run goes to the stop
\* stage of its outcome when its attempt was told of sandboxes, and ends at
\* once when no create was ever scheduled.  Only the sandboxes are told on.
HasCleanup   == context.targets # {}
PreProvision == stage = "provision" /\ phase = 0
\* Mutant of CanTerminate: open effects and unknown sandboxes do not matter
TerminatesAnyway == TRUE

CanTerminate == ~Unanswered /\ (HasCleanup \/ PreProvision)

Terminate(outcome) ==
  /\ CanTerminate
  /\ IF HasCleanup
     THEN /\ EnterSolo("stop", outcome,
               [NoContext EXCEPT !.pool = context.pool,
                                 !.targets = context.targets])
          /\ UNCHANGED ended
     ELSE End(outcome)
  /\ UNCHANGED <<subject, reentries, usedKeys, box, recoveries, lastFront,
                 resumes>>

\* A sandbox-fatal attempt: the failure names it, seals the active frontier
\* and the sandboxes into a stop_failed attempt, and the run lives on.
Recover(trigger, active) ==
  /\ recoveries < MaxRecoveries
  /\ recoveries' = recoveries + 1
  /\ lastFront' = active
  /\ EnterSolo("stop", "failed",
       [pool |-> context.pool, targets |-> context.targets,
        recovery |-> recoveries + 1, frontier |-> active,
        trigger |-> [stage |-> stage, attempt |-> trigger,
                     ordinal |-> ordinal]])
  /\ UNCHANGED <<ended, subject, reentries, usedKeys, box, resumes>>

Fault == hits < MaxFaults /\ hits' = hits + 1

-----------------------------------------------------------------------------
(* Work attempts.                                                          *)

StartWork(u) ==
  /\ stage = "work" /\ u \in members /\ status[u] = "pending"
  /\ \A v \in Needs[u] \cap members : status[v] = "settled"
  /\ status' = [status EXCEPT ![u] = "running"]
  /\ tries' = [tries EXCEPT ![u] = @ + 1]
  /\ UNCHANGED <<runVars, members, ordinal, phase, advanced, delivery,
                 recordVars, box, hits>>

FinishWork(u) ==
  /\ stage = "work" /\ status[u] = "running"
  /\ status' = [status EXCEPT ![u] = "complete"]
  /\ UNCHANGED <<runVars, members, tries, ordinal, phase, advanced, delivery,
                 recordVars, box, hits>>

\* A sibling of an incomplete barrier only settles.
SettleSibling(u) ==
  /\ stage = "work" /\ status[u] = "complete"
  /\ \E v \in members \ {u} : status[v] # "settled"
  /\ status' = [status EXCEPT ![u] = "settled"]
  /\ UNCHANGED <<runVars, members, tries, ordinal, phase, advanced, delivery,
                 recordVars, box, hits>>

\* The last member of the barrier advances the cursor by the outcome.
SettleBarrier(u) ==
  /\ stage = "work" /\ status[u] = "complete"
  /\ \A v \in members \ {u} : status[v] = "settled"
  /\ \/ /\ EnterSolo("publish", None, Inherited)
        /\ UNCHANGED reentries
     \/ /\ EnterSolo("stop", "failed", Inherited)
        /\ UNCHANGED reentries
     \/ /\ reentries.repair < MaxReentries
        /\ EnterWork(Inherited)
        /\ reentries' = [reentries EXCEPT !.repair = @ + 1]
     \/ /\ reentries.repair >= MaxReentries
        /\ EnterSolo("stop", "needs_human", Inherited)
        /\ UNCHANGED reentries
  /\ UNCHANGED <<ended, subject, usedKeys, box, recoveries, lastFront,
                 resumes, hits>>

Active == {m \in members : status[m] # "settled"}

\* The sandbox of u is out of space.  The frontier is rebuilt on a new pool
\* unless the retry is spent or a sibling's finished work would be lost.
FatalWork(u) ==
  /\ stage = "work" /\ status[u] = "running" /\ Fault
  /\ CASE ordinal[u] >= WorkRetryLimit -> Terminate("failed")
       [] /\ ordinal[u] < WorkRetryLimit
          /\ \E v \in members \ {u} : status[v] = "complete" ->
              Terminate("needs_human")
       [] OTHER -> Recover(u, Active)

Retry(m) ==
  /\ status' = [status EXCEPT ![m] = "pending"]
  /\ UNCHANGED <<runVars, members, tries, ordinal, phase, advanced, delivery,
                 recordVars, box>>

\* lease.generation counts the recoveries of a lease from 0.
Exhausted(m) == tries[m] > WorkRetryLimit

\* The worker of an attempt dies and its lease is recovered, or a recovered
\* execution fails once more and the run is sent to a human.
LoseLease(m) ==
  /\ ended = None /\ status[m] = "running"
  /\ stage \in FaultStages /\ Fault
  /\ \/ Retry(m)
     \/ Exhausted(m) /\ Terminate("needs_human")

-----------------------------------------------------------------------------
(* External attempts.                                                      *)

StartExternal ==
  /\ stage \in External /\ status[Solo] = "pending"
  /\ status' = [status EXCEPT ![Solo] = "running"]
  /\ tries' = [tries EXCEPT ![Solo] = @ + 1]
  /\ UNCHANGED <<runVars, members, ordinal, phase, advanced, delivery,
                 recordVars, box, hits>>

NextKind == Phases(stage)[phase + 1]
KeyTaken == NextKind \in Kinds /\ <<NextKind, Pool>> \in usedKeys

\* The first phase, or the next one once every delivery of the last one is
\* confirmed.  A repeated key of a lifecycle effect fails the transaction.
SchedulePhase ==
  /\ stage \in External /\ status[Solo] \in {"running", "work_complete"}
  /\ phase < Len(Phases(stage)) /\ ~Unanswered /\ ~Refused
  /\ (stage = "publish" /\ phase = 1) => advanced
  /\ ~KeyTaken
  /\ phase' = phase + 1
  /\ status' = [status EXCEPT ![Solo] = "work_complete"]
  /\ delivery' = [s \in Slots |-> IF s \in Targets THEN "pending" ELSE "none"]
  /\ usedKeys' = IF NextKind \in Kinds THEN usedKeys \cup {<<NextKind, Pool>>}
                 ELSE usedKeys
  /\ UNCHANGED <<runVars, members, tries, ordinal, advanced, context,
                 recoveries, lastFront, resumes, box, hits>>

\* A schedule that cannot commit throws, the lease expires and is recovered,
\* until the generations are spent and the run is sent to a human.
ScheduleThrows ==
  /\ stage \in External /\ status[Solo] = "running" /\ phase = 0 /\ KeyTaken
  /\ IF Exhausted(Solo) THEN Terminate("needs_human")
     ELSE Retry(Solo)
  /\ UNCHANGED hits

-----------------------------------------------------------------------------
(* The providers answer the effects of a phase.                            *)

Answer(s, answer, state) ==
  /\ delivery' = [delivery EXCEPT ![s] = answer]
  /\ box' = [box EXCEPT ![Pool][s] = state]
  /\ UNCHANGED <<runVars, members, status, tries, ordinal, phase, advanced,
                 recordVars, hits>>

Pending(s, kinds) == /\ stage \in External /\ delivery[s] = "pending"
                     /\ Kind \in kinds

ConfirmCreate(s) == Pending(s, {"create"}) /\ Answer(s, "confirmed", "created")

ConfirmStart(s) == /\ Pending(s, {"start"}) /\ box[Pool][s] = "created"
                   /\ Answer(s, "confirmed", "started")

\* A sandbox that is stopped already or out of space is stopped all the same;
\* one the provider does not have any more is a rejection.
ConfirmStop(s) ==
  /\ Pending(s, {"stop"})
  /\ Answer(s, "confirmed",
            IF box[Pool][s] = "lost" THEN "lost" ELSE "stopped")

ConfirmCleanup(s) == Pending(s, {"cleanup"}) /\ Answer(s, "confirmed", "absent")

\* An integration needs its sandbox; without it the absence is fatal.
ConfirmIntegrate(s) == /\ Pending(s, {"integrate"})
                       /\ box[Pool][s] = "started"
                       /\ Answer(s, "confirmed", "started")

FatalIntegrate(s) == /\ Pending(s, {"integrate"})
                     /\ box[Pool][s] = "lost"
                     /\ Answer(s, "fatal", "lost")

ConfirmPublication(s) == /\ Pending(s, {"push", "pull_request"})
                         /\ Answer(s, "confirmed", box[Pool][s])

RejectEffect(s) == /\ Pending(s, Rejects)
                   /\ Answer(s, "rejected", box[Pool][s])

\* What the sandbox says of an integration that failed and may be tried again.
FailIntegrate(s) == /\ Pending(s, Rejects \cap {"integrate"})
                    /\ box[Pool][s] = "started"
                    /\ Answer(s, "retryable", "started")

\* The provider loses a sandbox that runs.
LoseSandbox(s) ==
  /\ ended = None /\ stage \in LossStages /\ Fault
  /\ context.pool # None /\ box[context.pool][s] = "started"
  /\ box' = [box EXCEPT ![context.pool][s] = "lost"]
  /\ UNCHANGED <<runVars, attemptVars, recordVars>>

-----------------------------------------------------------------------------
(* Settlement of an external attempt.                                      *)

\* advance_external_subject: the run moves to the integrated commit.
PromoteSubject ==
  /\ stage = "publish" /\ phase = 1 /\ ~advanced /\ ~Unanswered /\ ~Refused
  /\ subject < MaxSubject
  /\ subject' = subject + 1
  /\ advanced' = TRUE
  /\ UNCHANGED <<stage, ending, ended, reentries, members, status, tries,
                 ordinal, phase, delivery, recordVars, box, hits>>

RecordResult ==
  /\ PlanDone /\ ~Fatal /\ status[Solo] = "work_complete"
  /\ status' = [status EXCEPT ![Solo] = "recorded"]
  /\ UNCHANGED <<runVars, members, tries, ordinal, phase, advanced, delivery,
                 recordVars, box, hits>>

RecoverPublication ==
  PlanDone /\ Fatal /\ Recover(Solo, {Solo}) /\ UNCHANGED hits

Settling(st, outcomes) ==
  /\ stage = st /\ PlanDone /\ status[Solo] = "recorded"
  /\ PlanOutcome \in outcomes

Provisioned == [context EXCEPT !.pool = Pool,
                  !.targets = IF phase = 1
                              THEN {s \in Slots : delivery[s] = "confirmed"}
                              ELSE Slots]

SettleProvision ==
  /\ \/ /\ Settling("provision", {"success"}) /\ context.recovery = 0
        /\ EnterWork(Provisioned)
        /\ UNCHANGED ended
     \/ /\ Settling("provision", {"failure"})
        /\ EnterSolo("stop", "failed", [Provisioned EXCEPT !.frontier = {}])
        /\ UNCHANGED ended
     \/ /\ Settling("provision", {"no_resource"})
        /\ End("failed")
  /\ UNCHANGED <<subject, reentries, usedKeys, box, recoveries, lastFront,
                 resumes, hits>>

\* provisionRecovery: the attempts the recovery names are created again; when
\* the context has no frontier record, the trigger alone.
RestoreFrontier ==
  LET trigger  == context.trigger
      restored == IF context.frontier = {} THEN {trigger.attempt}
                  ELSE context.frontier
  IN /\ Settling("provision", {"success"}) /\ context.recovery > 0
     /\ Len(resumes) < MaxResumes
     /\ resumes' = Append(resumes, [recovery |-> context.recovery,
                                    restored |-> restored])
     /\ stage' = trigger.stage /\ ending' = None
     /\ members' = restored
     /\ status' = [m \in Members |-> IF m \in restored THEN "pending"
                                     ELSE "none"]
     /\ tries' = [m \in Members |-> 0]
     /\ ordinal' = [m \in Members |->
                      IF m = trigger.attempt THEN trigger.ordinal[m] + 1
                      ELSE IF m \in restored THEN trigger.ordinal[m] ELSE 0]
     /\ Unscheduled
     /\ context' = [Provisioned EXCEPT !.frontier = {}]
     /\ UNCHANGED <<ended, subject, reentries, usedKeys, box, recoveries,
                    lastFront, hits>>

SettlePublish ==
  /\ \/ /\ Settling("publish", {"success"})
        /\ EnterSolo("stop", "shipped", Inherited)
        /\ UNCHANGED reentries
     \/ /\ Settling("publish", {"failure"})
        /\ EnterSolo("stop", "failed", Inherited)
        /\ UNCHANGED reentries
     \/ /\ Settling("publish", {"retryable"})
        /\ reentries.publish < MaxReentries
        /\ EnterSolo("publish", None, Inherited)
        /\ reentries' = [reentries EXCEPT !.publish = @ + 1]
     \/ /\ Settling("publish", {"retryable"})
        /\ reentries.publish >= MaxReentries
        /\ EnterSolo("stop", "failed", Inherited)
        /\ UNCHANGED reentries
  /\ UNCHANGED <<ended, subject, usedKeys, box, recoveries, lastFront,
                 resumes, hits>>

\* A pool that would not stop is cleaned up all the same.
SettleStop ==
  /\ Settling("stop", {"success", "failure"})
  /\ EnterSolo("cleanup", ending, Inherited)
  /\ UNCHANGED <<ended, subject, reentries, usedKeys, box, recoveries,
                 lastFront, resumes, hits>>

\* cleanupRecovery: an attempt that was told of a recovery provisions again
\* instead of ending the run.
SettleCleanup ==
  /\ \/ /\ Settling("cleanup", {"success"}) /\ context.recovery = 0
        /\ End(ending)
     \/ /\ Settling("cleanup", {"success"}) /\ context.recovery > 0
        /\ EnterSolo("provision", None,
             [context EXCEPT !.pool = None, !.targets = {}])
        /\ UNCHANGED ended
     \/ /\ Settling("cleanup", {"failure"})
        /\ End("failed")
  /\ UNCHANGED <<subject, reentries, usedKeys, box, recoveries, lastFront,
                 resumes, hits>>

\* Mutant of StopRequest: a run that is being reclaimed is canceled again
StopsAgain == ended = None /\ Terminate("canceled") /\ UNCHANGED hits

\* requestRunControl: ignored while the run is being reclaimed, refused while
\* an effect is open or nothing is known of the sandboxes.
StopRequest ==
  /\ ended = None /\ stage \notin Reclaim
  /\ Terminate("canceled") /\ UNCHANGED hits

-----------------------------------------------------------------------------
LifecycleInit ==
  /\ stage = "provision" /\ ending = None /\ ended = None
  /\ subject = 0 /\ reentries = [repair |-> 0, publish |-> 0]
  /\ members = {Solo}
  /\ status = [m \in Members |-> IF m = Solo THEN "pending" ELSE "none"]
  /\ tries = [m \in Members |-> 0] /\ ordinal = [m \in Members |-> 0]
  /\ phase = 0 /\ advanced = FALSE /\ delivery = [s \in Slots |-> "none"]
  /\ context = NoContext /\ usedKeys = {}
  /\ box = [p \in Pools |-> [s \in Slots |-> "absent"]]
  /\ recoveries = 0 /\ lastFront = {} /\ resumes = <<>> /\ hits = 0

Confirm(s) ==
  \/ ConfirmCreate(s) \/ ConfirmStart(s) \/ ConfirmStop(s)
  \/ ConfirmCleanup(s) \/ ConfirmIntegrate(s) \/ FatalIntegrate(s)
  \/ ConfirmPublication(s)

Settle == \/ SettleProvision \/ RestoreFrontier \/ SettlePublish
          \/ SettleStop \/ SettleCleanup

\* What the worker's cycle does for the run.
Advance ==
  \/ StartExternal \/ SchedulePhase \/ ScheduleThrows \/ PromoteSubject
  \/ RecordResult \/ RecoverPublication \/ Settle

WorkStep(u) == \/ StartWork(u) \/ FinishWork(u) \/ SettleSibling(u)
               \/ SettleBarrier(u)

LifecycleNext ==
  \/ Advance
  \/ \E u \in Units : WorkStep(u) \/ FatalWork(u)
  \/ \E m \in Members : LoseLease(m)
  \/ \E s \in Slots : \/ Confirm(s) \/ RejectEffect(s) \/ FailIntegrate(s)
                     \/ LoseSandbox(s)
  \/ StopRequest

LifecycleSpec == LifecycleInit /\ [][LifecycleNext]_lifecycleVars

\* Every queue of the worker gets a turn, and the providers answer.
LifecycleFairness ==
  /\ WF_lifecycleVars(Advance)
  /\ \A u \in Units : WF_lifecycleVars(WorkStep(u))
  /\ \A s \in Slots : WF_lifecycleVars(Confirm(s))

FairLifecycleSpec == LifecycleSpec /\ LifecycleFairness

-----------------------------------------------------------------------------
(* Properties.                                                             *)

\* What a recovery is told of the attempt that broke its sandbox.
Triggers == [stage : {"work", "publish"}, attempt : Members,
             ordinal : [Members -> Nat]]

Contexts == [pool : Pools \cup {None}, targets : SUBSET Slots,
             recovery : 0 .. MaxRecoveries, frontier : SUBSET Members,
             trigger : Triggers \cup {None}]

\* The state of a run has the shape the store gives it.
LifecycleTypeOK ==
  /\ stage \in External \cup {"work", "none"}
  /\ ending \in Endings \cup {None} /\ ended \in Endings \cup {None}
  /\ subject \in 0 .. MaxSubject
  /\ members \in SUBSET Members
  /\ status \in [Members -> {"none", "pending", "running", "complete",
                             "settled", "work_complete", "recorded"}]
  /\ tries \in [Members -> Nat] /\ ordinal \in [Members -> Nat]
  /\ phase \in 0 .. 3 /\ advanced \in BOOLEAN
  /\ delivery \in [Slots -> {"none", "pending", "confirmed", "rejected",
                             "retryable", "fatal"}]
  /\ context \in Contexts /\ recoveries \in 0 .. MaxRecoveries
  /\ usedKeys \in SUBSET (Kinds \X Pools)
  /\ box \in [Pools -> [Slots -> {"absent", "created", "started", "stopped",
                                  "lost"}]]

Existing == {e \in Pools \X Slots : box[e[1]][e[2]] # "absent"}

\* Every sandbox that exists is one the current attempt creates or was told
\* of: whatever happens next, a stop and a cleanup can name it.
NothingForgotten ==
  \A e \in Existing :
    \/ stage = "provision" /\ e[1] = Pool /\ phase > 0
    \/ e[1] = context.pool /\ e[2] \in context.targets

\* A run that has ended has left no sandbox behind, however it ended.
NoLeakAtEnd == ended # None => Existing = {}

\* A pool that replaces another is not created before the other is gone.
OneGeneration == \A e, f \in Existing : e[1] = f[1]

\* Work runs on a complete pool: every sandbox was started, none is stopped.
WorkOnStartedPool ==
  (stage = "work" /\ \E u \in Units : status[u] = "running") =>
    /\ context.targets = Slots
    /\ \A s \in Slots : box[context.pool][s] \in {"started", "lost"}

\* A run ends as shipped only with its publication, and with no open effect.
EndsWithItsOutcome ==
  ended # None => /\ ~Unanswered
                  /\ ended = "shipped" => subject > 0

\* An outcome that was decided when the pool was stopped is the one the run
\* ends in, whatever is requested or lost meanwhile: only the reclamation can
\* fail or need a human, and only a recovery goes back to provisioning.
DecidedOutcomeStands ==
  [][ending # None =>
       \/ ending' = ending
       \/ ending' = None /\ ended' \in {ending, "failed"}
       \/ ending' = "needs_human"
       \/ ending' = None /\ stage' = "provision" /\ context.recovery > 0
     ]_lifecycleVars

\* What a run comes to, whatever is rejected and retried, if its pool never breaks.
RunIsOver == ended # None \/ recoveries > 0

\* Every attempt that was active when the sandbox broke is created again.
RecoveryKeepsFrontier ==
  [][\A n \in DOMAIN resumes' \ DOMAIN resumes :
       lastFront \subseteq resumes'[n].restored]_lifecycleVars

\* A recovery creates the attempts it names once: the retry it grants is used
\* up by the attempt it is granted to.
RecoveryResumesOnce ==
  \A m, n \in DOMAIN resumes :
    resumes[m].recovery = resumes[n].recovery => m = n

\* Sandboxes over the life of a run: every one that exists is known to the
\* context that will clean it up, they are of one pool, agents work on a pool that
\* was started whole, none is left when the run ends, and the run ends as decided.
LifecycleSafe ==
    /\ [](NothingForgotten /\ NoLeakAtEnd /\ OneGeneration)
    /\ [](WorkOnStartedPool /\ EndsWithItsOutcome)
    /\ DecidedOutcomeStands
=============================================================================
