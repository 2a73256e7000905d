--------------------------- MODULE ExecutionKernel ---------------------------
(***************************************************************************)
(* One stage of one pipeline run: the frontier of its attempts, from their *)
(* creation to the run's next stage or to a terminal transition.  The      *)
(* state is the run and attempt rows of the store (kernel-store.ts,        *)
(* kernel-store-leases.ts), the transitions are the commands of the        *)
(* reducer (reducer.ts), and the actors are executions of                  *)
(* OrdinaryKernelCoordinator (ordinary-coordinator.ts) of agent attempts:  *)
(* several in one process, and those of a process that was taken for dead. *)
(*                                                                         *)
(* Every command is reduced from a view that was loaded before, with       *)
(* awaits in between, and is applied by compare-and-set on the run's       *)
(* version, which every write to the run or to one of its attempts moves.  *)
(* So an execution loads (the view is then fresh), and commits only while  *)
(* its view is fresh; any write makes all views stale.  The run columns a  *)
(* commit writes are computed from the view, not from the state.           *)
(*                                                                         *)
(* Abstractions.  A claim (lease id, generation, worker id, purpose) is    *)
(* the execution it was given to; the purpose follows from the status.  A  *)
(* checkpoint is named by the execution that made it, a native session by  *)
(* the work retry it was opened in.  Successor and cleanup attempts belong *)
(* to the next stage and are left out with it.                             *)
(***************************************************************************)
EXTENDS Naturals, FiniteSets

CONSTANTS
    Attempts,           \* the frontier of the stage
    Deps,               \* depends_on of each member
    Cohort,             \* members of a parallel inspect cohort
    CohortWidth,        \* max_parallel of that cohort
    ExecutionWidth,     \* leased attempts of all runs
    RetryLimit,         \* work_retry_limit
    CorrectionLimit,    \* result_correction_limit
    Executions,         \* concurrent executions
    MaxFaults,          \* bound on crashes and on expiries of a held lease
    None

ASSUME FrontierAssumption ==
    /\ Attempts # {}
    /\ Cohort \subseteq Attempts
    /\ Deps \in [Attempts -> SUBSET Attempts]

\* compileKernelCursor: "kernel cursor dependencies contain a cycle"
ASSUME AcyclicAssumption ==
    \A S \in SUBSET Attempts : S # {} => \E a \in S : Deps[a] \cap S = {}

ASSUME LimitAssumption ==
    /\ RetryLimit \in Nat /\ CorrectionLimit \in Nat
    /\ CohortWidth \in Nat /\ ExecutionWidth \in Nat /\ MaxFaults \in Nat

ASSUME FiniteAssumption == IsFiniteSet(Attempts)

ASSUME NoneAssumption == None \notin Executions \cup Attempts \cup Nat

VARIABLES
    \* the run row
    run,            \* "wave" while the cursor is at this stage, then its end
    active,         \* active_attempt_versions
    done,           \* cursor.completed_scope_keys
    \* the attempt rows
    status, session, checkpoint,
    result,         \* result_record_id is not null
    retries,        \* work_retry_ordinal
    corrections,    \* result_correction_count
    holder,         \* the execution the lease was given to
    generation,     \* lease_generation
    started,        \* lease_started
    expired,        \* lease_expires_at <= now
    \* views
    fresh,          \* executions whose view has the run's version
    seenActive, seenDone,
    \* executions
    pc, job,
    outcome,        \* what the runtime answered
    evidence,       \* the frontier a sandbox recovery was decided on
    faults

runRow == <<run, active, done>>
leaseColumns == <<holder, generation, started, expired>>
rows == <<status, session, checkpoint, result, retries, corrections>>
views == <<fresh, seenActive, seenDone>>
local == <<pc, job, outcome, evidence>>
vars == <<runRow, rows, leaseColumns, views, local, faults>>

-----------------------------------------------------------------------------

Ends == {"successor", "failed", "needs_human", "canceled", "superseded",
         "recovery", "quarantined"}

Completed == {"work_complete", "result_pending", "recorded"}
TerminalStatuses == {"settled", "failed", "needs_human", "canceled", "superseded"}
Statuses == {"pending", "running"} \cup Completed \cup TerminalStatuses

WorkOutcomes == {"complete", "invalid", "blocked", "unable", "retryable",
                 "failed", "fatal"}
CorrectionOutcomes == {"complete", "invalid", "failed"}

PCs == {"idle", "begin", "run", "outcome", "checkpointed", "record", "settle",
        "recover", "replace", "error"}

TypeOK ==
    /\ run \in {"wave"} \cup Ends
    /\ active \subseteq Attempts
    /\ done \subseteq Attempts
    /\ status \in [Attempts -> Statuses]
    /\ session \in [Attempts -> Nat \cup {None}]
    /\ checkpoint \in [Attempts -> Executions \cup {None}]
    /\ result \in [Attempts -> BOOLEAN]
    /\ retries \in [Attempts -> 0..RetryLimit]
    /\ corrections \in [Attempts -> Nat]
    /\ holder \in [Attempts -> Executions \cup {None}]
    /\ generation \in [Attempts -> Nat]
    /\ started \in [Attempts -> BOOLEAN]
    /\ expired \in [Attempts -> BOOLEAN]
    /\ fresh \subseteq Executions
    /\ seenActive \in [Executions -> SUBSET Attempts]
    /\ seenDone \in [Executions -> SUBSET Attempts]
    /\ pc \in [Executions -> PCs]
    /\ job \in [Executions -> Attempts \cup {None}]
    /\ outcome \in [Executions -> WorkOutcomes \cup CorrectionOutcomes \cup {None}]
    /\ evidence \in [Executions -> SUBSET Attempts]
    /\ faults \in 0..MaxFaults

Init ==
    /\ run = "wave"
    /\ active = Attempts
    /\ done = {}
    /\ status = [a \in Attempts |-> "pending"]
    /\ session = [a \in Attempts |-> None]
    /\ checkpoint = [a \in Attempts |-> None]
    /\ result = [a \in Attempts |-> FALSE]
    /\ retries = [a \in Attempts |-> 0]
    /\ corrections = [a \in Attempts |-> 0]
    /\ holder = [a \in Attempts |-> None]
    /\ generation = [a \in Attempts |-> 0]
    /\ started = [a \in Attempts |-> FALSE]
    /\ expired = [a \in Attempts |-> FALSE]
    /\ fresh = {}
    /\ seenActive = [w \in Executions |-> {}]
    /\ seenDone = [w \in Executions |-> {}]
    /\ pc = [w \in Executions |-> "idle"]
    /\ job = [w \in Executions |-> None]
    /\ outcome = [w \in Executions |-> None]
    /\ evidence = [w \in Executions |-> {}]
    /\ faults = 0

-----------------------------------------------------------------------------
(* Helpers.                                                                *)

\* Mutant of OwnsClaim: the generation of the lease is not compared.
OwnsAnyGeneration(w) == holder[job[w]] # None

\* assertAttemptLeaseClaim
OwnsClaim(w) == holder[job[w]] = w

\* Mutant of Loaded: applied without the compare-and-set.
LoadedAtAnyVersion(w) ==
    /\ job[w] \in seenActive[w]
    /\ Deps[job[w]] \subseteq seenDone[w]

\* What a commit needs of the loaded view: the compare-and-set of
\* applyAtomicTransition, and assertBaseInput.
Loaded(w) ==
    /\ w \in fresh
    /\ job[w] \in seenActive[w]
    /\ Deps[job[w]] \subseteq seenDone[w]

Claimed(w) == Loaded(w) /\ OwnsClaim(w)

Correcting(w) == status[job[w]] = "result_pending"

\* Mutant of MoveVersion: a write that leaves the run's version alone.
KeepVersion == UNCHANGED views

\* A write to the run or to one of its attempts moves the run's version.
MoveVersion == fresh' = {} /\ UNCHANGED <<seenActive, seenDone>>

\* replaceAttempt: the run columns are written back from the view.
ReplaceAttempt(w) ==
    /\ run' = "wave"
    /\ active' = seenActive[w]
    /\ done' = seenDone[w]
    /\ MoveVersion

ClearLease(S) ==
    /\ holder' = [a \in Attempts |-> IF a \in S THEN None ELSE holder[a]]
    /\ generation' = [a \in Attempts |-> IF a \in S THEN 0 ELSE generation[a]]
    /\ started' = [a \in Attempts |-> started[a] /\ a \notin S]
    /\ expired' = [a \in Attempts |-> expired[a] /\ a \notin S]

Goto(w, p) ==
    /\ pc' = [pc EXCEPT ![w] = p]
    /\ UNCHANGED <<job, outcome, evidence>>

Begin(w, a, p) ==
    /\ pc' = [pc EXCEPT ![w] = p]
    /\ job' = [job EXCEPT ![w] = a]
    /\ UNCHANGED <<outcome, evidence>>

Finish(w) ==
    /\ pc' = [pc EXCEPT ![w] = "idle"]
    /\ job' = [job EXCEPT ![w] = None]
    /\ outcome' = [outcome EXCEPT ![w] = None]
    /\ evidence' = [evidence EXCEPT ![w] = {}]

\* The view is no longer used.
Forget(w) ==
    /\ fresh' = fresh \ {w}
    /\ UNCHANGED <<seenActive, seenDone>>

-----------------------------------------------------------------------------
(* Leases (kernel-store-leases.ts).                                        *)

Leased == {a \in Attempts : holder[a] # None}

\* claimRows
Claims == Leased \cup {a \in Attempts : status[a] \in {"work_complete", "result_pending"}}

\* Mutant of CanShareItsRun: unleased work in progress is not a claim.
CanShareBesideLeases(a) ==
    \/ Leased \subseteq {a}
    \/ /\ Leased \cup {a} \subseteq Cohort
       /\ Cardinality(Leased \cup {a}) <= CohortWidth

\* candidateCanShareItsRun
CanShareItsRun(a) ==
    \/ Claims \subseteq {a}
    \/ /\ Claims \cup {a} \subseteq Cohort
       /\ Cardinality(Claims \cup {a}) <= CohortWidth

\* leaseNextEligibleAttempt.  The purpose of the lease of a result_pending
\* attempt is its correction, which is counted here.
Lease(w, a) ==
    /\ pc[w] = "idle"
    /\ run = "wave"
    /\ status[a] \in {"pending", "result_pending"}
    /\ Deps[a] \subseteq done
    /\ holder[a] = None
    /\ Cardinality(Leased) < ExecutionWidth
    /\ CanShareItsRun(a)
    /\ holder' = [holder EXCEPT ![a] = w]
    /\ generation' = [generation EXCEPT ![a] = 0]
    /\ started' = [started EXCEPT ![a] = FALSE]
    /\ expired' = [expired EXCEPT ![a] = FALSE]
    /\ corrections' = [corrections EXCEPT ![a] =
           IF status[a] = "result_pending" THEN @ + 1 ELSE @]
    /\ MoveVersion
    /\ Begin(w, a, "begin")
    /\ UNCHANGED <<runRow, status, session, checkpoint, result, retries, faults>>

\* Mutant of Recover: the lease of a correction is not recovered.
RecoverWorkOnly(w, a) ==
    /\ pc[w] = "idle"
    /\ holder[a] # None
    /\ expired[a]
    /\ status[a] \in {"pending", "running"}
    /\ holder' = [holder EXCEPT ![a] = w]
    /\ generation' = [generation EXCEPT ![a] = @ + 1]
    /\ expired' = [expired EXCEPT ![a] = FALSE]
    /\ MoveVersion
    /\ Begin(w, a, "begin")
    /\ UNCHANGED <<runRow, rows, started, faults>>

\* recoverExpiredAttemptLeases: the lease keeps its id, and its generation
\* fences the execution that held it.
Recover(w, a) ==
    /\ pc[w] = "idle"
    /\ holder[a] # None
    /\ expired[a]
    /\ status[a] \in {"pending", "running", "result_pending"}
    /\ holder' = [holder EXCEPT ![a] = w]
    /\ generation' = [generation EXCEPT ![a] = @ + 1]
    /\ expired' = [expired EXCEPT ![a] = FALSE]
    /\ MoveVersion
    /\ Begin(w, a, "begin")
    /\ UNCHANGED <<runRow, rows, started, faults>>

\* renewAttemptLease, the heartbeat of a running action
Renew(w) ==
    /\ pc[w] = "run"
    /\ OwnsClaim(w)
    /\ expired' = [expired EXCEPT ![job[w]] = FALSE]
    /\ MoveVersion
    /\ UNCHANGED <<runRow, rows, holder, generation, started, local, faults>>

\* Time passes the expiry.  It costs a fault if the holder is still at work.
LeaseExpires(a) ==
    /\ holder[a] # None
    /\ ~expired[a]
    /\ expired' = [expired EXCEPT ![a] = TRUE]
    /\ IF job[holder[a]] = a
       THEN faults < MaxFaults /\ faults' = faults + 1
       ELSE UNCHANGED faults
    /\ UNCHANGED <<runRow, rows, holder, generation, started, views, local>>

\* The process of an execution dies.
Crash(w) ==
    /\ pc[w] # "idle"
    /\ faults < MaxFaults
    /\ faults' = faults + 1
    /\ Forget(w)
    /\ Finish(w)
    /\ UNCHANGED <<runRow, rows, leaseColumns>>

-----------------------------------------------------------------------------
(* executeLeasedAttempt.                                                   *)

\* loadExactReductionView, the run and the current attempt in one stretch.
\* At "run" it is the view of bindRuntimeSession.
Load(w) ==
    /\ pc[w] \notin {"idle", "replace"}
    /\ pc[w] = "run" => session[job[w]] = None
    /\ w \notin fresh
    /\ fresh' = fresh \cup {w}
    /\ seenActive' = [seenActive EXCEPT ![w] = active]
    /\ seenDone' = [seenDone EXCEPT ![w] = done]
    /\ IF pc[w] = "recover" THEN Goto(w, "replace") ELSE UNCHANGED local
    /\ UNCHANGED <<runRow, rows, leaseColumns, faults>>

\* Mutant of StartedStatus: the purpose of the lease is not consulted.
StartedAsWork(a) == IF status[a] = "result_pending" THEN "running" ELSE "running"

StartedStatus(a) == IF status[a] = "result_pending" THEN status[a] ELSE "running"

\* start
Start(w) ==
    LET a == job[w] IN
    /\ pc[w] = "begin"
    /\ Claimed(w)
    /\ ~started[a]
    /\ status' = [status EXCEPT ![a] = StartedStatus(a)]
    /\ started' = [started EXCEPT ![a] = TRUE]
    /\ ReplaceAttempt(w)
    /\ UNCHANGED <<session, checkpoint, result, retries, corrections, holder,
                   generation, expired, local, faults>>

\* executeWork or correctResult is called.
Launch(w) ==
    LET a == job[w] IN
    /\ pc[w] = "begin"
    /\ Claimed(w)
    /\ started[a]
    /\ Correcting(w) => corrections[a] <= CorrectionLimit /\ session[a] # None
    /\ Goto(w, "run")
    /\ Forget(w)
    /\ UNCHANGED <<runRow, rows, leaseColumns, faults>>

\* on_session: KernelRuntimeSessionService.bindRuntimeSession
BindSession(w) ==
    LET a == job[w] IN
    /\ pc[w] = "run"
    /\ Claimed(w)
    /\ status[a] = "running"
    /\ ~expired[a]
    /\ session[a] = None
    /\ session' = [session EXCEPT ![a] = retries[a]]
    /\ ReplaceAttempt(w)
    /\ UNCHANGED <<status, checkpoint, result, retries, corrections,
                   leaseColumns, local, faults>>

\* The runtime answers.  A checkpoint comes out of a session that was bound.
Answer(w, o) ==
    /\ pc[w] = "run"
    /\ IF Correcting(w) THEN o \in CorrectionOutcomes ELSE o \in WorkOutcomes
    /\ o \in {"complete", "invalid", "blocked"} => session[job[w]] # None
    /\ pc' = [pc EXCEPT ![w] = "outcome"]
    /\ outcome' = [outcome EXCEPT ![w] = o]
    /\ Forget(w)
    /\ UNCHANGED <<runRow, rows, leaseColumns, job, evidence, faults>>

\* The runtime call throws.
Throw(w) ==
    /\ pc[w] = "run"
    /\ Goto(w, "error")
    /\ Forget(w)
    /\ UNCHANGED <<runRow, rows, leaseColumns, faults>>

\* #completeWork, with the ResultRecord of a valid result or without any
CompleteWork(w) ==
    LET a == job[w] IN
    /\ pc[w] = "outcome"
    /\ Claimed(w)
    /\ status[a] = "running"
    /\ outcome[w] \in {"complete", "invalid", "blocked"}
    /\ status' = [status EXCEPT ![a] = "work_complete"]
    /\ checkpoint' = [checkpoint EXCEPT ![a] = w]
    /\ result' = [result EXCEPT ![a] = outcome[w] = "complete"]
    /\ ClearLease({a})
    /\ ReplaceAttempt(w)
    /\ Goto(w, IF outcome[w] = "complete" THEN "record" ELSE "checkpointed")
    /\ UNCHANGED <<session, retries, corrections, faults>>

\* Mutant of ResultPending: one correction too many.
ResultPendingOnceMore(w) ==
    LET a == job[w] IN
    /\ outcome[w] = "invalid"
    /\ \/ pc[w] = "checkpointed" /\ Loaded(w) /\ status[a] = "work_complete"
       \/ pc[w] = "outcome" /\ Claimed(w) /\ Correcting(w)
          /\ corrections[a] <= CorrectionLimit
    /\ status' = [status EXCEPT ![a] = "result_pending"]
    /\ ClearLease({a})
    /\ ReplaceAttempt(w)
    /\ Finish(w)
    /\ UNCHANGED <<session, checkpoint, result, retries, corrections, faults>>

\* result_pending, after #completeWork and without a claim, or after a
\* correction that is invalid again
ResultPending(w) ==
    LET a == job[w] IN
    /\ outcome[w] = "invalid"
    /\ \/ pc[w] = "checkpointed" /\ Loaded(w) /\ status[a] = "work_complete"
       \/ pc[w] = "outcome" /\ Claimed(w) /\ Correcting(w)
          /\ corrections[a] < CorrectionLimit
    /\ status' = [status EXCEPT ![a] = "result_pending"]
    /\ ClearLease({a})
    /\ ReplaceAttempt(w)
    /\ Finish(w)
    /\ UNCHANGED <<session, checkpoint, result, retries, corrections, faults>>

\* record
Record(w) ==
    LET a == job[w] IN
    /\ pc[w] = "record"
    /\ Loaded(w)
    /\ status[a] = "work_complete"
    /\ status' = [status EXCEPT ![a] = "recorded"]
    /\ result' = [result EXCEPT ![a] = TRUE]
    /\ ReplaceAttempt(w)
    /\ Goto(w, "settle")
    /\ UNCHANGED <<session, checkpoint, retries, corrections, leaseColumns, faults>>

\* Mutant of Advance: the scope key of the settled member is not recorded.
AdvanceForgetsKey(w) ==
    /\ done' = seenDone[w]
    /\ run' = "wave"
    /\ active' = seenActive[w] \ {job[w]}
    /\ MoveVersion

\* settleAuthorized, the run columns: the last member of the barrier replaces
\* the frontier by that of the next stage.
Advance(w) ==
    /\ done' = seenDone[w] \cup {job[w]}
    /\ IF done' = Attempts
       THEN run' = "successor" /\ active' = {}
       ELSE run' = "wave" /\ active' = seenActive[w] \ {job[w]}
    /\ MoveVersion

\* settle, and correct_and_settle of a corrected result
Settle(w) ==
    LET a == job[w] IN
    /\ \/ pc[w] = "settle" /\ Loaded(w) /\ status[a] = "recorded"
       \/ pc[w] = "outcome" /\ Claimed(w) /\ Correcting(w)
          /\ outcome[w] = "complete"
    /\ status' = [status EXCEPT ![a] = "settled"]
    /\ result' = [result EXCEPT ![a] = TRUE]
    /\ ClearLease({a})
    /\ Advance(w)
    /\ Finish(w)
    /\ UNCHANGED <<session, checkpoint, retries, corrections, faults>>

\* Mutants of Retry: the session outlives the work it was opened for, and the
\* limit is not consulted.
RetryKeepsSession(w) ==
    LET a == job[w] IN
    /\ pc[w] = "outcome" /\ Claimed(w) /\ ~Correcting(w)
    /\ outcome[w] = "retryable"
    /\ retries[a] < RetryLimit
    /\ status' = [status EXCEPT ![a] = "pending"]
    /\ retries' = [retries EXCEPT ![a] = @ + 1]
    /\ ClearLease({a})
    /\ ReplaceAttempt(w)
    /\ Finish(w)
    /\ UNCHANGED <<session, checkpoint, result, corrections, faults>>
RetryWithoutLimit(w) ==
    LET a == job[w] IN
    /\ pc[w] = "outcome" /\ Claimed(w) /\ ~Correcting(w)
    /\ outcome[w] = "retryable"
    /\ status' = [status EXCEPT ![a] = "pending"]
    /\ retries' = [retries EXCEPT ![a] = @ + 1]
    /\ session' = [session EXCEPT ![a] = None]
    /\ ClearLease({a})
    /\ ReplaceAttempt(w)
    /\ Finish(w)
    /\ UNCHANGED <<checkpoint, result, corrections, faults>>

\* retry
Retry(w) ==
    LET a == job[w] IN
    /\ pc[w] = "outcome"
    /\ Claimed(w)
    /\ ~Correcting(w)
    /\ outcome[w] = "retryable"
    /\ retries[a] < RetryLimit
    /\ status' = [status EXCEPT ![a] = "pending"]
    /\ retries' = [retries EXCEPT ![a] = @ + 1]
    /\ session' = [session EXCEPT ![a] = None]
    /\ ClearLease({a})
    /\ ReplaceAttempt(w)
    /\ Finish(w)
    /\ UNCHANGED <<checkpoint, result, corrections, faults>>

\* The members of the frontier whose work is done, but for the failed one.
CompletedSiblings(w) == {b \in seenActive[w] \ {job[w]} : status[b] \in Completed}

\* #recoverSandboxFatalOnce up to its last load: the frontier is taken down
\* as evidence, and none of it has completed its work.
DecideRecovery(w) ==
    /\ pc[w] = "outcome"
    /\ Claimed(w)
    /\ outcome[w] = "fatal"
    /\ retries[job[w]] < RetryLimit
    /\ CompletedSiblings(w) = {}
    /\ evidence' = [evidence EXCEPT ![w] = seenActive[w]]
    /\ pc' = [pc EXCEPT ![w] = "recover"]
    /\ Forget(w)
    /\ UNCHANGED <<runRow, rows, leaseColumns, job, outcome, faults>>

\* The transition finds the version moved, and the recovery is decided anew.
RecoveryStale(w) ==
    /\ pc[w] = "replace"
    /\ w \notin fresh
    /\ pc' = [pc EXCEPT ![w] = "outcome"]
    /\ evidence' = [evidence EXCEPT ![w] = {}]
    /\ UNCHANGED <<runRow, rows, leaseColumns, views, job, outcome, faults>>

\* "sandbox recovery evidence does not preserve the exact active frontier"
RecoveryRefused(w) ==
    /\ pc[w] = "replace"
    /\ Claimed(w)
    /\ evidence[w] # seenActive[w]
    /\ Goto(w, "error")
    /\ UNCHANGED <<runRow, rows, leaseColumns, views, faults>>

\* terminalAttemptWrites and the run of a terminal command: every active
\* attempt goes with the run.
EndRun(S, attemptStatus, end) ==
    /\ run' = end
    /\ active' = {}
    /\ status' = [a \in Attempts |-> IF a \in S THEN attemptStatus ELSE status[a]]
    /\ result' = [a \in Attempts |-> result[a] /\ a \notin S]
    /\ ClearLease(S)
    /\ MoveVersion
    /\ UNCHANGED <<done, session, checkpoint, retries, corrections>>

\* The sandbox pool is replaced: every member of the frontier is failed, to be
\* restored as a pending attempt once the pool has been provisioned again.
ReplacePool(w) ==
    /\ pc[w] = "replace"
    /\ Claimed(w)
    /\ evidence[w] = seenActive[w]
    /\ EndRun(seenActive[w], "failed", "recovery")
    /\ Finish(w)
    /\ UNCHANGED faults

\* #terminal("failed"): retries do not help, or are spent.
MustFail(w) ==
    /\ pc[w] = "outcome"
    /\ Claimed(w)
    /\ ~Correcting(w)
    /\ \/ outcome[w] = "failed"
       \/ outcome[w] \in {"retryable", "fatal"} /\ retries[job[w]] >= RetryLimit

\* #terminal("needs_human") and #terminalCorrectionNeedsHuman
MustAsk(w) ==
    LET a == job[w] IN
    \/ pc[w] = "checkpointed" /\ Loaded(w) /\ outcome[w] = "blocked"
    \/ /\ Claimed(w)
       /\ \/ pc[w] = "outcome" /\ outcome[w] = "unable"
          \/ /\ pc[w] = "outcome" /\ outcome[w] = "fatal"
             /\ retries[a] < RetryLimit
             /\ CompletedSiblings(w) # {}
          \/ /\ pc[w] = "outcome" /\ Correcting(w)
             /\ \/ outcome[w] = "failed"
                \/ outcome[w] = "invalid" /\ corrections[a] >= CorrectionLimit
          \/ pc[w] = "begin" /\ Correcting(w) /\ started[a]
          \/ pc[w] = "error" /\ (Correcting(w) \/ generation[a] >= RetryLimit)

Terminate(w) ==
    /\ \/ MustFail(w) /\ EndRun(seenActive[w], "failed", "failed")
       \/ MustAsk(w) /\ EndRun(seenActive[w], "needs_human", "needs_human")
    /\ Finish(w)
    /\ UNCHANGED faults

\* terminalizeExhaustedRecovery with recoveries left: the lease is left to expire.
Abandon(w) ==
    /\ pc[w] = "error"
    /\ Claimed(w)
    /\ ~Correcting(w)
    /\ generation[job[w]] < RetryLimit
    /\ Forget(w)
    /\ Finish(w)
    /\ UNCHANGED <<runRow, rows, leaseColumns, faults>>

\* quarantineExhaustedAttemptRecovery, when the terminal transition cannot be
\* prepared
Quarantine(w) ==
    /\ pc[w] = "error"
    /\ Claimed(w)
    /\ generation[job[w]] >= RetryLimit
    /\ EndRun(seenActive[w], "needs_human", "quarantined")
    /\ Finish(w)
    /\ UNCHANGED faults

\* The loaded view refuses the command: the claim is stale, the run is over,
\* or another execution has done it.  terminalizeExhaustedRecovery finds the
\* same claim stale and leaves everything as it is.
GiveUp(w) ==
    /\ w \in fresh
    /\ \/ run # "wave" \/ job[w] \notin seenActive[w]
       \/ pc[w] \in {"begin", "run", "outcome", "replace", "error"} /\ ~OwnsClaim(w)
       \/ pc[w] \in {"checkpointed", "record"} /\ status[job[w]] # "work_complete"
       \/ pc[w] = "settle" /\ status[job[w]] # "recorded"
    /\ Forget(w)
    /\ Finish(w)
    /\ UNCHANGED <<runRow, rows, leaseColumns, faults>>

\* Mutant of ResumeReady: completed work is not listed.
ResumeRecorded(w, a) ==
    /\ pc[w] = "idle"
    /\ run = "wave"
    /\ status[a] = "recorded"
    /\ holder[a] = None /\ checkpoint[a] # None /\ result[a]
    /\ Begin(w, a, "settle")
    /\ UNCHANGED <<runRow, rows, leaseColumns, views, faults>>

\* resumeReadyAttempt, of a candidate of listReadyOrdinaryAttempts
ResumeReady(w, a) ==
    /\ pc[w] = "idle"
    /\ run = "wave"
    /\ status[a] \in {"work_complete", "recorded"}
    /\ holder[a] = None /\ checkpoint[a] # None /\ result[a]
    /\ Begin(w, a, IF status[a] = "recorded" THEN "settle" ELSE "record")
    /\ UNCHANGED <<runRow, rows, leaseColumns, views, faults>>

\* requestRunControl at its compare-and-set: stop or supersede.
RunControl ==
    /\ run = "wave"
    /\ \E a \in active : Deps[a] \subseteq done
    /\ \E end \in {"canceled", "superseded"} : EndRun(active, end, end)
    /\ UNCHANGED <<local, faults>>

-----------------------------------------------------------------------------

Next ==
    \/ \E w \in Executions :
        \/ \E a \in Attempts : Lease(w, a) \/ Recover(w, a) \/ ResumeReady(w, a)
        \/ \E o \in WorkOutcomes \cup CorrectionOutcomes : Answer(w, o)
        \/ Load(w) \/ Start(w) \/ Launch(w) \/ BindSession(w) \/ Throw(w)
        \/ CompleteWork(w) \/ ResultPending(w) \/ Record(w) \/ Settle(w)
        \/ Retry(w) \/ DecideRecovery(w) \/ RecoveryStale(w)
        \/ RecoveryRefused(w) \/ ReplacePool(w) \/ Terminate(w) \/ Abandon(w)
        \/ Quarantine(w) \/ GiveUp(w) \/ Renew(w) \/ Crash(w)
    \/ \E a \in Attempts : LeaseExpires(a)
    \/ RunControl

Spec == Init /\ [][Next]_vars

-----------------------------------------------------------------------------
(* Safety.                                                                 *)

\* The fan-in neither loses nor repeats a member, whatever transitions race:
\* the active attempts are the unsettled members of the frontier, the run
\* leaves the stage only with all members settled or ended together, and no
\* lease outlives it (assertCursorTopology, assertRunProjections).
FrontierIsUnsettled ==
    /\ done = {a \in Attempts : status[a] = "settled"}
    /\ run = "wave" =>
        /\ active = Attempts \ done
        /\ active # {}
        /\ \A a \in active : status[a] \notin TerminalStatuses
    /\ run = "successor" => done = Attempts
    /\ run # "wave" =>
        /\ active = {}
        /\ \A a \in Attempts : status[a] \in TerminalStatuses /\ holder[a] = None

\* Attempts are in progress side by side only as members of one parallel
\* inspect cohort, within its width.  An attempt between its work and its
\* recorded result is in progress, leased or not, as its sandbox is in use.
ClaimsShareOnlyInCohort ==
    \A a \in Claims :
        \/ Claims = {a}
        \/ Claims \subseteq Cohort /\ Cardinality(Claims) <= CohortWidth

\* A native session belongs to the current work retry of its attempt, and all
\* completed work has one, in which its result can be corrected.
SessionOfThisWork ==
    \A a \in Attempts :
        /\ session[a] \in {None, retries[a]}
        /\ status[a] \in Completed \cup {"settled"} => session[a] # None

\* Runtime corrections stay in their budget, though the lease that counts
\* them does not consult it.
CorrectionCap == IF CorrectionLimit = 0 THEN 1 ELSE CorrectionLimit

CorrectionBudget == \A a \in Attempts : corrections[a] <= CorrectionCap

\* requestRunControl never fails with "active pipeline run has no
\* deterministic control Attempt".
ControlFindsAttempt ==
    run = "wave" => \E a \in active : Deps[a] \subseteq done

\* Only the execution that holds the lease publishes a checkpoint, never one
\* that was superseded by a recovery, and a checkpoint is never replaced.
CheckpointIsTheHolders ==
    [][\A a \in Attempts :
        checkpoint'[a] # checkpoint[a]
            => checkpoint[a] = None /\ checkpoint'[a] = holder[a]]_vars

\* Work that was completed is not done again: its attempt goes on to its
\* settlement or ends with the run, and a recorded result stays recorded.
CompletedWorkIsNotRedone ==
    [][\A a \in Attempts :
        /\ status[a] \in Completed
            => status'[a] \in Completed \cup TerminalStatuses
        /\ status[a] = "recorded"
            => status'[a] \in {"recorded"} \cup TerminalStatuses]_vars

\* Once the run has left the stage no late execution changes it or any of its
\* attempts, and a settled attempt never changes again.
OutcomeIsFinal ==
    [][/\ run # "wave" => UNCHANGED <<runRow, rows, holder>>
       /\ \A a \in Attempts :
            status[a] = "settled" => status'[a] = "settled"]_vars

\* "whole-pool replacement is not allowed to replay a sibling in
\* `work_complete`, `result_pending`, or `recorded`" (docs/SPEC.md section 8).
RecoveryReplaysOnlyUnfinished ==
    run = "recovery" =>
        \A a \in Attempts : status[a] = "failed" => checkpoint[a] = None

-----------------------------------------------------------------------------
(* The inductive invariant behind the safety properties.                   *)

\* A fresh view is exact, and a busy execution has an attempt.
ViewShape ==
    /\ \A w \in fresh : seenActive[w] = active /\ seenDone[w] = done
    /\ \A w \in Executions : pc[w] # "idle" => job[w] \in Attempts

\* What the columns of an attempt have to do with its status.
RowShape ==
    \A a \in Attempts :
        /\ holder[a] # None => status[a] \in {"pending", "running", "result_pending"}
        /\ status[a] \in {"pending", "running"} => checkpoint[a] = None
        /\ status[a] \in {"pending", "running", "work_complete"}
            => corrections[a] = 0
        /\ status[a] = "result_pending" /\ holder[a] = None
            => corrections[a] < CorrectionCap

\* An answer that comes with a checkpoint is about a session that is bound, as
\* long as it is still wanted.
AnswerShape ==
    \A w \in Executions :
        /\ pc[w] \in {"recover", "replace"} => outcome[w] = "fatal"
        /\ /\ pc[w] = "outcome"
           /\ outcome[w] \in {"complete", "invalid", "blocked"}
           /\ OwnsClaim(w)
           /\ status[job[w]] = "running"
           => session[job[w]] # None

IInv ==
    /\ TypeOK /\ ViewShape /\ RowShape /\ AnswerShape
    /\ FrontierIsUnsettled /\ SessionOfThisWork /\ CorrectionBudget

-----------------------------------------------------------------------------
(* Liveness.  The worker's cycle goes on, and time passes.  A transition that *)
(* keeps finding its view stale is loaded and reduced again until it applies. *)

Commit(w) ==
    \/ Start(w) \/ BindSession(w) \/ CompleteWork(w) \/ ResultPending(w)
    \/ Record(w) \/ Settle(w) \/ Retry(w) \/ ReplacePool(w) \/ Terminate(w)

Fairness ==
    /\ \A a \in Attempts : WF_vars(LeaseExpires(a) /\ job[holder[a]] # a)
    /\ \A w \in Executions :
        /\ WF_vars(\E a \in Attempts :
                     Lease(w, a) \/ Recover(w, a) \/ ResumeReady(w, a))
        /\ WF_vars(Load(w))
        /\ SF_vars(Commit(w))
        /\ SF_vars(Launch(w) \/ DecideRecovery(w) \/ RecoveryRefused(w))
        /\ SF_vars(Abandon(w) \/ GiveUp(w))
        /\ WF_vars(RecoveryStale(w))
        /\ WF_vars(Throw(w) \/ \E o \in WorkOutcomes : Answer(w, o))

FairSpec == Spec /\ Fairness

\* A result that is recorded, or whose record was committed with the work, is
\* settled in the end although the execution that made it died, unless the
\* run ends first.
ResultsSettle ==
    \A a \in Attempts :
        status[a] = "recorded" \/ (status[a] = "work_complete" /\ result[a])
            ~> status[a] = "settled" \/ run # "wave"

\* Completed work without a result record that nothing works on.
Stranded(a) ==
    status[a] = "work_complete" /\ ~result[a] /\ \A w \in Executions : job[w] # a

\* Whatever the runtime answers and whichever executions die, the run leaves
\* the stage, or work is stranded without a result.
StageEnds == <>(run # "wave" \/ \E a \in Attempts : Stranded(a))

\* "If it fails after work completed, the Attempt enters `result_pending`"
\* (docs/SPEC.md section 6.4), whatever dies in between.
CompletedWorkGoesOn ==
    \A a \in Attempts : status[a] = "work_complete" ~> status[a] # "work_complete"

\* Work comes to its end: a result that is known is settled, and a stage ends.
AttemptsSettle == ResultsSettle /\ StageEnds

\* The frontier of a stage, whoever settles its members: what is active is what
\* has not settled, a stop always finds one of them, claims are shared inside a
\* cohort alone, and corrections stay in their budget.
FrontierSafe ==
    /\ FrontierIsUnsettled
    /\ ControlFindsAttempt
    /\ ClaimsShareOnlyInCohort
    /\ CorrectionBudget

\* What was done stands: no step redoes work that was completed, revives an
\* attempt that settled or changes a run that ended.
WorkStands ==
    /\ CompletedWorkIsNotRedone
    /\ OutcomeIsFinal

\* Work is committed by the execution that holds the claim, and a session that is
\* resumed is one of the work the attempt is on.
SessionIsTheHolders ==
    /\ []SessionOfThisWork
    /\ CheckpointIsTheHolders
=============================================================================
