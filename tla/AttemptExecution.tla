-------------------------- MODULE AttemptExecution --------------------------
(***************************************************************************)
(* One attempt executed in a Daytona sandbox: the supervisor's call         *)
(* (KernelDaytonaAdapter.#execute), the disk it shares with the sandbox,     *)
(* and the runner that entrypoint.sh starts there.                           *)
(*                                                                          *)
(* The two sides never talk: the supervisor puts a request, runs one command *)
(* under a lock and polls for files; the runner seals a session event and a  *)
(* result.  Either side may die at any step.  A call that dies leaves the    *)
(* attempt leased, and the lease is recovered in its next generation; work   *)
(* that failed and may be retried, and a result that has to be corrected,    *)
(* get a fresh lease, with request and result paths of its own, in the same  *)
(* sandbox.  The action directory, the dispatch lock and the fence of lease  *)
(* generations belong to the attempt and outlive its leases.                 *)
(***************************************************************************)
EXTENDS Integers, FiniteSets

CONSTANTS
    Actions,          \* kinds of action: a subset of {"agent", "command"}
    Proposals,       \* valid result candidates an agent may submit
    RetryLimit,   \* the run's work_retry_limit
    CorrectionLimit,  \* the run's result_correction_limit
    MaxErrors,        \* bound: crashes, provider errors and dead runners
    Unset             \* model value: nothing

ASSUME ActionsAssumption == Actions \subseteq {"agent", "command"}
ASSUME LimitsAssumption ==
    RetryLimit \in Nat /\ CorrectionLimit \in Nat /\ MaxErrors \in Nat
ASSUME UnsetAssumption ==
    /\ Unset \notin Proposals
    /\ (Proposals \cup {Unset}) \cap
          {"exit", "pending", "retry", "fail", "human", "partial", "missing",
           "garbage", "several"} = {}

VARIABLES
    action,        \* the kind of the attempt's action
    standing,      \* the attempt's status
    why,           \* what ended it
    lease,         \* its lease, 0 when there is none
    generation,    \* the lease's generation
    minted,        \* leases minted so far
    retries,       \* work_retry_ordinal
    corrections,   \* result_correction_count
    bound,         \* native_session_id is bound
    late,          \* the correction deadline has passed
    diagnosed,     \* retry ordinals whose forensics were recorded
    recordedAs,    \* the candidate that was recorded
    call,          \* where the supervisor's call is
    fence,         \* lease-generation.json, -1 when there is none
    sealed,        \* the result.json of every lease
    sessions,      \* leases with a session.json
    forensics,     \* leases with a forensics.json
    engine,        \* engine-complete.json exists
    checkpoint,    \* checkpoint.json exists
    staged,        \* candidate.json of the submission channel
    rejected,      \* rejected.json of the submission channel
    runners,       \* live runners, each with its lease, step and verdict
    runs,          \* how often the agent's work was completed
    errors         \* faults so far

attempt == <<action, standing, why, minted, retries, corrections, bound, late,
             diagnosed, recordedAs>>
leased == <<lease, generation>>
files == <<fence, sealed, sessions, forensics, engine, checkpoint, staged, rejected>>
executionVars == <<attempt, leased, call, files, runners, runs, errors>>

\* Work is leased once and for every retry; a result_pending attempt once for
\* every correction and once more to find its budget spent.
Leases == 1..(RetryLimit + CorrectionLimit + 2)
Complete == Proposals \cup {"exit"}
Verdicts == Complete \cup {"pending", "retry", "fail", "human"}
Ended == {"recorded", "failed", "needs_human"}

Correcting == standing = "result_pending"
Sealed(l) == sealed[l] \in Verdicts

Steps == {"start", "agent", "command", "correct", "tail", "open", "seal", "exit"}
Runners == [lease : Leases, step : Steps, verdict : Verdicts \cup {Unset}]

ExecutionTypeOK ==
    /\ action \in Actions
    /\ standing \in {"pending", "running", "work_complete", "result_pending"} \cup Ended
    /\ why \in {Unset, "outcome", "exhausted", "unavailable"}
    /\ lease \in Leases \cup {0} /\ minted \in Leases \cup {0}
    /\ generation \in Nat /\ retries \in 0..RetryLimit
    /\ corrections \in 0..(CorrectionLimit + 1)
    /\ bound \in BOOLEAN /\ late \in BOOLEAN
    /\ diagnosed \subseteq 0..RetryLimit
    /\ recordedAs \in Complete \cup {Unset}
    /\ call \in {"idle", "open", "entered", "fenced", "prepared", "polling",
                "adopted", "closing", "asking"}
    /\ fence \in Int /\ fence >= -1
    /\ sealed \in [Leases -> Verdicts \cup {Unset, "partial"}]
    /\ sessions \subseteq Leases /\ forensics \subseteq Leases
    /\ engine \in BOOLEAN /\ checkpoint \in BOOLEAN
    /\ staged \in Proposals \cup {Unset} /\ rejected \in BOOLEAN
    /\ runners \subseteq Runners
    /\ runs \in Nat /\ errors \in 0..MaxErrors

ExecutionInit ==
    /\ action \in Actions
    /\ standing = "pending" /\ why = Unset
    /\ lease = 0 /\ generation = 0 /\ minted = 0
    /\ retries = 0 /\ corrections = 0
    /\ bound = FALSE /\ late = FALSE
    /\ diagnosed = {} /\ recordedAs = Unset
    /\ call = "idle"
    /\ fence = -1
    /\ sealed = [l \in Leases |-> Unset]
    /\ sessions = {} /\ forensics = {}
    /\ engine = FALSE /\ checkpoint = FALSE
    /\ staged = Unset /\ rejected = FALSE
    /\ runners = {} /\ runs = 0 /\ errors = 0

-----------------------------------------------------------------------------
(* The lease of the attempt and how it ends                                *)

\* A fresh lease starts in generation 0; the lease of a correction counts it.
Lease ==
    /\ call = "idle" /\ lease = 0
    /\ standing \in {"pending", "result_pending"}
    /\ minted' = minted + 1
    /\ lease' = minted + 1 /\ generation' = 0
    /\ corrections' = corrections + IF Correcting THEN 1 ELSE 0
    /\ call' = "open"
    /\ UNCHANGED <<action, standing, why, retries, bound, late, diagnosed,
                   recordedAs, files, runners, runs, errors>>

\* The lease of a call that died expires, and is recovered under its own
\* identity in the next generation.
RecoverLease ==
    /\ call = "idle" /\ lease # 0
    /\ generation' = generation + 1
    /\ call' = "open"
    /\ UNCHANGED <<attempt, lease, files, runners, runs, errors>>

Finish(s, reason) ==
    /\ standing' = s /\ why' = reason
    /\ lease' = 0 /\ generation' = 0
    /\ call' = "idle"

\* terminalizeExhaustedRecovery: a correction is not tried again, and work
\* only while its lease has generations left.
Threw ==
    /\ IF Correcting \/ generation >= RetryLimit
       THEN Finish("needs_human", "exhausted")
       ELSE call' = "idle" /\ UNCHANGED <<standing, why, leased>>
    /\ UNCHANGED <<action, minted, retries, corrections, bound, late, diagnosed,
                   recordedAs>>

\* Work that failed is retried in its budget, unless the same failure was
\* diagnosed in the try before.
WorkFailed(retryable, evidence) ==
    \E same \in BOOLEAN :
        /\ same => evidence /\ (retries - 1) \in diagnosed
        /\ diagnosed' = IF evidence THEN diagnosed \cup {retries} ELSE diagnosed
        /\ IF retryable /\ ~same /\ retries < RetryLimit
           THEN /\ standing' = "pending" /\ retries' = retries + 1
                /\ bound' = FALSE
                /\ lease' = 0 /\ generation' = 0 /\ call' = "idle"
                /\ UNCHANGED why
           ELSE /\ Finish("failed", "outcome")
                /\ UNCHANGED <<retries, bound>>
        /\ UNCHANGED <<action, minted, corrections, late, recordedAs>>

HandToHuman ==
    /\ Finish("needs_human", "outcome")
    /\ UNCHANGED <<action, minted, retries, corrections, bound, late, diagnosed,
                   recordedAs>>

Failed(retryable, evidence) ==
    IF Correcting THEN HandToHuman ELSE WorkFailed(retryable, evidence)

\* The result is recorded with the session that the same collection bound.
Record(v) ==
    /\ Finish("recorded", "outcome")
    /\ recordedAs' = v
    /\ bound' = (bound \/ lease \in sessions)
    /\ UNCHANGED <<action, minted, retries, corrections, late, diagnosed>>

\* Work that is complete without a valid result is committed as complete first,
\* and its lease with it.
CompleteWork ==
    /\ standing' = "work_complete"
    /\ bound' = (bound \/ lease \in sessions)
    /\ lease' = 0 /\ generation' = 0 /\ call' = "asking"
    /\ UNCHANGED <<action, why, minted, retries, corrections, late, diagnosed,
                   recordedAs>>

\* Then, in a transaction of its own, its result has to be corrected, under a
\* lease to come.
AskForCorrection ==
    /\ call = "asking"
    /\ standing' = "result_pending" /\ call' = "idle"
    /\ UNCHANGED <<action, why, minted, retries, corrections, bound, late,
                   diagnosed, recordedAs, leased, files, runners, runs, errors>>

\* A correction that did not help leads to another one.
AskAgain ==
    /\ lease' = 0 /\ generation' = 0 /\ call' = "idle"
    /\ UNCHANGED attempt

WorkSettled(v) ==
    \/ v \in Complete /\ Record(v)
    \/ v = "pending" /\ CompleteWork
    \/ v = "human" /\ HandToHuman
    \/ v \in {"retry", "fail"} /\ WorkFailed(v = "retry", FALSE)

CorrectionSettled(v) ==
    \/ v \in Complete /\ Record(v)
    \/ v = "pending" /\ corrections < CorrectionLimit /\ AskAgain
    \/ v = "pending" /\ corrections >= CorrectionLimit /\ HandToHuman
    \/ v \in {"human", "retry", "fail"} /\ HandToHuman

Settled(v) == IF Correcting THEN CorrectionSettled(v) ELSE WorkSettled(v)

-----------------------------------------------------------------------------
(* The supervisor's call                                                   *)

\* A correction past its budget or its deadline is not executed.
RefuseCorrection ==
    /\ call = "open"
    /\ Correcting /\ (late \/ corrections > CorrectionLimit)
    /\ Finish("needs_human", "unavailable")
    /\ UNCHANGED <<action, minted, retries, corrections, bound, late, diagnosed,
                   recordedAs, files, runners, runs, errors>>

\* The lease is started and the adapter's call begins.
StartLease ==
    /\ call = "open"
    /\ Correcting => ~late /\ corrections <= CorrectionLimit
    /\ standing' = IF Correcting THEN standing ELSE "running"
    /\ call' = "entered"
    /\ UNCHANGED <<action, why, minted, retries, corrections, bound, late,
                   diagnosed, recordedAs, leased, files, runners, runs, errors>>

\* The fence of the attempt moves to this generation; it never moves back.
RefreshFence ==
    /\ call = "entered" /\ fence <= generation
    /\ fence' = generation
    /\ call' = "fenced"
    /\ UNCHANGED <<attempt, leased, sealed, sessions, forensics, engine,
                   checkpoint, staged, rejected, runners, runs, errors>>

FenceRefuses ==
    /\ call = "entered" /\ fence > generation
    /\ Threw
    /\ UNCHANGED <<files, runners, runs, errors>>

Collecting == call \in {"fenced", "polling", "adopted"}

\* An agent's result is accepted only with its session bound.
SessionKnown == action = "agent" /\ ~Correcting => lease \in sessions

\* on_session: the event the runner sealed is bound before the result.
BindSession ==
    /\ Collecting /\ lease \in sessions /\ ~bound
    /\ ~Correcting /\ ~Sealed(lease)
    /\ bound' = TRUE
    /\ UNCHANGED <<action, standing, why, minted, retries, corrections, late,
                   diagnosed, recordedAs, leased, call, files, runners, runs, errors>>

\* The sealed result of this lease is read, before a launch or while polling.
Collect ==
    /\ Collecting /\ Sealed(lease)
    /\ IF SessionKnown THEN Settled(sealed[lease]) ELSE Threw
    /\ UNCHANGED <<files, runners, runs, errors>>

Worker(l) == [lease |-> l, step |-> "start", verdict |-> Unset]

\* Nothing to replay: the directories, the input subject and the sealed request
\* of this lease are put into the sandbox.
PrepareInputs ==
    /\ call = "fenced" /\ ~Sealed(lease)
    /\ call' = "prepared"
    /\ UNCHANGED <<attempt, leased, files, runners, runs, errors>>

\* Mutant of AlreadyRan: every launch of a lease runs
NeverSpent == FALSE

\* entrypoint.sh: the lease has a result already, or forensics.
AlreadyRan == sealed[lease] # Unset \/ lease \in forensics

\* Mutant of Dispatch: no lock around the command.
UnlockedDispatch ==
    /\ call = "prepared"
    /\ runners' = runners \cup {Worker(lease)}
    /\ call' = "polling"
    /\ UNCHANGED <<attempt, leased, files, runs, errors>>

\* The command runs under the attempt's lock: it contends with a live runner,
\* ends at once when the lease already has a result or forensics, and is the
\* runner otherwise.  Without a command identity the call gives up.
Dispatch ==
    /\ call = "prepared"
    /\ LET contended == runners # {}
       IN \E identified \in BOOLEAN :
            /\ runners' = IF contended \/ AlreadyRan THEN runners ELSE {Worker(lease)}
            /\ call' = CASE ~identified -> "closing"
                         [] identified /\ contended -> "adopted"
                         [] identified /\ ~contended -> "polling"
    /\ UNCHANGED <<attempt, leased, files, runs, errors>>

\* The action's deadline passes before the command is dispatched.
ExpireBeforeDispatch ==
    /\ call = "prepared"
    /\ Failed(TRUE, FALSE)
    /\ UNCHANGED <<files, runners, runs, errors>>

Own == {r \in runners : r.lease = lease}

\* The command has exited without a sealed result.
CommandExits ==
    /\ call = "polling" /\ ~Sealed(lease) /\ Own = {}
    /\ call' = "closing"
    /\ UNCHANGED <<attempt, leased, files, runners, runs, errors>>

\* Mutant of Deadline: an adopted command is waited for without end
AdoptedWaits ==
    /\ call = "polling" /\ ~Sealed(lease)
    /\ call' = "closing"
    /\ UNCHANGED <<attempt, leased, files, runners, runs, errors>>

\* An adopted command is only ever waited for.
Deadline ==
    /\ call \in {"polling", "adopted"} /\ ~Sealed(lease)
    /\ call' = "closing"
    /\ UNCHANGED <<attempt, leased, files, runners, runs, errors>>

\* The session of this lease is deleted and verified to be gone, its commands
\* with it; then what they sealed is collected, or their forensics are.
CloseSession ==
    /\ call = "closing"
    /\ runners' = runners \ Own
    /\ CASE Sealed(lease) /\ SessionKnown -> Settled(sealed[lease])
         [] Sealed(lease) /\ ~SessionKnown -> Threw
         [] ~Sealed(lease) -> Failed(TRUE, lease \in forensics)
    /\ UNCHANGED <<files, runs, errors>>

\* Mutant of CloseUnverified: retried as if it were verified.
RetryUnverified ==
    /\ call = "closing"
    /\ Failed(TRUE, FALSE)
    /\ UNCHANGED <<files, runners, runs, errors>>

\* Whether the session is gone is not known: the work is not retried.
CloseUnverified ==
    /\ call = "closing"
    /\ Failed(FALSE, FALSE)
    /\ UNCHANGED <<files, runners, runs, errors>>

Fails == errors < MaxErrors /\ errors' = errors + 1

\* The supervisor process ends; nothing of the call is left but the lease, and
\* between the two transactions not even that.
SupervisorCrash ==
    /\ Fails /\ call # "idle"
    /\ call' = "idle"
    /\ UNCHANGED <<attempt, leased, files, runners, runs>>

\* A request to the provider fails.
ProviderError ==
    /\ Fails /\ call \notin {"idle", "open", "asking"}
    /\ Threw
    /\ UNCHANGED <<files, runners, runs>>

CorrectionExpires ==
    /\ Correcting /\ ~late
    /\ late' = TRUE
    /\ UNCHANGED <<action, standing, why, minted, retries, corrections, bound,
                   diagnosed, recordedAs, leased, call, files, runners, runs, errors>>

-----------------------------------------------------------------------------
(* The runner                                                              *)

Goes(r, s, v) == runners' = (runners \ {r}) \cup {[r EXCEPT !.step = s, !.verdict = v]}
Seals(r, v) == Goes(r, "open", v)
SupervisorKept == UNCHANGED <<attempt, leased, call, fence>>

\* Mutant of RunnerStarts: completed work is not recognised.
StartsOver(r) ==
    /\ r.step = "start"
    /\ Goes(r, IF action = "command" THEN "command" ELSE "agent", Unset)
    /\ staged' = Unset /\ rejected' = FALSE
    /\ SupervisorKept
    /\ UNCHANGED <<sealed, sessions, forensics, engine, checkpoint, runs, errors>>

\* executeAttempt: completed work is taken up where it is; otherwise the
\* action directory is made anew.
RunnerStarts(r) ==
    /\ r.step = "start"
    /\ CASE Correcting /\ r.lease = minted ->
              /\ IF checkpoint /\ engine THEN Goes(r, "correct", Unset) ELSE Seals(r, "human")
              /\ UNCHANGED <<staged, rejected>>
         [] ~(Correcting /\ r.lease = minted) /\ action = "command" ->
              /\ Goes(r, "command", Unset)
              /\ UNCHANGED <<staged, rejected>>
         [] ~(Correcting /\ r.lease = minted) /\ action = "agent" /\ engine ->
              /\ Goes(r, "tail", Unset)
              /\ UNCHANGED <<staged, rejected>>
         [] ~(Correcting /\ r.lease = minted) /\ action = "agent" /\ ~engine ->
              /\ Goes(r, "agent", Unset)
              /\ staged' = Unset /\ rejected' = FALSE
    /\ SupervisorKept
    /\ UNCHANGED <<sealed, sessions, forensics, engine, checkpoint, runs, errors>>

\* onSession: the engine reports its native session once.
AgentReports(r) ==
    /\ r.step = "agent" /\ r.lease \notin sessions
    /\ sessions' = sessions \cup {r.lease}
    /\ SupervisorKept
    /\ UNCHANGED <<sealed, forensics, engine, checkpoint, staged, rejected, runners,
                   runs, errors>>

\* ot-result: the first valid candidate is linked; an invalid one is kept aside.
AgentSubmits(r) ==
    /\ r.step \in {"agent", "correct"}
    /\ \/ staged = Unset /\ staged' \in Proposals /\ UNCHANGED rejected
       \/ rejected' = TRUE /\ UNCHANGED staged
    /\ SupervisorKept
    /\ UNCHANGED <<sealed, sessions, forensics, engine, checkpoint, runners, runs, errors>>

\* A clean exit: the engine's state is sealed when its session is known.
AgentCompletes(r) ==
    /\ r.step = "agent"
    /\ IF r.lease \in sessions
       THEN Goes(r, "tail", Unset) /\ engine' = TRUE /\ runs' = runs + 1
       ELSE Seals(r, "retry") /\ UNCHANGED <<engine, runs>>
    /\ SupervisorKept
    /\ UNCHANGED <<sealed, sessions, forensics, checkpoint, staged, rejected, errors>>

\* What the engine's exit and its output say of a failed launch.
LaunchFailures ==
    {"infrastructure", "environment", "rejected credential", "engine"}

\* agentLaunchRetryable: a rejected credential is worth one fresh sandbox.
LaunchRetryable(failure, ordinal) ==
    \/ failure = "infrastructure"
    \/ failure = "rejected credential" /\ ordinal = 0

AgentFails(r) ==
    /\ r.step = "agent"
    /\ \E failure \in LaunchFailures :
          Seals(r, IF LaunchRetryable(failure, retries) THEN "retry" ELSE "fail")
    /\ SupervisorKept
    /\ UNCHANGED <<sealed, sessions, forensics, engine, checkpoint, staged, rejected,
                   runs, errors>>

\* Context that cannot be materialised is for a human.
ContextFails(r) ==
    /\ r.step = "agent" /\ r.lease \notin sessions /\ staged = Unset /\ ~rejected
    /\ Seals(r, "human")
    /\ SupervisorKept
    /\ UNCHANGED <<sealed, sessions, forensics, engine, checkpoint, staged, rejected,
                   runs, errors>>

\* A command's exit code is its result; one that did not run is retried, and one
\* whose repository does not verify fails.
CommandEnds(r) ==
    /\ r.step = "command"
    /\ \E v \in {"exit", "retry", "fail"} : Seals(r, v)
    /\ SupervisorKept
    /\ UNCHANGED <<sealed, sessions, forensics, engine, checkpoint, staged, rejected,
                   runs, errors>>

\* What is staged when the engine's last word comes through the channel.
Kept(final) == IF final \in Proposals /\ staged = Unset THEN final ELSE staged
Offered(final) ==
    staged' = Kept(final) /\ rejected' = (rejected \/ final = "garbage")

\* Mutants of Submitted: the last word is taken for what was staged, or replaces
\* it.
LastWordCounts(r, final) ==
    /\ Offered(final)
    /\ Seals(r, IF final \in Proposals THEN final
                ELSE IF Kept(final) # Unset THEN Kept(final) ELSE "pending")
LastWord(r, final) ==
    LET kept == IF final \in Proposals THEN final ELSE staged
    IN /\ staged' = kept
       /\ rejected' = (rejected \/ final = "garbage")
       /\ Seals(r, IF kept # Unset THEN kept ELSE "pending")

\* submitProviderResultCandidate: what the engine said last, through the channel.
Submitted(r, final) ==
    /\ Offered(final)
    /\ LET agreed == final \in {"missing", "garbage", Kept(final)}
       IN Seals(r, IF Kept(final) # Unset /\ agreed THEN Kept(final) ELSE "pending")

Finals == Proposals \cup {"missing", "garbage", "several"}

\* A repository that does not verify, and whatever else throws before or after the
\* candidate was offered, ends the turn without a result.
GivesUp(r, v) ==
    /\ Seals(r, v)
    /\ \/ UNCHANGED <<staged, rejected>>
       \/ \E final \in Finals : Offered(final)

\* The candidate, then the checkpoint of the verified repository.
TailEnds(r) ==
    /\ r.step = "tail"
    /\ \/ (\E final \in Finals : Submitted(r, final)) /\ checkpoint' = TRUE
       \/ GivesUp(r, "fail") /\ checkpoint' \in {checkpoint, TRUE}
    /\ SupervisorKept
    /\ UNCHANGED <<sealed, sessions, forensics, engine, runs, errors>>

CorrectionEnds(r) ==
    /\ r.step = "correct"
    /\ \/ ~late /\ \E final \in Finals : Submitted(r, final)
       \/ GivesUp(r, "human")
    /\ SupervisorKept
    /\ UNCHANGED <<sealed, sessions, forensics, engine, checkpoint, runs, errors>>

\* writeImmutableJson creates the path before its bytes are complete.
OpenResult(r) ==
    /\ r.step = "open"
    /\ sealed' = [sealed EXCEPT ![r.lease] = "partial"]
    /\ Goes(r, "seal", r.verdict)
    /\ SupervisorKept
    /\ UNCHANGED <<sessions, forensics, engine, checkpoint, staged, rejected, runs, errors>>

SealResult(r) ==
    /\ r.step = "seal"
    /\ sealed' = [sealed EXCEPT ![r.lease] = r.verdict]
    /\ Goes(r, "exit", r.verdict)
    /\ SupervisorKept
    /\ UNCHANGED <<sessions, forensics, engine, checkpoint, staged, rejected, runs, errors>>

\* The trap of entrypoint.sh: nothing is staged beside a sealed result.
RunnerExits(r) ==
    /\ r.step = "exit"
    /\ runners' = runners \ {r}
    /\ SupervisorKept
    /\ UNCHANGED <<sealed, sessions, forensics, engine, checkpoint, staged, rejected,
                   runs, errors>>

\* A runner dies; its trap may still stage forensics for its lease.
RunnerDies(r) ==
    /\ Fails /\ r.step # "exit"
    /\ runners' = runners \ {r}
    /\ forensics' \in {forensics, forensics \cup {r.lease}}
    /\ SupervisorKept
    /\ UNCHANGED <<sealed, sessions, engine, checkpoint, staged, rejected, runs>>

-----------------------------------------------------------------------------
CallStep ==
    \/ Lease \/ RecoverLease \/ RefuseCorrection \/ StartLease
    \/ RefreshFence \/ FenceRefuses \/ Collect \/ PrepareInputs \/ Dispatch
    \/ CommandExits \/ Deadline \/ CloseSession \/ AskForCorrection

RunnerStep ==
    \E r \in runners :
        \/ RunnerStarts(r) \/ AgentCompletes(r) \/ AgentFails(r) \/ ContextFails(r)
        \/ CommandEnds(r) \/ TailEnds(r) \/ CorrectionEnds(r)
        \/ OpenResult(r) \/ SealResult(r) \/ RunnerExits(r)

ExecutionNext ==
    \/ CallStep \/ RunnerStep
    \/ BindSession \/ ExpireBeforeDispatch \/ CloseUnverified
    \/ SupervisorCrash \/ ProviderError \/ CorrectionExpires
    \/ \E r \in runners : AgentReports(r) \/ AgentSubmits(r) \/ RunnerDies(r)

ExecutionSpec == ExecutionInit /\ [][ExecutionNext]_executionVars

\* The worker's cycle drives the call, and a poll ends at the deadline at the
\* latest; nothing is owed by the sandbox.
ExecutionFairness == WF_executionVars(CallStep)
FairExecutionSpec == ExecutionSpec /\ ExecutionFairness

-----------------------------------------------------------------------------
\* At most one runner is alive in the sandbox, whatever generations, retries
\* and corrections launched.  (The dispatch lock, and leases that are retried
\* only when their session is gone.)
OneRunner == \A q, r \in runners : q = r

\* A lease is given up for another one, be it to retry the work or to correct its
\* result, only when no runner of it can still change anything: it has sealed its
\* result, or its session was verified to be gone.  A deadline that passes before
\* the dispatch is retried unverified, while the runner of an earlier generation
\* may be alive; that case is excepted here, and what it leaves behind is a runner
\* of another lease to all the later ones.
RetriedWhenQuiet ==
    [][lease # 0 /\ lease' = 0 /\ standing' \notin Ended /\ call # "prepared"
          => \A r \in runners' : r.lease = lease => r.step = "exit"]_executionVars

\* Work the agent completed is never done again, by any lease.
CompletedOnce == runs <= 1

\* What is recorded for an agent is the candidate the channel staged first;
\* neither a later word of the engine nor a correction replaces it.
RecordedIsStaged ==
    /\ recordedAs \in Proposals => staged = recordedAs
    /\ recordedAs # Unset /\ action = "agent" => bound /\ checkpoint

\* A candidate stands from the moment the engine completed.
StagedStands == [][engine /\ staged # Unset => staged' = staged]_executionVars

\* A sealed result is never overwritten, by a second launch of its lease or
\* by another lease.
SealedStands ==
    [][\A l \in Leases : Sealed(l) => sealed'[l] = sealed[l]]_executionVars

\* Complete work that no result was asked for before its call died: no lease is
\* minted or recovered for it.  MCExecutionKernel shows it of the kernel.
Stranded == standing = "work_complete" /\ call = "idle"

\* What every attempt comes to, though calls and runners die and nothing in the
\* sandbox ever answers: it is recorded, fails or is handed to a human, unless a
\* call died between its two transactions.
AttemptIsOver == standing \in Ended \/ Stranded

\* A current lease is not refused by its own attempt's fence.
FenceAdmitsLease == call = "entered" => fence <= generation

\* A result sealed for the lease settles the attempt: its lease is not
\* recovered until it is exhausted beside it.
SealedResultSettles == why = "exhausted" /\ minted > 0 => ~Sealed(minted)

\* A call that adopts a command waits for a runner of its own lease.
AdoptsOwnCommand == call = "adopted" => \A r \in runners : r.lease = lease

\* An attempt is executed once, whoever calls for it: one runner at a time, one
\* completion, a retry only when the sandbox is quiet; and what is staged, sealed
\* and recorded is one result.
AttemptSafe ==
    /\ [](OneRunner /\ CompletedOnce /\ RecordedIsStaged)
    /\ RetriedWhenQuiet
    /\ StagedStands /\ SealedStands
=============================================================================
