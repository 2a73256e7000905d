------------------------- MODULE IntegrationAbsence -------------------------
(***************************************************************************)
(* How a dispatch-fenced Daytona integration decides that its sandbox is   *)
(* lost for good: reconcileIntegration (providers/daytona/kernel-adapter)  *)
(* counts absences in a continuation that drainOne persists with each hold *)
(* and that expiry recovery retains.  This is the part of EffectDelivery's *)
(* TargetAppears(e), "rejected", that it leaves to the adapter, for one    *)
(* effect whose fence is durable.                                          *)
(***************************************************************************)
EXTENDS Naturals, Sequences

CONSTANTS
    Threshold,         \* DAYTONA_INTEGRATION_FATAL_ABSENCE_THRESHOLD
    LookupFaultLimit,  \* bound on crashes and on provider errors, together
    NoCount            \* an unknown_detail that carries no continuation

ASSUME ThresholdAssumption == Threshold \in Nat \ {0} /\ NoCount \notin Nat
ASSUME FaultsAssumption == LookupFaultLimit \in Nat

VARIABLES
    stage,             \* where the effect and its worker are
    storedCount,       \* the count in the row: unknown_detail, last_error while leased
    carried,           \* the count of the leased snapshot
    answer,            \* the count the coming hold persists
    launched,          \* the launch link exists
    sealed,            \* the runner wrote its result
    box,               \* "there" or "gone"
    looks,             \* history: the last Threshold sandbox lookups, latest last
    absences,          \* history: how many lookups found none, up to Threshold
    finding,           \* "none", "result" or "fatal"
    lookupFaults

absenceVars == <<stage, storedCount, carried, answer, launched, sealed, box,
                 looks, absences, finding, lookupFaults>>

Counts == 0..(Threshold - 1) \cup {NoCount}
HolderStages == {"held", "initial", "dispatch", "after", "hold", "settled"}

AbsenceTypeOK ==
    /\ stage \in HolderStages
    /\ storedCount \in Counts /\ carried \in Counts /\ answer \in Counts
    /\ launched \in BOOLEAN /\ sealed \in BOOLEAN
    /\ box \in {"there", "gone"}
    /\ looks \in [1..Threshold -> {"none", "there", "gone", "failed"}]
    /\ absences \in 0..Threshold
    /\ finding \in {"none", "result", "fatal"}
    /\ lookupFaults \in 0..LookupFaultLimit

\* The fence is durable and its first holder is no more.
AbsenceInit ==
    /\ stage = "held"
    /\ storedCount = NoCount /\ carried = NoCount /\ answer = NoCount
    /\ launched \in BOOLEAN /\ sealed = FALSE
    /\ box = "there"
    /\ looks = [i \in 1..Threshold |-> "none"]
    /\ absences = 0
    /\ finding = "none"
    /\ lookupFaults = 0

\* Mutants of AbsenceCount: a missing continuation counts as an absence, and
\* the continuation is not read.
AbsenceCountFromOne(count) == IF count = NoCount THEN 1 ELSE count
CountRestarts(count) == IF count = NoCount THEN 0 ELSE 0

\* integrationAbsenceCount
AbsenceCount(count) == IF count = NoCount THEN 0 ELSE count

Remember(look) ==
    /\ looks' = Append(Tail(looks), look)
    /\ absences' = IF look = "gone" /\ absences < Threshold
                   THEN absences + 1 ELSE absences

HoldWith(count) ==
    /\ stage' = "hold"
    /\ answer' = count

Fault ==
    /\ lookupFaults < LookupFaultLimit
    /\ lookupFaults' = lookupFaults + 1

-----------------------------------------------------------------------------

\* leaseNextEffect: last_error := unknown_detail
LeaseHeld ==
    /\ stage = "held"
    /\ stage' = "initial"
    /\ carried' = storedCount
    /\ UNCHANGED <<storedCount, answer, launched, sealed, box, looks, absences,
                   finding, lookupFaults>>

Reconciling == stage \in {"initial", "after"}

\* The lookup, or the start of a stopped sandbox, fails: "retry", count 0.
LookupFails ==
    /\ Reconciling
    /\ Fault
    /\ Remember("failed")
    /\ HoldWith(0)
    /\ UNCHANGED <<storedCount, carried, launched, sealed, box, finding>>

\* Mutant of LookupFindsNone: fatal one absence too late.
FindsNoneLate ==
    /\ Reconciling
    /\ box = "gone"
    /\ Remember("gone")
    /\ IF AbsenceCount(carried) < Threshold
       THEN HoldWith(AbsenceCount(carried) + 1) /\ UNCHANGED finding
       ELSE stage' = "settled" /\ finding' = "fatal" /\ UNCHANGED answer
    /\ UNCHANGED <<storedCount, carried, launched, sealed, box, lookupFaults>>

\* No sandbox: one absence more, fatal at the threshold.
LookupFindsNone ==
    /\ Reconciling
    /\ box = "gone"
    /\ Remember("gone")
    /\ IF AbsenceCount(carried) + 1 < Threshold
       THEN HoldWith(AbsenceCount(carried) + 1) /\ UNCHANGED finding
       ELSE stage' = "settled" /\ finding' = "fatal" /\ UNCHANGED answer
    /\ UNCHANGED <<storedCount, carried, launched, sealed, box, lookupFaults>>

\* A file of the sandbox cannot be read.  The error surfaces as "unknown",
\* with which the first hold keeps the continuation it was given; with
\* absences on record it is a "retry" that starts the count again.
ReadFails ==
    /\ Reconciling
    /\ box = "there"
    /\ Fault
    /\ Remember("there")
    /\ HoldWith(IF AbsenceCount(carried) > 0 THEN 0
                ELSE IF stage = "initial" THEN carried ELSE NoCount)
    /\ UNCHANGED <<storedCount, carried, launched, sealed, box, finding>>

\* The sandbox answers: a sealed result settles, a missing launch link lets the
\* first reconciliation resume the dispatch, anything else is held.
ReadFiles ==
    /\ Reconciling
    /\ box = "there"
    /\ Remember("there")
    /\ \/ /\ sealed
          /\ stage' = "settled" /\ finding' = "result"
          /\ UNCHANGED answer
       \/ /\ ~sealed /\ ~launched /\ stage = "initial"
          /\ stage' = "dispatch"
          /\ UNCHANGED <<answer, finding>>
       \/ /\ ~sealed /\ (launched \/ stage = "after")
          /\ HoldWith(NoCount)
          /\ UNCHANGED finding
    /\ UNCHANGED <<storedCount, carried, launched, sealed, box, lookupFaults>>

\* dispatchIntegration under the old fence; it fails if the sandbox is gone,
\* and may fail anyway.
DispatchLaunch ==
    /\ stage = "dispatch"
    /\ stage' = "after"
    /\ \/ box = "there" /\ launched' = TRUE /\ UNCHANGED lookupFaults
       \/ box = "gone" /\ UNCHANGED <<launched, lookupFaults>>
       \/ Fault /\ UNCHANGED launched
    /\ UNCHANGED <<storedCount, carried, answer, sealed, box, looks, absences,
                   finding>>

\* completeLeasedEffect with hold_unknown; the retry time passes.
HoldCount ==
    /\ stage = "hold"
    /\ stage' = "held"
    /\ storedCount' = answer
    /\ UNCHANGED <<carried, answer, launched, sealed, box, looks, absences,
                   finding, lookupFaults>>

\* The worker dies and its lease expires: recoverExpiredEffectLeases retains
\* the last_error of a fenced row.
ExpireHolder ==
    /\ stage \in {"initial", "dispatch", "after", "hold"}
    /\ Fault
    /\ stage' = "held"
    /\ UNCHANGED <<storedCount, carried, answer, launched, sealed, box, looks,
                   absences, finding>>

\* The provider's own moves.
Disappear ==
    /\ box = "there"
    /\ box' = "gone"
    /\ UNCHANGED <<stage, storedCount, carried, answer, launched, sealed, looks,
                   absences, finding, lookupFaults>>

Reappear ==
    /\ box = "gone"
    /\ Fault
    /\ box' = "there"
    /\ UNCHANGED <<stage, storedCount, carried, answer, launched, sealed, looks,
                   absences, finding>>

SealResult ==
    /\ launched /\ ~sealed /\ box = "there"
    /\ sealed' = TRUE
    /\ UNCHANGED <<stage, storedCount, carried, answer, launched, box, looks,
                   absences, finding, lookupFaults>>

AbsenceNext ==
    \/ LeaseHeld \/ LookupFails \/ LookupFindsNone \/ ReadFails \/ ReadFiles
    \/ DispatchLaunch \/ HoldCount \/ ExpireHolder \/ Disappear \/ Reappear
    \/ SealResult

AbsenceSpec == AbsenceInit /\ [][AbsenceNext]_absenceVars

\* The worker's cycle goes on, the faults being finitely many.
FairAbsenceSpec ==
    /\ AbsenceSpec
    /\ WF_absenceVars(\/ LeaseHeld \/ LookupFindsNone \/ ReadFiles
                      \/ DispatchLaunch \/ HoldCount)
    /\ WF_absenceVars(SealResult)

-----------------------------------------------------------------------------

\* An integration is never given up on fewer absences than the threshold:
\* restored counts, and the count drainOne hands to two reconciliations of one
\* lease, stand for absences that were seen.
FatalNeedsAbsences == finding = "fatal" => absences = Threshold

\* A sandbox that is gone for good settles the effect: no expiry, lookup error
\* or half-done dispatch makes the count start for ever anew.
LostSandboxSettles == <>[](box = "gone") => <>(stage = "settled")

\* "integration runtime sandbox was absent on 2 consecutive reconciliations"
\* (providers/daytona/kernel-adapter.ts:1615), the reason of the rejection.
FatalAbsencesAreConsecutive ==
    finding = "fatal" => \A i \in 1..Threshold : looks[i] = "gone"
=============================================================================
