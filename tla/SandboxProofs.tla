--------------------------- MODULE SandboxProofs ----------------------------
(***************************************************************************)
(* Proofs about what stands around a sandbox: the integrations that are    *)
(* reconciled, the effects an operator rejects, steering, the volume that  *)
(* blobs are kept on, the credentials of its agents, and the validation of *)
(* the pipelines.                                                          *)
(***************************************************************************)
EXTENDS MCSandbox, SequenceTheorems, TLAPS

(***************************************************************************)
(* For any threshold: an integration is given up after that many absences  *)
(* were seen.  Every count on the way, in the row, in the snapshot of a    *)
(* lease and in the hold that is written back, stands for absences seen    *)
(* before, although a snapshot serves two reconciliations and expiry       *)
(* recovery writes an old count back.                                      *)
(***************************************************************************)

\* The count stands for absences that were seen.
Seen(count) == AbsenceCount(count) <= absences

AbsenceIInv ==
    /\ AbsenceTypeOK
    /\ Seen(storedCount) /\ Seen(carried) /\ Seen(answer)
    /\ FatalNeedsAbsences

LEMMA Numbers ==
    ASSUME NEW count \in Counts
    PROVE  AbsenceCount(count) \in 0..(Threshold - 1)
BY ThresholdAssumption DEF Counts, AbsenceCount

LEMMA AbsenceInitially == AbsenceInit => AbsenceIInv
<1> SUFFICES ASSUME AbsenceInit PROVE AbsenceIInv
  OBVIOUS
<1>1. looks \in [1..Threshold -> {"none", "there", "gone", "failed"}]
  BY DEF AbsenceInit
<1>2. lookupFaults \in 0..LookupFaultLimit /\ absences \in 0..Threshold
  BY ThresholdAssumption, FaultsAssumption DEF AbsenceInit
<1>3. AbsenceTypeOK
  BY <1>1, <1>2 DEF AbsenceInit, AbsenceTypeOK, Counts, HolderStages
<1>4. \A count \in {storedCount, carried, answer} : Seen(count)
  BY DEF AbsenceInit, Seen, AbsenceCount
<1>5. FatalNeedsAbsences
  BY DEF AbsenceInit, FatalNeedsAbsences
<1> QED
  BY <1>3, <1>4, <1>5 DEF AbsenceIInv

\* One lookup more: the oldest is forgotten, and an absence is counted.
LEMMA RememberKeeps ==
    ASSUME AbsenceTypeOK, NEW look \in {"there", "gone", "failed"}, Remember(look)
    PROVE  /\ looks' \in [1..Threshold -> {"none", "there", "gone", "failed"}]
           /\ absences' \in 0..Threshold /\ absences <= absences'
           /\ look = "gone" /\ absences < Threshold => absences' = absences + 1
<1> DEFINE L == {"none", "there", "gone", "failed"}
<1>1. looks \in [1..Threshold -> L] /\ Threshold \in Nat /\ Threshold > 0
  BY ThresholdAssumption DEF AbsenceTypeOK
<1>2. looks \in Seq(L) /\ Len(looks) = Threshold
  BY <1>1
<1>3. Tail(looks) \in Seq(L) /\ Len(Tail(looks)) = Threshold - 1
  BY <1>1, <1>2
<1>4. Append(Tail(looks), look) \in Seq(L) /\ Len(Append(Tail(looks), look)) = Threshold
  BY <1>1, <1>3
<1>5. looks' \in [1..Threshold -> L]
  <2>1. \A q \in Seq(L) : q \in [1..Len(q) -> L]
    OBVIOUS
  <2>2. Append(Tail(looks), look) \in [1..Threshold -> L]
    BY <1>4, <2>1
  <2> QED
    BY <2>2 DEF Remember
<1> QED
  BY <1>1, <1>5 DEF Remember, AbsenceTypeOK

\* Absences are never forgotten, so what was seen stays seen.
LEMMA StaysSeen ==
    ASSUME AbsenceTypeOK, absences' \in 0..Threshold, absences <= absences',
           NEW count \in Counts, Seen(count)
    PROVE  AbsenceCount(count) <= absences'
BY Numbers, ThresholdAssumption DEF Seen, AbsenceTypeOK

\* After a lookup, the worker holds with a count that stands for absences seen
\* by now, or goes on.
LEMMA LookupKeeps ==
    ASSUME AbsenceIInv, NEW look \in {"there", "gone", "failed"}, Remember(look),
           NEW count \in Counts, AbsenceCount(count) <= absences',
           answer' = count, stage' \in HolderStages,
           finding' = finding \/ finding' = "result" \/ absences' = Threshold,
           finding' \in {"none", "result", "fatal"},
           UNCHANGED <<storedCount, carried, launched, sealed, box>>,
           lookupFaults' \in 0..LookupFaultLimit
    PROVE  AbsenceIInv'
<1>1. /\ looks' \in [1..Threshold -> {"none", "there", "gone", "failed"}]
      /\ absences' \in 0..Threshold /\ absences <= absences'
  BY RememberKeeps DEF AbsenceIInv
<1>2. AbsenceTypeOK'
  BY <1>1 DEF AbsenceIInv, AbsenceTypeOK
<1>3. AbsenceCount(storedCount) <= absences' /\ AbsenceCount(carried) <= absences'
  BY <1>1, StaysSeen DEF AbsenceIInv, AbsenceTypeOK
<1>4. Seen(storedCount)' /\ Seen(carried)' /\ Seen(answer)'
  BY <1>3 DEF Seen, AbsenceCount
<1>5. FatalNeedsAbsences'
  BY <1>1, ThresholdAssumption DEF AbsenceIInv, AbsenceTypeOK, FatalNeedsAbsences
<1> QED
  BY <1>2, <1>4, <1>5 DEF AbsenceIInv

LEMMA FaultBound ==
    ASSUME AbsenceTypeOK, Fault PROVE lookupFaults' \in 0..LookupFaultLimit
BY FaultsAssumption DEF AbsenceTypeOK, Fault

\* No sandbox: the count in the snapshot stands for absences seen before, and
\* there is one more.
LEMMA FindsNoneKeeps ==
    ASSUME AbsenceIInv, LookupFindsNone PROVE AbsenceIInv'
<1> DEFINE n == AbsenceCount(carried)
<1>1. n \in 0..(Threshold - 1) /\ n <= absences /\ absences \in 0..Threshold
  BY Numbers DEF AbsenceIInv, AbsenceTypeOK, Seen
<1>2. /\ absences' \in 0..Threshold /\ absences <= absences'
      /\ absences < Threshold => absences' = absences + 1
  BY RememberKeeps DEF AbsenceIInv, LookupFindsNone
<1>3. CASE n + 1 < Threshold
  <2>1. n + 1 \in Counts /\ AbsenceCount(n + 1) = n + 1
    BY <1>1, <1>3, ThresholdAssumption DEF Counts, AbsenceCount
  <2>2. n + 1 <= absences'
    BY <1>1, <1>2, <1>3, ThresholdAssumption
  <2>3. stage' = "hold" /\ answer' = n + 1 /\ finding' = finding
    BY <1>3 DEF LookupFindsNone, HoldWith
  <2> QED
    BY <2>1, <2>2, <2>3, LookupKeeps
    DEF LookupFindsNone, AbsenceIInv, AbsenceTypeOK, HolderStages
<1>4. CASE ~(n + 1 < Threshold)
  <2>1. absences' = Threshold
    BY <1>1, <1>2, <1>4, ThresholdAssumption
  <2>2. stage' = "settled" /\ answer' = answer /\ finding' = "fatal"
    BY <1>4 DEF LookupFindsNone
  <2>3. AbsenceCount(answer) <= absences'
    BY <1>2, StaysSeen DEF AbsenceIInv, AbsenceTypeOK
  <2> QED
    BY <2>1, <2>2, <2>3, LookupKeeps
    DEF LookupFindsNone, AbsenceIInv, AbsenceTypeOK, HolderStages
<1> QED
  BY <1>3, <1>4

LEMMA OtherLookupsKeep ==
    ASSUME AbsenceIInv, LookupFails \/ ReadFails \/ ReadFiles PROVE AbsenceIInv'
<1> USE DEF AbsenceIInv, AbsenceTypeOK, HolderStages
<1>1. 0 \in Counts /\ NoCount \in Counts /\ AbsenceCount(0) = 0 /\ AbsenceCount(NoCount) = 0
  BY ThresholdAssumption DEF Counts, AbsenceCount
<1>2. ASSUME NEW look \in {"there", "gone", "failed"}, Remember(look)
      PROVE  /\ 0 <= absences'
             /\ \A count \in {answer, carried} : AbsenceCount(count) <= absences'
  <2>1. absences' \in 0..Threshold /\ absences <= absences'
    BY <1>2, RememberKeeps
  <2> QED
    BY <2>1, StaysSeen, ThresholdAssumption
<1>3. CASE LookupFails
  BY <1>1, <1>2, <1>3, FaultBound, LookupKeeps DEF LookupFails, HoldWith
<1>4. CASE ReadFails
  <2>1. answer' \in {0, carried, NoCount} /\ stage' = "hold" /\ Remember("there")
    BY <1>4 DEF ReadFails, HoldWith
  <2>2. answer' \in Counts /\ AbsenceCount(answer') <= absences'
    BY <1>1, <1>2, <2>1
  <2> QED
    BY <1>4, <2>1, <2>2, FaultBound, LookupKeeps DEF ReadFails
<1>5. CASE ReadFiles
  <2>1. answer' \in {answer, NoCount} /\ Remember("there")
    BY <1>5 DEF ReadFiles, HoldWith
  <2>2. answer' \in Counts /\ AbsenceCount(answer') <= absences'
    BY <1>1, <1>2, <2>1
  <2>3. stage' \in HolderStages /\ (finding' = finding \/ finding' = "result")
    BY <1>5 DEF ReadFiles, HoldWith
  <2> QED
    BY <1>5, <2>1, <2>2, <2>3, LookupKeeps DEF ReadFiles
<1> QED
  BY <1>3, <1>4, <1>5

LEMMA AbsenceInductive == AbsenceIInv /\ [AbsenceNext]_absenceVars => AbsenceIInv'
<1> SUFFICES ASSUME AbsenceIInv, [AbsenceNext]_absenceVars PROVE AbsenceIInv'
  OBVIOUS
<1>1. CASE LookupFindsNone
  BY <1>1, FindsNoneKeeps
<1>2. CASE LookupFails \/ ReadFails \/ ReadFiles
  BY <1>2, OtherLookupsKeep
<1>3. CASE LeaseHeld \/ HoldCount
  BY <1>3
  DEF LeaseHeld, HoldCount, AbsenceIInv, AbsenceTypeOK, HolderStages, Seen, AbsenceCount,
      FatalNeedsAbsences
<1>4. CASE DispatchLaunch \/ ExpireHolder \/ Disappear \/ Reappear \/ SealResult
  <2>1. lookupFaults' \in 0..LookupFaultLimit
    BY <1>4, FaultBound
    DEF DispatchLaunch, ExpireHolder, Disappear, Reappear, SealResult, AbsenceIInv, AbsenceTypeOK
  <2>2. UNCHANGED <<storedCount, carried, answer, looks, absences, finding>>
    BY <1>4 DEF DispatchLaunch, ExpireHolder, Disappear, Reappear, SealResult
  <2>3. /\ stage' \in HolderStages /\ launched' \in BOOLEAN /\ sealed' \in BOOLEAN
        /\ box' \in {"there", "gone"}
    BY <1>4
    DEF DispatchLaunch, ExpireHolder, Disappear, Reappear, SealResult, AbsenceIInv, AbsenceTypeOK,
        HolderStages
  <2> QED
    BY <2>1, <2>2, <2>3 DEF AbsenceIInv, AbsenceTypeOK, Seen, AbsenceCount, FatalNeedsAbsences
<1>5. CASE UNCHANGED absenceVars
  BY <1>5
  DEF absenceVars, AbsenceIInv, AbsenceTypeOK, Seen, AbsenceCount, FatalNeedsAbsences
<1> QED
  BY <1>1, <1>2, <1>3, <1>4, <1>5 DEF AbsenceNext

LEMMA AbsenceInvariance == AbsenceSpec => []AbsenceIInv
BY AbsenceInitially, AbsenceInductive, PTL DEF AbsenceSpec

\* The row, the snapshot of the lease and the histories keep their types.
THEOREM AbsenceTypeCorrect == AbsenceSpec => []AbsenceTypeOK
<1>1. AbsenceIInv => AbsenceTypeOK
  BY DEF AbsenceIInv
<1> QED
  BY <1>1, AbsenceInvariance, PTL

\* reconcileIntegration gives an integration up after as many absences as the
\* threshold asks for, whatever is carried over leases, expiries and errors.
THEOREM FatalIsJustified == AbsenceSpec => []FatalNeedsAbsences
<1>1. AbsenceIInv => FatalNeedsAbsences
  BY DEF AbsenceIInv
<1> QED
  BY <1>1, AbsenceInvariance, PTL

-----------------------------------------------------------------------------
(***************************************************************************)
(* For any resolutions and bounds: the rejection of an operator is         *)
(* delivered once and told truly.  The inductive invariant is what the     *)
(* delivery record says of the row it settled: an open effect has none,    *)
(* and one that an operator made is of this very version of the effect and *)
(* older than the run, which is what a request that comes again checks.    *)
(***************************************************************************)

Open == {"unknown", "leased"}
Settled == {"acknowledged", "rejected"}

ByOperator ==
  /\ status = "rejected"
  /\ delivery.by = "operator"
  /\ delivery.request \in OperatorRequests
  /\ delivery.run \in Nat /\ delivery.run < moves
  /\ delivery.effect + 1 = version
  /\ delivery.lookups = lookups

DeliveryTells ==
  /\ status \in Open => delivery = NoDelivery /\ moves <= MaxMoves
  /\ status \in Settled => delivery = [by |-> "provider"] \/ ByOperator

RejectionIInv == RejectionTypeOK /\ DeliveryTells /\ ToldOfItsOwn

\* The kinds of a delivery are told apart by who made it.
LEMMA Kinds ==
  /\ NoDelivery.by = "none" /\ [by |-> "provider"].by = "provider"
  /\ \A r \in OperatorRequests : Evidence(r).by = "operator"
BY DEF NoDelivery, Evidence

LEMMA RejectionInitially == RejectionInit => RejectionIInv
<1> SUFFICES ASSUME RejectionInit PROVE RejectionIInv
  OBVIOUS
<1>1. reply.outcome = "conflict" /\ delivery.by = "none"
  BY Kinds DEF RejectionInit
<1>2. reply \in [request : OperatorRequests \cup {NoRequest}, outcome : Outcome]
  BY DEF RejectionInit, Outcome
<1>3. fence \in 0..MaxFence /\ lookups \in 1..MaxLookups /\ moves \in 0..MaxMoves + 1
  BY RejectionAssumption DEF RejectionInit
<1>4. closed \in BOOLEAN /\ ready \in BOOLEAN
  BY DEF RejectionInit
<1>5. RejectionTypeOK
  BY <1>1, <1>2, <1>3, <1>4 DEF RejectionInit, RejectionTypeOK
<1>6. DeliveryTells /\ ToldOfItsOwn
  BY <1>1, RejectionAssumption
  DEF RejectionInit, DeliveryTells, ToldOfItsOwn, Open, Settled
<1> QED
  BY <1>5, <1>6 DEF RejectionIInv

\* A request that finds the effect held settles it by its own resolution.
LEMMA RejectKeeps ==
  ASSUME RejectionIInv, NEW r \in OperatorRequests, Held, RejectForGood(r),
         UNCHANGED <<closed, fence, lookups, run, ready>>
  PROVE  RejectionIInv'
<1>1. /\ delivery'.by = "operator" /\ delivery'.request = r /\ delivery'.run = moves
      /\ delivery'.effect = version /\ delivery'.lookups = lookups
  BY DEF RejectForGood, Evidence
<1>2. moves \in Nat /\ version \in Nat /\ moves <= MaxMoves
  BY RejectionAssumption DEF RejectionIInv, RejectionTypeOK, DeliveryTells, Held, Open
<1>3. RejectionTypeOK'
  BY <1>1, <1>2, RejectionAssumption
  DEF RejectionIInv, RejectionTypeOK, RejectForGood, Answer, Outcome
<1>4. DeliveryTells'
  BY <1>1, <1>2 DEF DeliveryTells, ByOperator, RejectForGood, Open, Settled
<1>5. ToldOfItsOwn'
  BY <1>1 DEF ToldOfItsOwn, RejectForGood, Answer
<1> QED
  BY <1>3, <1>4, <1>5 DEF RejectionIInv

\* Whatever else it finds, it changes the answer alone, and an answer that is no
\* conflict tells what is recorded.
LEMMA AnswerKeeps ==
  ASSUME RejectionIInv, NEW r \in OperatorRequests, Replay(r) \/ Conflict(r), status = "rejected",
         UNCHANGED <<closed, fence, lookups, run, ready>>
  PROVE  RejectionIInv'
<1>1. UNCHANGED <<status, version, moves, delivery>>
  BY DEF Replay, Conflict
<1>2. \/ reply' = [request |-> r, outcome |-> "conflict"]
      \/ /\ reply' = [request |-> r, outcome |-> "unchanged"]
         /\ delivery.by = "operator" /\ delivery.request = r
  BY DEF Replay, Conflict, Answer, ExactReplay
<1>3. RejectionTypeOK'
  BY <1>1, <1>2 DEF RejectionIInv, RejectionTypeOK, Outcome
<1>4. DeliveryTells'
  BY <1>1 DEF RejectionIInv, DeliveryTells, ByOperator
<1>5. delivery.by = "operator" => status = "rejected"
  BY Kinds DEF RejectionIInv, RejectionTypeOK, DeliveryTells, ByOperator, Open, Settled
<1>6. ToldOfItsOwn'
  BY <1>1, <1>2, <1>5 DEF ToldOfItsOwn
<1> QED
  BY <1>3, <1>4, <1>6 DEF RejectionIInv

LEMMA RequestKeeps ==
  ASSUME RejectionIInv, NEW r \in OperatorRequests, Request(r) PROVE RejectionIInv'
<1>1. UNCHANGED <<closed, fence, lookups, run, ready>>
  BY DEF Request
<1>2. CASE Held /\ RejectForGood(r)
  BY <1>1, <1>2, RejectKeeps
<1>3. CASE Replay(r) /\ status = "rejected"
  BY <1>1, <1>3, AnswerKeeps
<1>4. CASE Conflict(r)
  <2>1. UNCHANGED <<status, version, moves, delivery>>
    BY <1>4 DEF Conflict
  <2>2. reply' = [request |-> r, outcome |-> "conflict"]
    BY <1>4 DEF Conflict, Answer
  <2>3. RejectionTypeOK'
    BY <1>1, <2>1, <2>2 DEF RejectionIInv, RejectionTypeOK, Outcome
  <2>4. DeliveryTells'
    BY <1>1, <2>1 DEF RejectionIInv, DeliveryTells, ByOperator
  <2>5. ToldOfItsOwn'
    BY <2>2 DEF ToldOfItsOwn
  <2> QED
    BY <2>3, <2>4, <2>5 DEF RejectionIInv
<1> QED
  BY <1>2, <1>3, <1>4 DEF Request

\* The worker settles the effect while it has it leased, and is told apart from
\* an operator in the delivery.
LEMMA SettleKeeps ==
  ASSUME RejectionIInv, NEW s \in Settled, SettleEffect(s) PROVE RejectionIInv'
<1>1. moves \in Nat /\ moves <= MaxMoves /\ delivery = NoDelivery
  BY RejectionAssumption DEF RejectionIInv, RejectionTypeOK, DeliveryTells, SettleEffect, Open
<1>2. RejectionTypeOK'
  BY <1>1, RejectionAssumption DEF RejectionIInv, RejectionTypeOK, SettleEffect, Settled
<1>3. DeliveryTells'
  BY DEF DeliveryTells, SettleEffect, Open, Settled
<1>4. ToldOfItsOwn'
  BY DEF RejectionIInv, ToldOfItsOwn, SettleEffect
<1> QED
  BY <1>2, <1>3, <1>4 DEF RejectionIInv

LEMMA RejectionInductive == RejectionIInv /\ [RejectionNext]_rejectionVars => RejectionIInv'
<1> SUFFICES ASSUME RejectionIInv, [RejectionNext]_rejectionVars PROVE RejectionIInv'
  OBVIOUS
<1> USE RejectionAssumption, Kinds
<1>1. CASE SetFence
  BY <1>1 DEF SetFence, RejectionIInv, RejectionTypeOK, DeliveryTells, ByOperator, ToldOfItsOwn
<1>2. CASE Lookup
  BY <1>2 DEF Lookup, RejectionIInv, RejectionTypeOK, DeliveryTells, ToldOfItsOwn, Open, Settled
<1>3. CASE HoldAgain
  BY <1>3 DEF HoldAgain, RejectionIInv, RejectionTypeOK, DeliveryTells, ToldOfItsOwn, Open, Settled
<1>4. ASSUME NEW s \in Settled, SettleEffect(s) PROVE RejectionIInv'
  BY <1>4, SettleKeeps
<1>5. ASSUME NEW r \in {"running", "completed", "cancelled"}, RunMoves(r) PROVE RejectionIInv'
  <2>1. RejectionTypeOK'
    BY <1>5 DEF RunMoves, RejectionIInv, RejectionTypeOK
  <2>2. DeliveryTells'
    <3>1. ByOperator => ByOperator'
      BY <1>5 DEF RunMoves, ByOperator, RejectionIInv, RejectionTypeOK
    <3> QED
      BY <1>5, <3>1 DEF RunMoves, RejectionIInv, RejectionTypeOK, DeliveryTells
  <2>3. ToldOfItsOwn'
    BY <1>5 DEF RunMoves, RejectionIInv, ToldOfItsOwn
  <2> QED
    BY <2>1, <2>2, <2>3 DEF RejectionIInv
<1>6. ASSUME NEW r \in OperatorRequests, Request(r) PROVE RejectionIInv'
  BY <1>6, RequestKeeps
<1>7. CASE UNCHANGED rejectionVars
  BY <1>7 DEF rejectionVars, RejectionIInv, RejectionTypeOK, DeliveryTells, ByOperator, ToldOfItsOwn
<1> QED
  BY <1>1, <1>2, <1>3, <1>4, <1>5, <1>6, <1>7 DEF RejectionNext, Settled

LEMMA RejectionInvariance == RejectionSpec => []RejectionIInv
BY RejectionInitially, RejectionInductive, PTL DEF RejectionSpec

-----------------------------------------------------------------------------
\* What a step may do to a delivery.

LEMMA FirstStands ==
  ASSUME RejectionIInv, RejectionIInv', [RejectionNext]_rejectionVars
  PROVE  /\ delivery # NoDelivery => UNCHANGED <<delivery, status, version, lookups>>
         /\ status' \in Settled => delivery' # NoDelivery
<1>1. status' \in Settled => delivery' # NoDelivery
  BY Kinds DEF RejectionIInv, DeliveryTells, ByOperator
<1>2. ASSUME delivery # NoDelivery
      PROVE  UNCHANGED <<delivery, status, version, lookups>>
  <2>1. status \in Settled
    BY <1>2 DEF RejectionIInv, DeliveryTells, RejectionTypeOK, Open, Settled
  <2>2. CASE \E r \in OperatorRequests : Request(r)
    BY <2>1, <2>2 DEF Request, Held, Settled, Conflict, Replay
  <2>3. CASE SetFence \/ (\E r \in {"running", "completed", "cancelled"} : RunMoves(r))
    BY <2>3 DEF SetFence, RunMoves
  <2>4. CASE Lookup \/ HoldAgain \/ (\E s \in {"acknowledged", "rejected"} : SettleEffect(s))
    BY <2>1, <2>4 DEF Lookup, HoldAgain, SettleEffect, Settled
  <2>5. CASE UNCHANGED rejectionVars
    BY <2>5 DEF rejectionVars
  <2> QED
    BY <2>2, <2>3, <2>4, <2>5 DEF RejectionNext
<1> QED
  BY <1>1, <1>2

LEMMA ReplayAnswers ==
  ASSUME RejectionIInv, NEW r \in OperatorRequests, Request(r), delivery.by = "operator",
         delivery.request = r, FenceHolds(r)
  PROVE  reply'.outcome = "unchanged"
<1>1. ByOperator
  BY Kinds DEF RejectionIInv, DeliveryTells, RejectionTypeOK, Open, Settled
<1>2. ExactReplay(r) /\ ~Held
  BY <1>1 DEF ByOperator, ExactReplay, Held
<1>3. Replay(r)
  BY <1>1, <1>2 DEF Request, ByOperator
<1> QED
  BY <1>2, <1>3 DEF Replay, Answer

LEMMA LeaseStands ==
  ASSUME RejectionIInv, [RejectionNext]_rejectionVars, status = "leased", delivery' # delivery
  PROVE  delivery'.by = "provider"
<1>1. CASE \E r \in OperatorRequests : Request(r)
  BY <1>1 DEF Request, Held, Conflict
<1>2. CASE \E s \in {"acknowledged", "rejected"} : SettleEffect(s)
  BY <1>2, Kinds DEF SettleEffect
<1>3. CASE SetFence \/ Lookup \/ HoldAgain
           \/ (\E r \in {"running", "completed", "cancelled"} : RunMoves(r))
  BY <1>3 DEF SetFence, Lookup, HoldAgain, RunMoves
<1>4. CASE UNCHANGED rejectionVars
  BY <1>4 DEF rejectionVars
<1> QED
  BY <1>1, <1>2, <1>3, <1>4 DEF RejectionNext

\* The effect, its run and the answers keep their types, with any bounds.
THEOREM RejectionTypeCorrect == RejectionSpec => []RejectionTypeOK
<1>1. RejectionIInv => RejectionTypeOK
  BY DEF RejectionIInv
<1> QED
  BY <1>1, RejectionInvariance, PTL

\* kernel-effect-rejection.ts and the worker beside it: the first delivery stands,
\* an operator is told of its own, the same request is answered again, and a lease
\* is respected.
THEOREM RejectionIsSafe == RejectionSpec => RejectionSafe
<1>1. RejectionIInv => ToldOfItsOwn
  BY DEF RejectionIInv
<1>2. RejectionIInv /\ RejectionIInv' /\ [RejectionNext]_rejectionVars =>
        [/\ delivery # NoDelivery => UNCHANGED <<delivery, status, version, lookups>>
         /\ status' \in {"acknowledged", "rejected"} => delivery' # NoDelivery]_rejectionVars
  BY FirstStands DEF Settled
<1>3. RejectionIInv /\ [RejectionNext]_rejectionVars =>
        [\A r \in OperatorRequests :
           Request(r) /\ delivery.by = "operator" /\ delivery.request = r /\ FenceHolds(r) =>
             reply'.outcome = "unchanged"]_rejectionVars
  BY ReplayAnswers
<1>4. RejectionIInv /\ [RejectionNext]_rejectionVars =>
        [status = "leased" /\ delivery' # delivery => delivery'.by = "provider"]_rejectionVars
  BY LeaseStands
<1> QED
  BY <1>1, <1>2, <1>3, <1>4, RejectionInvariance, PTL
  DEF RejectionSpec, RejectionSafe, FirstDeliveryStands, ReplayIsAnswered, LeaseIsRespected

-----------------------------------------------------------------------------
(***************************************************************************)
(* For any comments and bounds: a comment is heard in the turn it was      *)
(* sealed for, and an agent speaks in its own epoch.  An epoch moves only  *)
(* with a death (EpochsAreDeaths), so an agent that the sandbox took in    *)
(* has not been replaced yet.                                              *)
(***************************************************************************)

\* A comment that has got as far as the sandbox is sealed, and is never sealed
\* again.
InUse(m) ==
  \/ m \in file \/ heard[m] # {}
  \/ hand # NoWords /\ hand.todo \in {"deliver", "finish"} /\ hand.comment = m
SealedForGood == \A m \in Comments : InUse(m) => steer[m].status # "absent"

\* An agent runs in the turn that is claimed, with an epoch the sandbox took.
TurnHolds ==
  /\ phase = "execute" => claimed = "held"
  /\ agent = "on" => claimed # "none" /\ turn \in 1..MaxTurns /\ admits \in 0..epoch
  /\ turn = 0 => claimed = "none"
  /\ emitted # {} => agent = "on"

\* Every take-over of a lease had a death before it.
EpochsAreDeaths ==
  /\ epoch <= crashes
  /\ claimed = "expired" \/ (claimed = "held" /\ phase # "execute") => epoch < crashes

SteeringIInv ==
  /\ SteeringTypeOK /\ SealedForGood /\ TurnHolds /\ EpochsAreDeaths
  /\ HeardInItsTurn /\ EmittedInItsEpoch

LEMMA SteeringInitially == SteeringInit => SteeringIInv
<1> SUFFICES ASSUME SteeringInit PROVE SteeringIInv
  OBVIOUS
<1>1. SteeringTypeOK
  <2>1. Unsealed \in Binding /\ 0 \in 0..MaxTurns /\ 0 \in 0..MaxCrashes /\ 0 \in 0..MaxFlukes
    BY SteeringAssumption DEF Binding, Unsealed
  <2> QED
    BY <2>1 DEF SteeringInit, SteeringTypeOK
<1>2. TurnHolds /\ EpochsAreDeaths /\ EmittedInItsEpoch
  BY DEF SteeringInit, TurnHolds, EpochsAreDeaths, EmittedInItsEpoch
<1>3. SealedForGood /\ HeardInItsTurn
  BY DEF SteeringInit, SealedForGood, InUse, HeardInItsTurn
<1> QED
  BY <1>1, <1>2, <1>3 DEF SteeringIInv

LEMMA SteeringTypesKept == SteeringIInv /\ [SteeringNext]_steeringVars => SteeringTypeOK'
<1> SUFFICES ASSUME SteeringIInv, [SteeringNext]_steeringVars PROVE SteeringTypeOK'
  OBVIOUS
<1> USE SteeringAssumption
    DEF SteeringIInv, SteeringTypeOK, inbox, session, sandbox, worker
<1>1. ASSUME NEW m \in Comments, Arrive(m) PROVE SteeringTypeOK'
  BY <1>1 DEF Arrive
<1>2. ASSUME NEW m \in Comments, Enqueue(m) PROVE SteeringTypeOK'
  BY <1>2 DEF Enqueue, ThisTurn, Binding
<1>3. ASSUME NEW m \in Comments, TooLate(m) PROVE SteeringTypeOK'
  BY <1>3 DEF TooLate
<1>4. ASSUME NEW m \in Comments, Authorize(m) PROVE SteeringTypeOK'
  BY <1>4 DEF Authorize
<1>5. CASE CompletePrompt
  BY <1>5 DEF CompletePrompt
<1>6. CASE Deliver
  BY <1>6 DEF Deliver
<1>7. CASE FinishDelivery
  BY <1>7 DEF FinishDelivery
<1>8. CASE Boot
  BY <1>8 DEF Boot
<1>9. CASE Recover
  BY <1>9 DEF Recover, EpochsAreDeaths
<1>10. CASE LeaveInbox
  BY <1>10 DEF LeaveInbox
<1>11. CASE LeaseTurn
  <2>1. known' = FALSE \/ known' = known
    BY <1>11 DEF LeaseTurn
  <2>2. turn' \in 0..MaxTurns /\ epoch' \in 0..MaxCrashes
    BY <1>11 DEF LeaseTurn
  <2>3. claimed' \in {"none", "held"} \cup {claimed} /\ admits' \in {NoWords, admits}
    BY <1>11 DEF LeaseTurn
  <2> QED
    BY <1>11, <2>1, <2>2, <2>3 DEF LeaseTurn
<1>12. CASE FenceTurn
  BY <1>12 DEF FenceTurn
<1>13. CASE Launch
  BY <1>13 DEF Launch
<1>14. CASE BindTurn
  BY <1>14 DEF BindTurn
<1>15. CASE CollectTurn
  BY <1>15 DEF CollectTurn
<1>16. CASE Emit
  BY <1>16 DEF Emit, TurnHolds
<1>17. CASE Journal \/ JournalFails
  BY <1>17 DEF Journal, JournalFails
<1>18. CASE AgentEnds
  BY <1>18 DEF AgentEnds
<1>19. CASE Expire
  BY <1>19 DEF Expire
<1>20. CASE Crash
  BY <1>20 DEF Crash
<1>21. CASE UNCHANGED steeringVars
  BY <1>21 DEF steeringVars
<1> QED
  BY <1>1, <1>2, <1>3, <1>4, <1>5, <1>6, <1>7, <1>8, <1>9, <1>10, <1>11, <1>12, <1>13,
     <1>14, <1>15, <1>16, <1>17, <1>18, <1>19, <1>20, <1>21
  DEF SteeringNext, HandleInbox, Cycle

-----------------------------------------------------------------------------
LEMMA SealedKept == SteeringIInv /\ [SteeringNext]_steeringVars => SealedForGood'
<1> SUFFICES ASSUME SteeringIInv, [SteeringNext]_steeringVars PROVE SealedForGood'
  OBVIOUS
<1> USE SteeringAssumption
    DEF SteeringIInv, SteeringTypeOK, SealedForGood, InUse, MayEnqueue, inbox, session, sandbox, worker
<1>1. ASSUME NEW m \in Comments,
             Arrive(m) \/ Enqueue(m) \/ TooLate(m) \/ Authorize(m)
      PROVE  SealedForGood'
  BY <1>1 DEF Arrive, Enqueue, ThisTurn, TooLate, Authorize
<1>2. CASE CompletePrompt \/ Deliver \/ FinishDelivery
  BY <1>2 DEF CompletePrompt, Deliver, FinishDelivery
<1>3. CASE Boot \/ Recover \/ LeaveInbox
  BY <1>3 DEF Boot, Recover, LeaveInbox
<1>4. CASE LeaseTurn
  <2>1. \/ /\ claimed = "none" /\ turn < MaxTurns /\ turn' = turn + 1
           /\ claimed' = "held" /\ epoch' = 0 /\ agent' = "off" /\ admits' = NoWords
           /\ phase' = "execute"
        \/ UNCHANGED <<turn, claimed, epoch, agent, admits>> /\ phase = "lease" /\ phase' = "recover"
    BY <1>4 DEF LeaseTurn
  <2>2. UNCHANGED <<prompt, steer, hand, ended, file, emitted, heard, crashes, flukes>>
    BY <1>4 DEF LeaseTurn
  <2> QED
    BY <2>1, <2>2
<1>5. CASE FenceTurn \/ Launch
  BY <1>5 DEF FenceTurn, LockFree, Launch
<1>10. CASE BindTurn
  BY <1>10 DEF BindTurn
<1>11. CASE CollectTurn
  BY <1>11 DEF CollectTurn
<1>6. CASE Emit
  BY <1>6 DEF Emit, ForThisAgent
<1>7. CASE Journal \/ JournalFails \/ AgentEnds
  BY <1>7 DEF Journal, JournalFails, AgentEnds
<1>8. CASE Expire \/ Crash
  BY <1>8 DEF Expire, Crash
<1>9. CASE UNCHANGED steeringVars
  BY <1>9 DEF steeringVars
<1> QED
  BY <1>1, <1>2, <1>3, <1>4, <1>5, <1>6, <1>7, <1>8, <1>9, <1>10, <1>11
  DEF SteeringNext, HandleInbox, Cycle

-----------------------------------------------------------------------------
LEMMA TurnKept == SteeringIInv /\ [SteeringNext]_steeringVars => TurnHolds'
<1> SUFFICES ASSUME SteeringIInv, [SteeringNext]_steeringVars PROVE TurnHolds'
  OBVIOUS
<1> USE SteeringAssumption
    DEF SteeringIInv, SteeringTypeOK, TurnHolds, inbox, session, sandbox, worker
<1>1. ASSUME NEW m \in Comments,
             Arrive(m) \/ Enqueue(m) \/ TooLate(m) \/ Authorize(m)
      PROVE  TurnHolds'
  BY <1>1 DEF Arrive, Enqueue, ThisTurn, TooLate, Authorize
<1>2. CASE CompletePrompt \/ Deliver \/ FinishDelivery
  BY <1>2 DEF CompletePrompt, Deliver, FinishDelivery
<1>3. CASE Boot \/ Recover \/ LeaveInbox
  BY <1>3 DEF Boot, Recover, LeaveInbox
<1>4. CASE LeaseTurn
  <2>1. \/ /\ claimed = "none" /\ turn < MaxTurns /\ turn' = turn + 1
           /\ claimed' = "held" /\ epoch' = 0 /\ agent' = "off" /\ admits' = NoWords
           /\ phase' = "execute"
        \/ UNCHANGED <<turn, claimed, epoch, agent, admits>> /\ phase = "lease" /\ phase' = "recover"
    BY <1>4 DEF LeaseTurn
  <2>2. UNCHANGED <<prompt, steer, hand, ended, file, emitted, heard, crashes, flukes>>
    BY <1>4 DEF LeaseTurn
  <2> QED
    BY <2>1, <2>2
<1>5. CASE FenceTurn \/ Launch
  BY <1>5 DEF FenceTurn, LockFree, Launch
<1>10. CASE BindTurn
  BY <1>10 DEF BindTurn
<1>11. CASE CollectTurn
  BY <1>11 DEF CollectTurn
<1>6. CASE Emit
  BY <1>6 DEF Emit, ForThisAgent
<1>7. CASE Journal \/ JournalFails \/ AgentEnds
  BY <1>7 DEF Journal, JournalFails, AgentEnds
<1>8. CASE Expire \/ Crash
  BY <1>8 DEF Expire, Crash
<1>9. CASE UNCHANGED steeringVars
  BY <1>9 DEF steeringVars
<1> QED
  BY <1>1, <1>2, <1>3, <1>4, <1>5, <1>6, <1>7, <1>8, <1>9, <1>10, <1>11
  DEF SteeringNext, HandleInbox, Cycle

-----------------------------------------------------------------------------
LEMMA DeathsKept == SteeringIInv /\ [SteeringNext]_steeringVars => EpochsAreDeaths'
<1> SUFFICES ASSUME SteeringIInv, [SteeringNext]_steeringVars PROVE EpochsAreDeaths'
  OBVIOUS
<1> USE SteeringAssumption
    DEF SteeringIInv, SteeringTypeOK, EpochsAreDeaths, TurnHolds, inbox, session, sandbox, worker
<1>1. ASSUME NEW m \in Comments,
             Arrive(m) \/ Enqueue(m) \/ TooLate(m) \/ Authorize(m)
      PROVE  EpochsAreDeaths'
  BY <1>1 DEF Arrive, Enqueue, ThisTurn, TooLate, Authorize
<1>2. CASE CompletePrompt \/ Deliver \/ FinishDelivery
  BY <1>2 DEF CompletePrompt, Deliver, FinishDelivery
<1>3. CASE Boot \/ Recover \/ LeaveInbox
  BY <1>3 DEF Boot, Recover, LeaveInbox
<1>4. CASE LeaseTurn
  <2>1. \/ /\ claimed = "none" /\ turn < MaxTurns /\ turn' = turn + 1
           /\ claimed' = "held" /\ epoch' = 0 /\ agent' = "off" /\ admits' = NoWords
           /\ phase' = "execute"
        \/ UNCHANGED <<turn, claimed, epoch, agent, admits>> /\ phase = "lease" /\ phase' = "recover"
    BY <1>4 DEF LeaseTurn
  <2>2. UNCHANGED <<prompt, steer, hand, ended, file, emitted, heard, crashes, flukes>>
    BY <1>4 DEF LeaseTurn
  <2> QED
    BY <2>1, <2>2
<1>5. CASE FenceTurn \/ Launch
  BY <1>5 DEF FenceTurn, LockFree, Launch
<1>10. CASE BindTurn
  BY <1>10 DEF BindTurn
<1>11. CASE CollectTurn
  BY <1>11 DEF CollectTurn
<1>6. CASE Emit
  BY <1>6 DEF Emit, ForThisAgent
<1>7. CASE Journal \/ JournalFails \/ AgentEnds
  BY <1>7 DEF Journal, JournalFails, AgentEnds
<1>8. CASE Expire \/ Crash
  BY <1>8 DEF Expire, Crash
<1>9. CASE UNCHANGED steeringVars
  BY <1>9 DEF steeringVars
<1> QED
  BY <1>1, <1>2, <1>3, <1>4, <1>5, <1>6, <1>7, <1>8, <1>9, <1>10, <1>11
  DEF SteeringNext, HandleInbox, Cycle

-----------------------------------------------------------------------------
LEMMA HeardKept == SteeringIInv /\ [SteeringNext]_steeringVars => HeardInItsTurn'
<1> SUFFICES ASSUME SteeringIInv, [SteeringNext]_steeringVars PROVE HeardInItsTurn'
  OBVIOUS
<1> USE SteeringAssumption
    DEF SteeringIInv, SteeringTypeOK, HeardInItsTurn, SealedForGood, InUse, MayEnqueue, TurnHolds, inbox, session, sandbox, worker
<1>1. ASSUME NEW m \in Comments,
             Arrive(m) \/ Enqueue(m) \/ TooLate(m) \/ Authorize(m)
      PROVE  HeardInItsTurn'
  BY <1>1 DEF Arrive, Enqueue, ThisTurn, TooLate, Authorize
<1>2. CASE CompletePrompt \/ Deliver \/ FinishDelivery
  BY <1>2 DEF CompletePrompt, Deliver, FinishDelivery
<1>3. CASE Boot \/ Recover \/ LeaveInbox
  BY <1>3 DEF Boot, Recover, LeaveInbox
<1>4. CASE LeaseTurn
  <2>1. \/ /\ claimed = "none" /\ turn < MaxTurns /\ turn' = turn + 1
           /\ claimed' = "held" /\ epoch' = 0 /\ agent' = "off" /\ admits' = NoWords
           /\ phase' = "execute"
        \/ UNCHANGED <<turn, claimed, epoch, agent, admits>> /\ phase = "lease" /\ phase' = "recover"
    BY <1>4 DEF LeaseTurn
  <2>2. UNCHANGED <<prompt, steer, hand, ended, file, emitted, heard, crashes, flukes>>
    BY <1>4 DEF LeaseTurn
  <2> QED
    BY <2>1, <2>2
<1>5. CASE FenceTurn \/ Launch
  BY <1>5 DEF FenceTurn, LockFree, Launch
<1>10. CASE BindTurn
  BY <1>10 DEF BindTurn
<1>11. CASE CollectTurn
  BY <1>11 DEF CollectTurn
<1>6. CASE Emit
  BY <1>6 DEF Emit, ForThisAgent
<1>7. CASE Journal \/ JournalFails \/ AgentEnds
  BY <1>7 DEF Journal, JournalFails, AgentEnds
<1>8. CASE Expire \/ Crash
  BY <1>8 DEF Expire, Crash
<1>9. CASE UNCHANGED steeringVars
  BY <1>9 DEF steeringVars
<1> QED
  BY <1>1, <1>2, <1>3, <1>4, <1>5, <1>6, <1>7, <1>8, <1>9, <1>10, <1>11
  DEF SteeringNext, HandleInbox, Cycle

-----------------------------------------------------------------------------
LEMMA EmittedKept == SteeringIInv /\ [SteeringNext]_steeringVars => EmittedInItsEpoch'
<1> SUFFICES ASSUME SteeringIInv, [SteeringNext]_steeringVars PROVE EmittedInItsEpoch'
  OBVIOUS
<1> USE SteeringAssumption
    DEF SteeringIInv, SteeringTypeOK, EmittedInItsEpoch, SealedForGood, InUse, MayEnqueue, TurnHolds, inbox, session, sandbox, worker
<1>1. ASSUME NEW m \in Comments,
             Arrive(m) \/ Enqueue(m) \/ TooLate(m) \/ Authorize(m)
      PROVE  EmittedInItsEpoch'
  <2>1. UNCHANGED <<emitted, admits, epoch, agent>>
    BY <1>1 DEF Arrive, Enqueue, TooLate, Authorize
  <2>2. \A d \in Comments : steer[d].status # "absent" => steer'[d].binding = steer[d].binding
    <3>1. CASE Arrive(m) \/ TooLate(m)
      BY <3>1 DEF Arrive, TooLate
    <3>2. CASE Enqueue(m)
      BY <3>2 DEF Enqueue
    <3>3. CASE Authorize(m)
      BY <3>3 DEF Authorize
    <3> QED
      BY <1>1, <3>1, <3>2, <3>3
  <2>3. \A d \in emitted : steer[d].status # "absent" /\ d \in Comments
    OBVIOUS
  <2> QED
    BY <2>1, <2>2, <2>3
<1>2. CASE CompletePrompt \/ Deliver \/ FinishDelivery
  BY <1>2 DEF CompletePrompt, Deliver, FinishDelivery
<1>3. CASE Boot \/ Recover \/ LeaveInbox
  BY <1>3 DEF Boot, Recover, LeaveInbox
<1>4. CASE LeaseTurn
  <2>1. \/ /\ claimed = "none" /\ turn < MaxTurns /\ turn' = turn + 1
           /\ claimed' = "held" /\ epoch' = 0 /\ agent' = "off" /\ admits' = NoWords
           /\ phase' = "execute"
        \/ UNCHANGED <<turn, claimed, epoch, agent, admits>> /\ phase = "lease" /\ phase' = "recover"
    BY <1>4 DEF LeaseTurn
  <2>2. UNCHANGED <<prompt, steer, hand, ended, file, emitted, heard, crashes, flukes>>
    BY <1>4 DEF LeaseTurn
  <2> QED
    BY <2>1, <2>2
<1>5. CASE FenceTurn \/ Launch
  BY <1>5 DEF FenceTurn, LockFree, Launch
<1>10. CASE BindTurn
  BY <1>10 DEF BindTurn
<1>11. CASE CollectTurn
  BY <1>11 DEF CollectTurn
<1>6. CASE Emit
  BY <1>6 DEF Emit, ForThisAgent
<1>7. CASE Journal \/ JournalFails \/ AgentEnds
  BY <1>7 DEF Journal, JournalFails, AgentEnds
<1>8. CASE Expire \/ Crash
  BY <1>8 DEF Expire, Crash
<1>9. CASE UNCHANGED steeringVars
  BY <1>9 DEF steeringVars
<1> QED
  BY <1>1, <1>2, <1>3, <1>4, <1>5, <1>6, <1>7, <1>8, <1>9, <1>10, <1>11
  DEF SteeringNext, HandleInbox, Cycle

-----------------------------------------------------------------------------
LEMMA SteeringInvariance == SteeringSpec => []SteeringIInv
<1>1. SteeringIInv /\ [SteeringNext]_steeringVars => SteeringIInv'
  BY SteeringTypesKept, SealedKept, TurnKept, DeathsKept, HeardKept, EmittedKept
  DEF SteeringIInv
<1> QED
  BY <1>1, SteeringInitially, PTL DEF SteeringSpec

\* The rows of a comment, the files of the sandbox and the worker's cycle keep
\* their types; the epoch of a lease stays within the deaths of the supervisor.
THEOREM SteeringTypeCorrect == SteeringSpec => []SteeringTypeOK
<1>1. SteeringIInv => SteeringTypeOK
  BY DEF SteeringIInv
<1> QED
  BY <1>1, SteeringInvariance, PTL

\* For any comments, turns, deaths and journals that fail: what the hook emits was
\* sealed for the turn and the epoch it runs in, and no comment is heard in two.
THEOREM SteeringIsSafe == SteeringSpec => []SteeringSafe
<1>1. SteeringIInv => SteeringSafe
  BY DEF SteeringIInv, SteeringSafe
<1> QED
  BY <1>1, SteeringInvariance, PTL

-----------------------------------------------------------------------------
(***************************************************************************)
(* For any blobs and crashes: what is read was written whole.  A file has  *)
(* its name only after its bytes were flushed (FilesAreWhole), and each    *)
(* step of a put and of an initialization knows which steps came before    *)
(* it (JobHolds).                                                          *)
(***************************************************************************)

\* A file that is seen was written whole before it had its name.
FilesAreWhole ==
  /\ root # "torn" /\ (root # "absent" => "root" \in flushed)
  /\ database # "torn" /\ (database # "absent" => "database" \in flushed)
  /\ \A b \in Blobs : object[b] # "torn" /\ (object[b] # "absent" => b \in flushed)
  /\ database # "absent" => root # "absent"

WorkSteps == {"shard", "entry", "write", "flush", "link", "sync", "verify", "token"}

\* What the steps so far of a put, and of an initialization, have done.
JobHolds ==
  /\ At("root") => root = "absent"
  /\ At("opened") => database = "absent"
  /\ At("database") => database = "absent" /\ root # "absent"
  /\ At("ready") \/ job.at \in WorkSteps => root = "kept" /\ database = "kept"
  /\ job.at \in WorkSteps => job.blob \in Blobs
  /\ At("entry") => shard[ShardOf[job.blob]] # "absent"
  /\ At("link") => temp = "flushed"
  /\ job.at \in WorkSteps \ {"shard", "entry"} => shard[ShardOf[job.blob]] = "kept"
  /\ job.at \in {"verify", "token"} => object[job.blob] # "seen"
ShardsHold ==
  /\ \A s \in Shards : shard[s] # "torn"
  /\ \A s \in synced : shard[s] = "kept"

\* What a pointer leads to is on the disk: the object, its shard and the database.
PointersKept ==
  \A b \in committed :
    /\ object[b] = "kept" /\ shard[ShardOf[b]] = "kept"
    /\ root = "kept" /\ database = "kept"

StorageIInv ==
  StorageTypeOK /\ FilesAreWhole /\ JobHolds /\ ShardsHold /\ PointersKept

LEMMA StorageInitially == StorageInit => StorageIInv
<1> SUFFICES ASSUME StorageInit PROVE StorageIInv
  OBVIOUS
<1>1. StorageTypeOK
  <2>1. shard \in [Shards -> Entries] /\ object \in [Blobs -> Entries]
    BY DEF StorageInit, Entries
  <2>2. job \in [at : Steps, blob : Blobs \cup {NoBlob}]
    BY DEF StorageInit, Steps
  <2>3. kills \in 0..MaxKills /\ outages \in 0..MaxOutages
    BY StorageAssumption DEF StorageInit
  <2> QED
    BY <2>1, <2>2, <2>3 DEF StorageInit, StorageTypeOK, Entries, Temps
<1>2. FilesAreWhole /\ ShardsHold /\ PointersKept
  BY DEF StorageInit, FilesAreWhole, ShardsHold, PointersKept
<1>3. JobHolds
  BY DEF StorageInit, JobHolds, WorkSteps, At
<1> QED
  BY <1>1, <1>2, <1>3 DEF StorageIInv
LEMMA StorageTypesKept == StorageIInv /\ [StorageNext]_storageVars => StorageTypeOK'
<1> SUFFICES ASSUME StorageIInv, [StorageNext]_storageVars PROVE StorageTypeOK'
  OBVIOUS
<1> USE StorageAssumption DEF StorageIInv, StorageTypeOK, JobHolds, Entries, Temps, Steps, WorkSteps, At, GoTo, Fails
<1>1. CASE Initialize
  BY <1>1 DEF Initialize, StorageState
<1>2. CASE Stage
  BY <1>2 DEF Stage
<1>3. CASE FlushStage
  BY <1>3 DEF FlushStage
<1>4. CASE PublishRoot
  BY <1>4 DEF PublishRoot, Staged
<1>5. CASE PublishDatabase
  BY <1>5 DEF PublishDatabase, Staged
<1>6. CASE KeepParent
  BY <1>6 DEF KeepParent, Kept
<1>7. CASE OpenRoot
  BY <1>7 DEF OpenRoot, MarkerReadable, EmptyRoot, Visible
<1>8. CASE InspectVolume
  BY <1>8 DEF InspectVolume, MarkerReadable, EmptyRoot, Visible
<1>9. CASE BootVolume
  BY <1>9 DEF BootVolume, MarkerReadable, Visible, Kept
<1>10. CASE MakeShard
  BY <1>10 DEF MakeShard
<1>11. CASE SyncShardEntry
  BY <1>11 DEF SyncShardEntry, NewShard, Kept
<1>12. CASE WriteTemp
  BY <1>12 DEF WriteTemp
<1>13. CASE FlushTemp
  BY <1>13 DEF FlushTemp
<1>14. CASE Link
  BY <1>14 DEF Link, Visible, AfterExisting
<1>15. CASE SyncShard
  BY <1>15 DEF SyncShard, Kept
<1>16. CASE VerifyFinal
  BY <1>16 DEF VerifyFinal, Visible
<1>17. CASE CommitPointer
  BY <1>17 DEF CommitPointer, Visible
<1>18. CASE Kill
  BY <1>18 DEF Kill
<1>19. CASE Outage
  <2>1. root' \in Entries /\ database' \in Entries
    BY <1>19 DEF Outage, AfterOutage
  <2>2. shard' \in [Shards -> Entries] /\ object' \in [Blobs -> Entries]
    BY <1>19 DEF Outage
  <2>3. /\ flushed' \subseteq flushed /\ outages' \in 0..MaxOutages
        /\ receipt' \in BOOLEAN
    BY <1>19 DEF Outage
  <2> QED
    BY <1>19, <2>1, <2>2, <2>3 DEF Outage
<1>20. ASSUME NEW b \in Blobs, Put(b) PROVE StorageTypeOK'
  BY <1>20 DEF Put, Storable
<1>21. CASE UNCHANGED storageVars
  BY <1>21 DEF storageVars
<1> QED
  BY <1>1, <1>2, <1>3, <1>4, <1>5, <1>6, <1>7, <1>8, <1>9, <1>10, <1>11, <1>12, <1>13, <1>14, <1>15, <1>16, <1>17, <1>18, <1>19, <1>20, <1>21
  DEF StorageNext, StorageStep, Initializing, Writing

\* An object after an outage is gone, or it was there and is torn if it was or if it
\* was not whole.
LEMMA OutageOfAnObject ==
  ASSUME Outage, NEW b \in Blobs
  PROVE  \/ object'[b] = "absent"
         \/ object[b] # "absent" /\ object'[b] \in {"torn", "kept"}
            /\ (object'[b] = "torn" => object[b] = "torn" \/ b \notin flushed)
BY DEF Outage

LEMMA FilesKept == StorageIInv /\ [StorageNext]_storageVars => FilesAreWhole'
<1> SUFFICES ASSUME StorageIInv, [StorageNext]_storageVars PROVE FilesAreWhole'
  OBVIOUS
<1> USE StorageAssumption DEF StorageIInv, StorageTypeOK, Entries, FilesAreWhole, JobHolds, WorkSteps, At, GoTo, Fails
<1>1. CASE Initialize
  BY <1>1 DEF Initialize, StorageState
<1>2. CASE Stage
  BY <1>2 DEF Stage
<1>3. CASE FlushStage
  BY <1>3 DEF FlushStage
<1>4. CASE PublishRoot
  BY <1>4 DEF PublishRoot, Staged
<1>5. CASE PublishDatabase
  BY <1>5 DEF PublishDatabase, Staged
<1>6. CASE KeepParent
  BY <1>6 DEF KeepParent, Kept
<1>7. CASE OpenRoot
  BY <1>7 DEF OpenRoot, MarkerReadable, EmptyRoot, Visible
<1>8. CASE InspectVolume
  BY <1>8 DEF InspectVolume, MarkerReadable, EmptyRoot, Visible
<1>9. CASE BootVolume
  BY <1>9 DEF BootVolume, MarkerReadable, Visible, Kept
<1>10. CASE MakeShard
  BY <1>10 DEF MakeShard
<1>11. CASE SyncShardEntry
  BY <1>11 DEF SyncShardEntry, NewShard, Kept
<1>12. CASE WriteTemp
  BY <1>12 DEF WriteTemp
<1>13. CASE FlushTemp
  BY <1>13 DEF FlushTemp
<1>14. CASE Link
  BY <1>14 DEF Link, Visible, AfterExisting
<1>15. CASE SyncShard
  BY <1>15 DEF SyncShard, Kept
<1>16. CASE VerifyFinal
  BY <1>16 DEF VerifyFinal, Visible
<1>17. CASE CommitPointer
  BY <1>17 DEF CommitPointer, Visible
<1>18. CASE Kill
  BY <1>18 DEF Kill
<1>19. CASE Outage
  <2>1. /\ root' # "torn" /\ database' # "torn"
        /\ root' # "absent" => "root" \in flushed /\ root # "absent"
        /\ database' # "absent" =>
             "database" \in flushed /\ database # "absent" /\ root' # "absent"
    BY <1>19 DEF Outage, AfterOutage
  <2>2. ASSUME NEW b \in Blobs
        PROVE  object'[b] # "torn" /\ (object'[b] # "absent" => b \in flushed)
    <3>1. \/ object'[b] = "absent"
          \/ object[b] # "absent" /\ object'[b] \in {"torn", "kept"}
             /\ (object'[b] = "torn" => object[b] = "torn" \/ b \notin flushed)
      BY <1>19, OutageOfAnObject
    <3>2. object[b] # "torn" /\ (object[b] # "absent" => b \in flushed)
      OBVIOUS
    <3> QED
      BY <3>1, <3>2
  <2>3. /\ \A b \in Blobs : b \in flushed /\ object'[b] # "absent" => b \in flushed'
        /\ "root" \in flushed /\ root' # "absent" => "root" \in flushed'
        /\ "database" \in flushed /\ database' # "absent" => "database" \in flushed'
    <3>1. flushed' = flushed
                       \ ({b \in Blobs : object'[b] = "absent"}
                           \cup (IF root' = "absent" THEN {"root"} ELSE {})
                           \cup (IF database' = "absent" THEN {"database"} ELSE {}))
      BY <1>19 DEF Outage
    <3>2. "root" \notin Blobs /\ "database" \notin Blobs /\ "root" # "database"
      OBVIOUS
    <3> QED
      BY <3>1, <3>2
  <2> QED
    BY <2>1, <2>2, <2>3
<1>20. ASSUME NEW b \in Blobs, Put(b) PROVE FilesAreWhole'
  BY <1>20 DEF Put, Storable
<1>21. CASE UNCHANGED storageVars
  BY <1>21 DEF storageVars
<1> QED
  BY <1>1, <1>2, <1>3, <1>4, <1>5, <1>6, <1>7, <1>8, <1>9, <1>10, <1>11, <1>12, <1>13, <1>14, <1>15, <1>16, <1>17, <1>18, <1>19, <1>20, <1>21
  DEF StorageNext, StorageStep, Initializing, Writing

LEMMA JobKept == StorageIInv /\ [StorageNext]_storageVars => JobHolds'
<1> SUFFICES ASSUME StorageIInv, [StorageNext]_storageVars PROVE JobHolds'
  OBVIOUS
<1> USE StorageAssumption DEF StorageIInv, StorageTypeOK, FilesAreWhole, JobHolds, ShardsHold, WorkSteps, Entries, At, GoTo, Fails
<1>1. CASE Initialize
  BY <1>1 DEF Initialize, StorageState
<1>2. CASE Stage
  BY <1>2 DEF Stage
<1>3. CASE FlushStage
  BY <1>3 DEF FlushStage
<1>4. CASE PublishRoot
  BY <1>4 DEF PublishRoot, Staged
<1>5. CASE PublishDatabase
  BY <1>5 DEF PublishDatabase, Staged
<1>6. CASE KeepParent
  BY <1>6 DEF KeepParent, Kept
<1>7. CASE OpenRoot
  BY <1>7 DEF OpenRoot, MarkerReadable, EmptyRoot, Visible
<1>8. CASE InspectVolume
  BY <1>8 DEF InspectVolume, MarkerReadable, EmptyRoot, Visible
<1>9. CASE BootVolume
  BY <1>9 DEF BootVolume, MarkerReadable, Visible, Kept
<1>10. CASE MakeShard
  BY <1>10 DEF MakeShard
<1>11. CASE SyncShardEntry
  BY <1>11 DEF SyncShardEntry, NewShard, Kept
<1>12. CASE WriteTemp
  BY <1>12 DEF WriteTemp
<1>13. CASE FlushTemp
  BY <1>13 DEF FlushTemp
<1>14. CASE Link
  BY <1>14 DEF Link, Visible, AfterExisting
<1>15. CASE SyncShard
  BY <1>15 DEF SyncShard, Kept
<1>16. CASE VerifyFinal
  BY <1>16 DEF VerifyFinal, Visible
<1>17. CASE CommitPointer
  BY <1>17 DEF CommitPointer, Visible
<1>18. CASE Kill
  BY <1>18 DEF Kill
<1>19. CASE Outage
  BY <1>19 DEF Outage, AfterOutage
<1>20. ASSUME NEW b \in Blobs, Put(b) PROVE JobHolds'
  BY <1>20 DEF Put, Storable
<1>21. CASE UNCHANGED storageVars
  BY <1>21 DEF storageVars
<1> QED
  BY <1>1, <1>2, <1>3, <1>4, <1>5, <1>6, <1>7, <1>8, <1>9, <1>10, <1>11, <1>12, <1>13, <1>14, <1>15, <1>16, <1>17, <1>18, <1>19, <1>20, <1>21
  DEF StorageNext, StorageStep, Initializing, Writing

LEMMA ShardsKept == StorageIInv /\ [StorageNext]_storageVars => ShardsHold'
<1> SUFFICES ASSUME StorageIInv, [StorageNext]_storageVars PROVE ShardsHold'
  OBVIOUS
<1> USE StorageAssumption DEF StorageIInv, StorageTypeOK, JobHolds, ShardsHold, WorkSteps, Entries, At, GoTo, Fails
<1>1. CASE Initialize
  BY <1>1 DEF Initialize, StorageState
<1>2. CASE Stage
  BY <1>2 DEF Stage
<1>3. CASE FlushStage
  BY <1>3 DEF FlushStage
<1>4. CASE PublishRoot
  BY <1>4 DEF PublishRoot, Staged
<1>5. CASE PublishDatabase
  BY <1>5 DEF PublishDatabase, Staged
<1>6. CASE KeepParent
  BY <1>6 DEF KeepParent, Kept
<1>7. CASE OpenRoot
  BY <1>7 DEF OpenRoot, MarkerReadable, EmptyRoot, Visible
<1>8. CASE InspectVolume
  BY <1>8 DEF InspectVolume, MarkerReadable, EmptyRoot, Visible
<1>9. CASE BootVolume
  BY <1>9 DEF BootVolume, MarkerReadable, Visible, Kept
<1>10. CASE MakeShard
  BY <1>10 DEF MakeShard
<1>11. CASE SyncShardEntry
  BY <1>11 DEF SyncShardEntry, NewShard, Kept
<1>12. CASE WriteTemp
  BY <1>12 DEF WriteTemp
<1>13. CASE FlushTemp
  BY <1>13 DEF FlushTemp
<1>14. CASE Link
  BY <1>14 DEF Link, Visible, AfterExisting
<1>15. CASE SyncShard
  BY <1>15 DEF SyncShard, Kept
<1>16. CASE VerifyFinal
  BY <1>16 DEF VerifyFinal, Visible
<1>17. CASE CommitPointer
  BY <1>17 DEF CommitPointer, Visible
<1>18. CASE Kill
  BY <1>18 DEF Kill
<1>19. CASE Outage
  BY <1>19 DEF Outage, AfterOutage
<1>20. ASSUME NEW b \in Blobs, Put(b) PROVE ShardsHold'
  BY <1>20 DEF Put, Storable
<1>21. CASE UNCHANGED storageVars
  BY <1>21 DEF storageVars
<1> QED
  BY <1>1, <1>2, <1>3, <1>4, <1>5, <1>6, <1>7, <1>8, <1>9, <1>10, <1>11, <1>12, <1>13, <1>14, <1>15, <1>16, <1>17, <1>18, <1>19, <1>20, <1>21
  DEF StorageNext, StorageStep, Initializing, Writing

LEMMA PointersStay == StorageIInv /\ [StorageNext]_storageVars => PointersKept'
<1> SUFFICES ASSUME StorageIInv, [StorageNext]_storageVars PROVE PointersKept'
  OBVIOUS
<1> USE StorageAssumption DEF StorageIInv, StorageTypeOK, FilesAreWhole, JobHolds, ShardsHold, PointersKept, WorkSteps, Entries, At, GoTo, Fails
<1>1. CASE Initialize
  BY <1>1 DEF Initialize, StorageState
<1>2. CASE Stage
  BY <1>2 DEF Stage
<1>3. CASE FlushStage
  BY <1>3 DEF FlushStage
<1>4. CASE PublishRoot
  BY <1>4 DEF PublishRoot, Staged
<1>5. CASE PublishDatabase
  BY <1>5 DEF PublishDatabase, Staged
<1>6. CASE KeepParent
  BY <1>6 DEF KeepParent, Kept
<1>7. CASE OpenRoot
  BY <1>7 DEF OpenRoot, MarkerReadable, EmptyRoot, Visible
<1>8. CASE InspectVolume
  BY <1>8 DEF InspectVolume, MarkerReadable, EmptyRoot, Visible
<1>9. CASE BootVolume
  BY <1>9 DEF BootVolume, MarkerReadable, Visible, Kept
<1>10. CASE MakeShard
  BY <1>10 DEF MakeShard
<1>11. CASE SyncShardEntry
  BY <1>11 DEF SyncShardEntry, NewShard, Kept
<1>12. CASE WriteTemp
  BY <1>12 DEF WriteTemp
<1>13. CASE FlushTemp
  BY <1>13 DEF FlushTemp
<1>14. CASE Link
  BY <1>14 DEF Link, Visible, AfterExisting
<1>15. CASE SyncShard
  BY <1>15 DEF SyncShard, Kept
<1>16. CASE VerifyFinal
  BY <1>16 DEF VerifyFinal, Visible
<1>17. CASE CommitPointer
  BY <1>17 DEF CommitPointer, Visible
<1>18. CASE Kill
  BY <1>18 DEF Kill
<1>19. CASE Outage
  BY <1>19 DEF Outage, AfterOutage
<1>20. ASSUME NEW b \in Blobs, Put(b) PROVE PointersKept'
  BY <1>20 DEF Put, Storable
<1>21. CASE UNCHANGED storageVars
  BY <1>21 DEF storageVars
<1> QED
  BY <1>1, <1>2, <1>3, <1>4, <1>5, <1>6, <1>7, <1>8, <1>9, <1>10, <1>11, <1>12, <1>13, <1>14, <1>15, <1>16, <1>17, <1>18, <1>19, <1>20, <1>21
  DEF StorageNext, StorageStep, Initializing, Writing

-----------------------------------------------------------------------------
LEMMA StorageInvariance == StorageSpec => []StorageIInv
<1>1. StorageIInv /\ [StorageNext]_storageVars => StorageIInv'
  BY StorageTypesKept, FilesKept, JobKept, ShardsKept, PointersStay DEF StorageIInv
<1> QED
  BY <1>1, StorageInitially, PTL DEF StorageSpec

\* The entries of the volume, the job of the process and the pointers of the database
\* keep their types.
THEOREM StorageTypeCorrect == StorageSpec => []StorageTypeOK
<1>1. StorageIInv => StorageTypeOK
  BY DEF StorageIInv
<1> QED
  BY <1>1, StorageInvariance, PTL

\* For any blobs and shards, and any number of kills and losses of power: a pointer
\* that was committed can be read, and no file is seen in part.
THEOREM StorageIsSafe == StorageSpec => []StorageSafe
<1>1. StorageIInv => StorageSafe
  BY DEF StorageIInv, FilesAreWhole, PointersKept, StorageTypeOK, StorageSafe,
         CommittedIsReadable, NothingIsTorn, Visible
<1> QED
  BY <1>1, StorageInvariance, PTL

-----------------------------------------------------------------------------
(***************************************************************************)
(* For any accounts and bounds: a refresh token is spent once and its      *)
(* successor is not lost while it can be saved.  CodexIInv accounts for    *)
(* every token that was minted: good, spent and succeeded, on its way, or  *)
(* lost with a rotation.                                                   *)
(***************************************************************************)

LostTokens == {rotation.token : rotation \in lost}

\* The token whose rotation has been answered and is not settled yet.
Pending == IF flight # NoAccount /\ flight.state = "answered"
           THEN {flight.account.token} ELSE {}

\* The tokens that were rotated, and whose successor came to the settings.
Succeeded == spent \ (LostTokens \cup Pending)

\* Tokens are minted one after the other, and an answer brings one that is good.
Minted ==
  /\ spent \subseteq 1..tokens
  /\ env.token <= tokens /\ login.token <= tokens
  /\ stored # NoAccount => stored.token <= tokens
  /\ flight # NoAccount =>
       /\ flight.account.token <= tokens
       /\ flight.state = "answered" =>
            /\ flight.answer \in Account /\ flight.answer.since = flight.since
            /\ flight.answer.token <= tokens /\ flight.answer.token \notin spent

\* A refresh is later than what it started from and than the environment; a
\* login that is later still has a token of its own.
InOrder ==
  /\ env.since <= clock /\ login.since <= clock
  /\ stored # NoAccount => stored.since <= clock
  /\ flight # NoAccount =>
       /\ flight.since <= clock /\ env.since <= flight.since
       /\ stored # NoAccount /\ stored.since <= flight.since
       /\ \/ login.since <= flight.since
          \/ login.token \notin spent /\ login.token # flight.account.token

\* A token whose successor is known is nowhere a request would take it from.
SuccessorStands ==
  \A t \in Succeeded :
    /\ stored # NoAccount /\ stored.token # t
    /\ env.token = t => env.since <= stored.since
    /\ login.token = t => login.since <= stored.since
    /\ flight # NoAccount => flight.account.token # t

\* What is later than the loss of a token has another one.
LaterIsAnother ==
  \A rotation \in lost :
    /\ env.since > rotation.at => env.token # rotation.token
    /\ login.since > rotation.at => login.token # rotation.token
    /\ (stored # NoAccount /\ stored.since > rotation.at) => stored.token # rotation.token

CodexIInv ==
  /\ CredentialsTypeOK /\ Minted /\ InOrder /\ SuccessorStands /\ LaterIsAnother
  /\ SpentOnce /\ SeedOutlivesItsAction
LEMMA CodexInitially == CodexInit => CodexIInv
<1> SUFFICES ASSUME CodexInit PROVE CodexIInv
  OBVIOUS
<1> USE CredentialBoundsAssumption DEF CodexInit
<1>1. env \in Account /\ login \in Account
  BY DEF Account
<1>2. CredentialsTypeOK
  BY <1>1 DEF CredentialsTypeOK
<1>3. Minted /\ InOrder /\ SuccessorStands /\ LaterIsAnother
  BY DEF Minted, InOrder, SuccessorStands, Succeeded, LaterIsAnother
<1>4. SpentOnce /\ SeedOutlivesItsAction
  BY DEF SpentOnce, SeedOutlivesItsAction
<1> QED
  BY <1>2, <1>3, <1>4 DEF CodexIInv

-----------------------------------------------------------------------------
LEMMA NoAccountIsNone == NoAccount \notin Account /\ NoAccount \notin Flight
BY CredentialBoundsAssumption DEF Account, Flight

\* What is handed out after a wait covers what it was asked for.
LEMMA GrantedCovers ==
  ASSUME CredentialsTypeOK, NEW account \in Account
  PROVE  LET copies == Granted(account, {asked[r] : r \in Waiting})
         IN  /\ copies \subseteq [need : Minimums, left : 0..(MaxClock + Lifetime)]
             /\ \A copy \in copies : copy.left >= copy.need
<1> DEFINE needs == {asked[r] : r \in Waiting}
<1>1. needs \subseteq Minimums
  BY DEF Waiting, CredentialsTypeOK
<1>2. \A need \in Minimums : need \in Nat
  BY CredentialBoundsAssumption
<1>3. clock \in Nat /\ account.expires \in 0..(MaxClock + Lifetime)
  BY CredentialBoundsAssumption DEF CredentialsTypeOK, Account
<1>4. ASSUME NEW copy \in Granted(account, needs)
      PROVE  /\ copy \in [need : Minimums, left : 0..(MaxClock + Lifetime)]
             /\ copy.left >= copy.need
  <2>1. PICK need \in needs : Covers(account, need, clock) /\ copy = Copy(account, need)
    BY DEF Granted
  <2>2. account.expires >= clock + need /\ need \in Nat /\ need \in Minimums
    BY <1>1, <1>2, <2>1 DEF Covers
  <2>3. copy = [need |-> need, left |-> account.expires - clock]
    BY <1>3, <2>1, <2>2 DEF Copy
  <2> QED
    BY <1>3, <2>2, <2>3, CredentialBoundsAssumption
<1> QED
  BY <1>4

\* The endpoint: a refusal, a rotation, or a new access token alone.
LEMMA ExchangeDoes ==
  ASSUME CodexIInv, Exchange
  PROVE  /\ flight # NoAccount /\ flight.state = "sent"
         /\ flight' # NoAccount /\ flight' \in Flight
         /\ flight'.account = flight.account /\ flight'.since = flight.since
         /\ \/ /\ flight'.state = "refused" /\ UNCHANGED <<tokens, spent>>
               /\ reused' = reused \/ ( /\ flight.account.token \in spent
                                       /\ reused' = reused \cup {flight.account.token} )
            \/ /\ flight'.state = "answered" /\ flight.account.token \notin spent
               /\ flight'.answer \in Account /\ flight'.answer.since = flight.since
               /\ reused' = reused
               /\ \/ /\ tokens' = tokens + 1 /\ tokens < MaxTokens
                     /\ spent' = spent \cup {flight.account.token}
                     /\ flight'.answer.token = tokens + 1
                  \/ /\ UNCHANGED <<tokens, spent>>
                     /\ flight'.answer.token = flight.account.token
         /\ handed' = {}
         /\ UNCHANGED <<clock, stored, env, login, asked, lost, deaths, faults>>
<1> DEFINE t == flight.account.token
<1>1. flight \in Flight /\ clock \in 0..MaxClock /\ tokens \in 0..MaxTokens
  BY DEF CodexIInv, CredentialsTypeOK, Exchange
<1>2. /\ flight # NoAccount /\ flight.state = "sent" /\ handed' = {}
      /\ UNCHANGED <<clock, stored, env, login, asked, lost, deaths, faults>>
  BY DEF Exchange
<1>3. \A e \in {0, clock + Lifetime} : e \in 0..(MaxClock + Lifetime)
  BY <1>1, CredentialBoundsAssumption
<1>4. ASSUME flight' = [flight EXCEPT !.state = "refused"]
      PROVE  /\ flight' \in Flight /\ flight'.account = flight.account
             /\ flight'.since = flight.since /\ flight'.state = "refused"
  BY <1>1, <1>4 DEF Flight
<1>5. ASSUME NEW token \in 1..MaxTokens, NEW e \in {0, clock + Lifetime},
             flight' = [flight EXCEPT !.state = "answered", !.answer =
                          [token |-> token, expires |-> e, since |-> flight.since]]
      PROVE  /\ flight' \in Flight /\ flight'.account = flight.account
             /\ flight'.since = flight.since /\ flight'.state = "answered"
             /\ flight'.answer \in Account /\ flight'.answer.since = flight.since
             /\ flight'.answer.token = token
  <2>1. [token |-> token, expires |-> e, since |-> flight.since] \in Account
    BY <1>1, <1>3 DEF Flight, Account
  <2> QED
    BY <1>1, <1>5, <2>1 DEF Flight
<1>6. CASE t \in spent /\ flight' = [flight EXCEPT !.state = "refused"]
           /\ reused' = reused \cup {t} /\ UNCHANGED provider
  BY <1>2, <1>4, <1>6, NoAccountIsNone DEF provider
<1>7. CASE t \notin spent /\ tokens < MaxTokens /\ tokens' = tokens + 1
           /\ spent' = spent \cup {t} /\ UNCHANGED reused
           /\ flight' = [flight EXCEPT !.state = "answered", !.answer =
                [token |-> tokens + 1, expires |-> clock + Lifetime, since |-> flight.since]]
  <2>1. tokens + 1 \in 1..MaxTokens
    BY <1>1, <1>7, CredentialBoundsAssumption
  <2> QED
    BY <1>2, <1>5, <1>7, <2>1, NoAccountIsNone
<1>8. CASE /\ t \notin spent /\ UNCHANGED <<provider, reused>>
           /\ \E e \in {0, clock + Lifetime} :
                flight' = [flight EXCEPT !.state = "answered", !.answer =
                             [token |-> t, expires |-> e, since |-> flight.since]]
  <2>1. t \in 1..MaxTokens
    BY <1>1 DEF Flight, Account
  <2> QED
    BY <1>2, <1>5, <1>8, <2>1, NoAccountIsNone DEF provider
<1>9. CASE t \notin spent /\ flight' = [flight EXCEPT !.state = "refused"]
           /\ UNCHANGED <<provider, reused>>
  BY <1>2, <1>4, <1>9, NoAccountIsNone DEF provider
<1> QED
  BY <1>6, <1>7, <1>8, <1>9 DEF Exchange

LEMMA ExchangeMints ==
  ASSUME CodexIInv, Exchange
  PROVE  spent' \subseteq 1..tokens' /\ tokens <= tokens'
<1>1. \/ UNCHANGED <<tokens, spent>>
      \/ tokens' = tokens + 1 /\ spent' = spent \cup {flight.account.token}
  BY ExchangeDoes
<1>2. spent \subseteq 1..tokens /\ flight.account.token \in 1..tokens /\ tokens \in Nat
  BY ExchangeDoes, CredentialBoundsAssumption
  DEF CodexIInv, Minted, CredentialsTypeOK, Flight, Account
<1>3. ASSUME NEW t \in spent \cup {flight.account.token} PROVE t \in 1..(tokens + 1)
  <2>1. t \in 1..tokens
    BY <1>2
  <2> QED
    BY <1>2, <2>1
<1>4. CASE UNCHANGED <<tokens, spent>>
  BY <1>2, <1>4
<1>5. CASE tokens' = tokens + 1 /\ spent' = spent \cup {flight.account.token}
  <2>1. tokens <= tokens'
    BY <1>2, <1>5
  <2>2. ASSUME NEW t \in spent' PROVE t \in 1..tokens'
    BY <1>3, <1>5
  <2> QED
    BY <2>1, <2>2
<1> QED
  BY <1>1, <1>4, <1>5

\* A flight that ends without its answer: a rotation of it is noted as lost.
LEMMA RotationIsNoted ==
  ASSUME CodexIInv, flight # NoAccount, lost' = lost \cup Dropped, spent' = spent
  PROVE  /\ Dropped \subseteq [token : spent, at : {clock}]
         /\ spent \cap Pending \subseteq LostTokens'
         /\ LostTokens \subseteq LostTokens'
         /\ spent' \ LostTokens' \subseteq Succeeded
<1>1. Dropped \subseteq [token : spent, at : {clock}]
  BY DEF Dropped
<1>2. LostTokens' = LostTokens \cup {rotation.token : rotation \in Dropped}
  BY DEF LostTokens
<1>3. spent \cap Pending \subseteq {rotation.token : rotation \in Dropped}
  BY DEF Pending, Dropped
<1> QED
  BY <1>1, <1>2, <1>3 DEF Succeeded

LEMMA FallBackDoes ==
  ASSUME CodexIInv, Refused \/ TimedOut \/ SettingsFail
  PROVE  /\ flight # NoAccount /\ flight' = NoAccount
         /\ lost' = lost \cup Dropped
         /\ handed' = Granted(flight.account, {asked[r] : r \in Waiting})
         /\ asked' = [r \in Requests |-> NoAccount]
         /\ UNCHANGED <<clock, stored, env, login, tokens, spent, reused, deaths>>
         /\ faults' \in 0..MaxFaults
<1>1. faults' \in 0..MaxFaults
  BY CredentialBoundsAssumption
  DEF CodexIInv, CredentialsTypeOK, Refused, TimedOut, SettingsFail
<1> QED
  BY <1>1 DEF Refused, TimedOut, SettingsFail, FallBack, Settle, provider

-----------------------------------------------------------------------------
\* The conjuncts, one by one.

LEMMA CredentialTypesKept == CodexIInv /\ [CodexNext]_codexVars => CredentialsTypeOK'
<1> SUFFICES ASSUME CodexIInv, [CodexNext]_codexVars PROVE CredentialsTypeOK'
  OBVIOUS
<1> USE CredentialBoundsAssumption DEF CodexIInv, CredentialsTypeOK, Account, Flight, provider, Minted
<1>1. ASSUME NEW r \in Requests, NEW need \in Minimums, Ask(r, need) PROVE CredentialsTypeOK'
  BY <1>1 DEF Ask, Resolved, Refreshing, Copy, Covers
<1>2. CASE Exchange
  <2>1. flight.account.token \in 1..MaxTokens /\ tokens' \in 0..MaxTokens
    BY <1>2, ExchangeDoes
  <2>2. spent \subseteq spent' /\ spent' \subseteq 1..MaxTokens /\ reused' \subseteq spent'
    BY <1>2, <2>1, ExchangeDoes
  <2>3. lost' \subseteq [token : spent', at : 0..MaxClock]
    BY <1>2, <2>2, ExchangeDoes
  <2> QED
    BY <1>2, <2>1, <2>2, <2>3, ExchangeDoes
<1>3. CASE Answered
  BY <1>3 DEF Answered, Settle, Granted, Copy, Covers, Waiting
<1>4. CASE Refused \/ TimedOut \/ SettingsFail
  <2>1. lost' \subseteq [token : spent', at : 0..MaxClock]
    BY <1>4, FallBackDoes, RotationIsNoted
  <2>2. flight.account \in Account
    BY <1>4, FallBackDoes
  <2>3. handed' \subseteq [need : Minimums, left : 0..(MaxClock + Lifetime)]
    BY <1>4, <2>2, FallBackDoes, GrantedCovers
  <2> QED
    BY <1>4, <2>1, <2>3, FallBackDoes
<1>5. CASE Pass
  BY <1>5 DEF Pass
<1>6. CASE LogIn
  BY <1>6 DEF LogIn
<1>7. CASE Restart
  BY <1>7 DEF Restart, Dropped
<1>8. CASE UNCHANGED codexVars
  BY <1>8 DEF codexVars
<1> QED
  BY <1>1, <1>2, <1>3, <1>4, <1>5, <1>6, <1>7, <1>8 DEF CodexNext

LEMMA MintedKept == CodexIInv /\ [CodexNext]_codexVars => Minted'
<1> SUFFICES ASSUME CodexIInv, [CodexNext]_codexVars PROVE Minted'
  OBVIOUS
<1> USE CredentialBoundsAssumption DEF CodexIInv, CredentialsTypeOK, Account, Flight, provider, Minted
<1>1. ASSUME NEW r \in Requests, NEW need \in Minimums, Ask(r, need) PROVE Minted'
  BY <1>1 DEF Ask, Resolved, Refreshing
<1>2. CASE Exchange
  <2>1. /\ flight.account.token \in 1..MaxTokens /\ flight.account.token <= tokens
        /\ tokens \in 0..MaxTokens
    BY <1>2, ExchangeDoes
  <2>2. spent' \subseteq 1..tokens' /\ tokens <= tokens'
    BY <1>2, ExchangeMints
  <2>3. /\ env.token <= tokens' /\ login.token <= tokens'
        /\ stored # NoAccount => stored.token <= tokens'
    BY <2>1, <2>2, ExchangeDoes, <1>2
  <2>4. flight'.state = "answered" =>
          /\ flight'.answer \in Account /\ flight'.answer.since = flight.since
          /\ flight'.answer.token <= tokens' /\ flight'.answer.token \notin spent'
    BY <1>2, <2>1, ExchangeDoes
  <2> QED
    BY <1>2, <2>1, <2>2, <2>3, <2>4, ExchangeDoes
<1>3. CASE Answered
  BY <1>3 DEF Answered, Settle
<1>4. CASE Refused \/ TimedOut \/ SettingsFail
  BY <1>4 DEF Refused, TimedOut, SettingsFail, FallBack, Settle, Dropped
<1>5. CASE Pass
  BY <1>5 DEF Pass
<1>6. CASE LogIn
  BY <1>6 DEF LogIn
<1>7. CASE Restart
  BY <1>7 DEF Restart, Dropped
<1>8. CASE UNCHANGED codexVars
  BY <1>8 DEF codexVars
<1> QED
  BY <1>1, <1>2, <1>3, <1>4, <1>5, <1>6, <1>7, <1>8 DEF CodexNext

LEMMA InOrderKept == CodexIInv /\ [CodexNext]_codexVars => InOrder'
<1> SUFFICES ASSUME CodexIInv, [CodexNext]_codexVars PROVE InOrder'
  OBVIOUS
<1> USE CredentialBoundsAssumption DEF CodexIInv, CredentialsTypeOK, Account, Flight, provider, Minted, InOrder
<1>1. ASSUME NEW r \in Requests, NEW need \in Minimums, Ask(r, need) PROVE InOrder'
  BY <1>1 DEF Ask, Resolved, Refreshing
<1>2. CASE Exchange
  BY <1>2, ExchangeDoes
<1>3. CASE Answered
  BY <1>3 DEF Answered, Settle
<1>4. CASE Refused \/ TimedOut \/ SettingsFail
  BY <1>4 DEF Refused, TimedOut, SettingsFail, FallBack, Settle, Dropped
<1>5. CASE Pass
  BY <1>5 DEF Pass
<1>6. CASE LogIn
  BY <1>6 DEF LogIn
<1>7. CASE Restart
  BY <1>7 DEF Restart, Dropped
<1>8. CASE UNCHANGED codexVars
  BY <1>8 DEF codexVars
<1> QED
  BY <1>1, <1>2, <1>3, <1>4, <1>5, <1>6, <1>7, <1>8 DEF CodexNext

LEMMA SuccessorKept == CodexIInv /\ [CodexNext]_codexVars => SuccessorStands'
<1> SUFFICES ASSUME CodexIInv, [CodexNext]_codexVars PROVE SuccessorStands'
  OBVIOUS
<1> USE CredentialBoundsAssumption DEF CodexIInv, CredentialsTypeOK, Account, Flight, provider, Minted, InOrder, SuccessorStands, Succeeded, Pending, LostTokens
<1>1. ASSUME NEW r \in Requests, NEW need \in Minimums, Ask(r, need) PROVE SuccessorStands'
  BY <1>1 DEF Ask, Resolved, Refreshing
<1>2. CASE Exchange
  BY <1>2, ExchangeDoes
<1>3. CASE Answered
  BY <1>3 DEF Answered, Settle
<1>4. CASE Refused \/ TimedOut \/ SettingsFail
  <2>1. Succeeded' \subseteq Succeeded
    BY <1>4, FallBackDoes, RotationIsNoted
  <2> QED
    BY <1>4, <2>1, FallBackDoes
<1>5. CASE Pass
  BY <1>5 DEF Pass
<1>6. CASE LogIn
  BY <1>6 DEF LogIn
<1>7. CASE Restart
  <2>1. Succeeded' \subseteq Succeeded
    <3>1. CASE flight = NoAccount
      BY <1>7, <3>1 DEF Restart
    <3>2. CASE flight # NoAccount
      BY <1>7, <3>2, RotationIsNoted DEF Restart
    <3> QED
      BY <3>1, <3>2
  <2> QED
    BY <1>7, <2>1 DEF Restart
<1>8. CASE UNCHANGED codexVars
  BY <1>8 DEF codexVars
<1> QED
  BY <1>1, <1>2, <1>3, <1>4, <1>5, <1>6, <1>7, <1>8 DEF CodexNext

LEMMA LaterKept == CodexIInv /\ [CodexNext]_codexVars => LaterIsAnother'
<1> SUFFICES ASSUME CodexIInv, [CodexNext]_codexVars PROVE LaterIsAnother'
  OBVIOUS
<1> USE CredentialBoundsAssumption DEF CodexIInv, CredentialsTypeOK, Account, Flight, provider, Minted, InOrder, LaterIsAnother
<1>1. ASSUME NEW r \in Requests, NEW need \in Minimums, Ask(r, need) PROVE LaterIsAnother'
  BY <1>1 DEF Ask, Resolved, Refreshing
<1>2. CASE Exchange
  BY <1>2, ExchangeDoes
<1>3. CASE Answered
  BY <1>3 DEF Answered, Settle
<1>4. CASE Refused \/ TimedOut \/ SettingsFail
  BY <1>4 DEF Refused, TimedOut, SettingsFail, FallBack, Settle, Dropped
<1>5. CASE Pass
  BY <1>5 DEF Pass
<1>6. CASE LogIn
  BY <1>6 DEF LogIn
<1>7. CASE Restart
  BY <1>7 DEF Restart, Dropped
<1>8. CASE UNCHANGED codexVars
  BY <1>8 DEF codexVars
<1> QED
  BY <1>1, <1>2, <1>3, <1>4, <1>5, <1>6, <1>7, <1>8 DEF CodexNext

LEMMA SpentOnceKept == CodexIInv /\ [CodexNext]_codexVars => SpentOnce'
<1> SUFFICES ASSUME CodexIInv, [CodexNext]_codexVars PROVE SpentOnce'
  OBVIOUS
<1> USE CredentialBoundsAssumption DEF CodexIInv, CredentialsTypeOK, Account, Flight, provider, SuccessorStands, Succeeded, Pending, LostTokens, SpentOnce
<1>1. ASSUME NEW r \in Requests, NEW need \in Minimums, Ask(r, need) PROVE SpentOnce'
  BY <1>1 DEF Ask, Resolved, Refreshing
<1>2. CASE Exchange
  <2>1. /\ flight # NoAccount /\ lost' = lost
        /\ \/ reused' = reused
           \/ flight.account.token \in spent /\ reused' = reused \cup {flight.account.token}
        /\ flight.state = "sent"
    BY <1>2, ExchangeDoes
  <2>2. flight.account.token \in spent => flight.account.token \in LostTokens
    BY <2>1
  <2> QED
    BY <2>1, <2>2
<1>3. CASE Answered
  BY <1>3 DEF Answered, Settle
<1>4. CASE Refused \/ TimedOut \/ SettingsFail
  <2>1. LostTokens \subseteq LostTokens'
    BY <1>4, FallBackDoes, RotationIsNoted
  <2> QED
    BY <1>4, <2>1, FallBackDoes
<1>5. CASE Pass
  BY <1>5 DEF Pass
<1>6. CASE LogIn
  BY <1>6 DEF LogIn
<1>7. CASE Restart
  BY <1>7 DEF Restart, Dropped
<1>8. CASE UNCHANGED codexVars
  BY <1>8 DEF codexVars
<1> QED
  BY <1>1, <1>2, <1>3, <1>4, <1>5, <1>6, <1>7, <1>8 DEF CodexNext

LEMMA SeedKept == CodexIInv /\ [CodexNext]_codexVars => SeedOutlivesItsAction'
<1> SUFFICES ASSUME CodexIInv, [CodexNext]_codexVars PROVE SeedOutlivesItsAction'
  OBVIOUS
<1> USE CredentialBoundsAssumption DEF CodexIInv, CredentialsTypeOK, Account, Flight, provider, SeedOutlivesItsAction
<1>1. ASSUME NEW r \in Requests, NEW need \in Minimums, Ask(r, need) PROVE SeedOutlivesItsAction'
  BY <1>1 DEF Ask, Resolved, Refreshing, Copy, Covers
<1>2. CASE Exchange
  BY <1>2, ExchangeDoes
<1>3. CASE Answered
  <2>1. flight.answer \in Account
    BY <1>3 DEF Answered, Minted
  <2> QED
    BY <1>3, <2>1, GrantedCovers DEF Answered, Settle
<1>4. CASE Refused \/ TimedOut \/ SettingsFail
  <2>1. flight.account \in Account
    BY <1>4, FallBackDoes
  <2> QED
    BY <1>4, <2>1, FallBackDoes, GrantedCovers
<1>5. CASE Pass
  BY <1>5 DEF Pass
<1>6. CASE LogIn
  BY <1>6 DEF LogIn
<1>7. CASE Restart
  BY <1>7 DEF Restart, Dropped
<1>8. CASE UNCHANGED codexVars
  BY <1>8 DEF codexVars
<1> QED
  BY <1>1, <1>2, <1>3, <1>4, <1>5, <1>6, <1>7, <1>8 DEF CodexNext

-----------------------------------------------------------------------------
LEMMA CodexInvariance == CodexSpec => []CodexIInv
<1>1. CodexIInv /\ [CodexNext]_codexVars => CodexIInv'
  BY CredentialTypesKept, MintedKept, InOrderKept, SuccessorKept, LaterKept, SpentOnceKept,
     SeedKept
  DEF CodexIInv
<1> QED
  BY <1>1, CodexInitially, PTL DEF CodexSpec

\* A refresh starts from what the request resolves, and that is not a token whose
\* loss the environment is later than.
LEMMA RefreshedFromTheLogin ==
  CodexIInv /\ [CodexNext]_codexVars =>
    [\A rotation \in lost :
       (flight = NoAccount /\ flight' # NoAccount /\ env.since > rotation.at)
       => flight'.account.token # rotation.token]_codexVars
<1> SUFFICES ASSUME CodexIInv, CodexNext, NEW rotation \in lost,
                    flight = NoAccount, flight' # NoAccount, env.since > rotation.at
             PROVE  flight'.account.token # rotation.token
  OBVIOUS
<1>1. PICK r \in Requests, need \in Minimums : Ask(r, need)
  BY DEF CodexNext, Exchange, Answered, Refused, TimedOut, SettingsFail, Pass, LogIn, Restart
<1>2. flight'.account = Resolved
  BY <1>1 DEF Ask, Refreshing
<1>3. rotation.at \in Nat /\ env.since \in Nat /\ (stored # NoAccount => stored.since \in Nat)
  BY CredentialBoundsAssumption DEF CodexIInv, CredentialsTypeOK, Account
<1>4. Resolved = env \/ (Resolved = stored /\ stored # NoAccount /\ stored.since > rotation.at)
  BY <1>3 DEF Resolved
<1> QED
  BY <1>2, <1>4 DEF CodexIInv, LaterIsAnother

\* The account of the settings, the environment, the flight and the tokens of the
\* provider keep their types; what was sent again or lost was spent before.
THEOREM CredentialsTypeCorrect == CodexSpec => []CredentialsTypeOK
<1>1. CodexIInv => CredentialsTypeOK
  BY DEF CodexIInv
<1> QED
  BY <1>1, CodexInvariance, PTL

\* For any requests, validities and number of tokens, with timeouts, settings that
\* cannot be written and restarts: no refresh token is spent twice unless its answer
\* was lost, a copy outlives its action, and a later login recovers the account.
THEOREM CredentialsAreSafe == CodexSpec => CredentialsSafe
<1>1. CodexIInv => SpentOnce /\ SeedOutlivesItsAction
  BY DEF CodexIInv
<1> QED
  BY <1>1, CodexInvariance, RefreshedFromTheLogin, PTL
  DEF CodexSpec, CredentialsSafe, LoginReplacesSpent

-----------------------------------------------------------------------------
(***************************************************************************)
(* For any stages and graphs: what is accepted is legal and what is rejected*)
(* is not.  ReachHolds says what the worklist owes, VisitedHolds and       *)
(* PathHolds what visit knows of the stages it has left and of those it is *)
(* in: the first lead into no cycle, the others form one path.             *)
(***************************************************************************)

Frames == [id : Stages, left : SUBSET Stages]

\* The types, with the frames of visit as a sequence.
ValidationTypes ==
  /\ verdict # "none" => graph \in Graphs
  /\ verdict \in {"none", "authored", "compiled", "accepted", "rejected"}
  /\ search \in {"none", "known", "reach", "cycles"}
  /\ pending \subseteq Stages
  /\ reachable \subseteq Stages /\ visited \subseteq Stages
  /\ path \in Seq(Frames)
  /\ position \in Stages \cup {Terminal}
  /\ taken \in [Stages -> [StageOutcomes -> Nat]]

\* Past the first check every edge and every body that is there leads to a stage.
KnownHolds ==
  search \in {"reach", "cycles"} \/ verdict = "accepted" =>
    \A s \in Stages : Unknown \notin TargetsOf(s) \cup LoopBody(s)

\* What was reached can be, and leads to what was or is to be.
ReachHolds ==
  /\ \A s \in reachable \cup pending : Reachable(s)
  /\ search # "none" =>
       /\ Entry \in reachable \cup pending
       /\ \A t \in reachable :
            (TargetsOf(t) \cap Stages) \cup LoopBody(t) \subseteq reachable \cup pending
  /\ verdict = "compiled" /\ search = "cycles" => reachable = Stages

\* The stages that were left lead, by edges that are not bounded, to one another
\* only, and in every set of them one leads out of the set.
VisitedHolds ==
  /\ \A s \in visited : UnboundedNext(s) \subseteq visited
  /\ \A S \in SUBSET visited : S # {} => \E s \in S : UnboundedNext(s) \cap S = {}

\* The stages being visited are a path of such edges: what a frame has dealt with
\* was left, or is the next frame's.
IsPath(p, left) ==
  /\ \A i \in 1..Len(p) :
       /\ p[i].id \notin left
       /\ p[i].left \subseteq UnboundedNext(p[i].id)
       /\ \A t \in UnboundedNext(p[i].id) \ p[i].left :
            t \in left \/ (i < Len(p) /\ t = p[i + 1].id)
       /\ i < Len(p) => p[i + 1].id \in UnboundedNext(p[i].id)
  /\ \A i, j \in 1..Len(p) : p[i].id = p[j].id => i = j

PathHolds == IsPath(path, visited)

ValidationIInv ==
  ValidationTypes /\ KnownHolds /\ ReachHolds /\ VisitedHolds /\ PathHolds /\ VerdictIsRight

-----------------------------------------------------------------------------

\* What the graph alone decides stays as long as the graph does.
LEMMA GraphDecides ==
  ASSUME graph' = graph
  PROVE  /\ Legal' <=> Legal
         /\ \A s : Reachable(s)' <=> Reachable(s)
         /\ \A s : UnboundedNext(s)' = UnboundedNext(s)
         /\ \A s : TargetsOf(s)' = TargetsOf(s)
<1>1. \A s : TargetsOf(s)' = TargetsOf(s)
  BY DEF TargetsOf
<1>2. \A s : UnboundedNext(s)' = UnboundedNext(s)
  BY DEF UnboundedNext
<1>3. \A s : Reachable(s)' <=> Reachable(s)
  BY <1>1 DEF Reachable
<1>4. Endless' <=> Endless
  BY DEF Endless
<1>5. Legal' <=> Legal
  BY <1>1, <1>3, <1>4 DEF Legal
<1> QED  BY <1>1, <1>2, <1>3, <1>5

LEMMA BodyOfStages ==
  ASSUME ValidationTypes, verdict # "none", NEW s \in Stages
  PROVE  /\ LoopBody(s) \subseteq graph[s].body
         /\ graph[s].body \subseteq Stages \cup {Unknown}
         /\ TargetsOf(s) \subseteq Stages \cup {Unknown, Terminal}
  BY GraphAssumption DEF ValidationTypes, LoopBody, TargetsOf, GraphEdges

LEMMA ReachableClosed ==
  ASSUME NEW t \in Stages, Reachable(t),
         NEW u \in (TargetsOf(t) \cap Stages) \cup graph[t].body
  PROVE  Reachable(u)
  BY DEF Reachable

LEMMA ValidationInitially == ValidationInit => ValidationIInv
<1> SUFFICES ASSUME ValidationInit PROVE ValidationIInv
  OBVIOUS
<1> USE DEF ValidationInit
<1>1. ValidationTypes
  BY DEF ValidationTypes
<1>2. KnownHolds /\ ReachHolds /\ VisitedHolds
  BY DEF KnownHolds, ReachHolds, VisitedHolds
<1>3. Len(path) = 0
  OBVIOUS
<1>4. PathHolds
  BY <1>3 DEF PathHolds, IsPath
<1>5. VerdictIsRight
  BY DEF VerdictIsRight
<1> QED  BY <1>1, <1>2, <1>4, <1>5 DEF ValidationIInv

-----------------------------------------------------------------------------

\* A search starts from the entry, with nothing visited.
LEMMA SearchStarts ==
  ASSUME ValidationIInv, NEW first \in {"authored", "compiled"}, Search(first),
         graph' \in Graphs, UNCHANGED <<position, taken>>
  PROVE  ValidationIInv'
<1> USE DEF Search
<1>1. ValidationTypes'
  <2>1. <<>> \in Seq(Frames)
    OBVIOUS
  <2> QED  BY <2>1, GraphAssumption DEF ValidationIInv, ValidationTypes
<1>2. KnownHolds' /\ VisitedHolds'
  BY DEF KnownHolds, VisitedHolds
<1>3. ReachHolds'
  <2>1. Reachable(Entry)'
    BY DEF Reachable
  <2> QED  BY <2>1 DEF ReachHolds
<1>4. PathHolds'
  <2>1. Len(path') = 0
    OBVIOUS
  <2> QED  BY <2>1 DEF PathHolds, IsPath
<1>5. VerdictIsRight'
  BY DEF VerdictIsRight
<1> QED  BY <1>1, <1>2, <1>3, <1>4, <1>5 DEF ValidationIInv

\* A graph that is rejected is illegal.
LEMMA RejectKeepsRight ==
  ASSUME ValidationIInv, verdict # "none", ~Legal, Reject
  PROVE  ValidationIInv'
<1> USE DEF Reject
<1>1. ValidationTypes'
  BY DEF ValidationIInv, ValidationTypes
<1>2. KnownHolds'
  BY DEF KnownHolds
<1>3. ReachHolds'
  BY GraphDecides DEF ValidationIInv, ReachHolds
<1>4. VisitedHolds'
  BY GraphDecides DEF ValidationIInv, VisitedHolds
<1>5. PathHolds'
  BY GraphDecides DEF ValidationIInv, PathHolds, IsPath
<1>6. VerdictIsRight'
  BY GraphDecides DEF VerdictIsRight
<1> QED  BY <1>1, <1>2, <1>3, <1>4, <1>5, <1>6 DEF ValidationIInv

LEMMA CheckKnownKeeps == ASSUME ValidationIInv, CheckKnown PROVE ValidationIInv'
<1>1. CASE \E s \in Stages : Unknown \in TargetsOf(s) \cup LoopBody(s)
  <2>1. verdict # "none" /\ Reject
    BY <1>1 DEF CheckKnown, Checking
  <2>2. ~Legal
    BY <1>1, <2>1, BodyOfStages DEF ValidationIInv, Legal
  <2> QED  BY <2>1, <2>2, RejectKeepsRight
<1>2. CASE ~\E s \in Stages : Unknown \in TargetsOf(s) \cup LoopBody(s)
  <2>1. /\ verdict \in {"authored", "compiled"} /\ search = "known" /\ search' = "reach"
        /\ UNCHANGED <<graph, verdict, pending, reachable, path, visited, position, taken>>
    BY <1>2 DEF CheckKnown, Checking
  <2>2. \A s : LoopBody(s)' = LoopBody(s)
    BY <2>1 DEF LoopBody
  <2>3. ValidationTypes'
    BY <2>1 DEF ValidationIInv, ValidationTypes
  <2>4. KnownHolds'
    BY <1>2, <2>1, <2>2, GraphDecides DEF KnownHolds
  <2>5. ReachHolds'
    BY <2>1, <2>2, GraphDecides DEF ValidationIInv, ReachHolds
  <2>6. VisitedHolds' /\ PathHolds'
    BY <2>1, GraphDecides DEF ValidationIInv, VisitedHolds, PathHolds, IsPath
  <2>7. VerdictIsRight'
    BY <2>1 DEF VerdictIsRight
  <2> QED  BY <2>3, <2>4, <2>5, <2>6, <2>7 DEF ValidationIInv
<1> QED  BY <1>1, <1>2

LEMMA ReachKeeps == ASSUME ValidationIInv, Reach PROVE ValidationIInv'
<1>1. /\ verdict \in {"authored", "compiled"} /\ search = "reach"
      /\ UNCHANGED <<graph, verdict, search, path, visited, position, taken>>
  BY DEF Reach, Checking
<1>2. \A s : LoopBody(s)' = LoopBody(s)
  BY <1>1 DEF LoopBody
<1>3. PICK id \in pending :
        /\ reachable' = reachable \cup {id}
        /\ pending' = (pending \cup (TargetsOf(id) \cap Stages) \cup LoopBody(id)) \ reachable'
  BY DEF Reach
<1>4. id \in Stages
  BY DEF ValidationIInv, ValidationTypes
<1>5. LoopBody(id) \subseteq Stages /\ LoopBody(id) \subseteq graph[id].body
  BY <1>1, <1>4, BodyOfStages DEF ValidationIInv, KnownHolds
<1>6. ValidationTypes'
  BY <1>1, <1>3, <1>4, <1>5 DEF ValidationIInv, ValidationTypes
<1>7. KnownHolds'
  BY <1>1, <1>2, GraphDecides DEF ValidationIInv, KnownHolds
<1>8. ReachHolds'
  <2>1. \A s \in reachable' \cup pending' : Reachable(s)
    <3>1. \A u \in (TargetsOf(id) \cap Stages) \cup LoopBody(id) : Reachable(u)
      BY <1>4, <1>5, ReachableClosed DEF ValidationIInv, ReachHolds
    <3> QED  BY <1>3, <3>1 DEF ValidationIInv, ReachHolds
  <2>2. Entry \in reachable' \cup pending'
    BY <1>1, <1>3 DEF ValidationIInv, ReachHolds
  <2>3. reachable \cup pending \subseteq reachable' \cup pending'
    BY <1>3
  <2>4. (TargetsOf(id) \cap Stages) \cup LoopBody(id) \subseteq reachable' \cup pending'
    BY <1>3
  <2>5. \A t \in reachable' :
          (TargetsOf(t) \cap Stages) \cup LoopBody(t) \subseteq reachable' \cup pending'
    BY <1>1, <1>3, <2>3, <2>4 DEF ValidationIInv, ReachHolds
  <2> QED  BY <1>1, <1>2, <2>1, <2>2, <2>5, GraphDecides DEF ReachHolds
<1>9. VisitedHolds' /\ PathHolds'
  BY <1>1, GraphDecides DEF ValidationIInv, VisitedHolds, PathHolds, IsPath
<1>10. VerdictIsRight'
  BY <1>1 DEF VerdictIsRight
<1> QED  BY <1>6, <1>7, <1>8, <1>9, <1>10 DEF ValidationIInv

LEMMA ReachedKeeps == ASSUME ValidationIInv, Reached PROVE ValidationIInv'
<1>1. verdict \in {"authored", "compiled"} /\ search = "reach" /\ pending = {}
  BY DEF Reached, Checking
<1>2. CASE ~Deferred /\ reachable # Stages
  <2>1. Reject
    BY <1>2 DEF Reached
  <2>2. \A s \in Stages : LoopBody(s) = graph[s].body
    BY <1>1, <1>2 DEF Deferred, LoopBody
  <2>3. reachable \subseteq Stages /\ Entry \in reachable
    BY <1>1 DEF ValidationIInv, ValidationTypes, ReachHolds
  <2>4. \A t \in reachable : (TargetsOf(t) \cap Stages) \cup graph[t].body \subseteq reachable
    BY <1>1, <2>2, <2>3 DEF ValidationIInv, ReachHolds
  <2>5. PICK s \in Stages : s \notin reachable
    BY <1>2, <2>3
  <2>6. ~Reachable(s)
    BY <2>3, <2>4, <2>5 DEF Reachable
  <2> QED  BY <1>1, <2>1, <2>6, RejectKeepsRight DEF Legal
<1>3. CASE ~(~Deferred /\ reachable # Stages)
  <2>1. /\ search' = "cycles"
        /\ UNCHANGED <<graph, verdict, pending, reachable, path, visited, position, taken>>
    BY <1>3 DEF Reached
  <2>2. \A s : LoopBody(s)' = LoopBody(s)
    BY <2>1 DEF LoopBody
  <2>3. ValidationTypes'
    BY <2>1 DEF ValidationIInv, ValidationTypes
  <2>4. KnownHolds'
    BY <1>1, <2>1, <2>2, GraphDecides DEF ValidationIInv, KnownHolds
  <2>5. ReachHolds'
    <3>1. verdict = "compiled" => reachable = Stages
      BY <1>3 DEF Deferred
    <3> QED  BY <1>1, <2>1, <2>2, <3>1, GraphDecides DEF ValidationIInv, ReachHolds
  <2>6. VisitedHolds' /\ PathHolds'
    BY <2>1, GraphDecides DEF ValidationIInv, VisitedHolds, PathHolds, IsPath
  <2>7. VerdictIsRight'
    BY <1>1, <2>1 DEF VerdictIsRight
  <2> QED  BY <2>3, <2>4, <2>5, <2>6, <2>7 DEF ValidationIInv
<1> QED  BY <1>2, <1>3

-----------------------------------------------------------------------------

\* While visit goes on, only its frames and the stages it has left change.
LEMMA VisitFrame ==
  ASSUME ValidationIInv, Checking, search = "cycles",
         UNCHANGED <<graph, verdict, search, pending, reachable, position, taken>>,
         path' \in Seq(Frames), visited' \subseteq Stages,
         VisitedHolds', PathHolds'
  PROVE  ValidationIInv'
<1>1. \A s : LoopBody(s)' = LoopBody(s)
  BY DEF LoopBody
<1>2. ValidationTypes'
  BY DEF ValidationIInv, ValidationTypes
<1>3. KnownHolds'
  BY <1>1, GraphDecides DEF ValidationIInv, KnownHolds
<1>4. ReachHolds'
  BY <1>1, GraphDecides DEF ValidationIInv, ReachHolds
<1>5. VerdictIsRight'
  BY DEF Checking, VerdictIsRight
<1> QED  BY <1>2, <1>3, <1>4, <1>5 DEF ValidationIInv

\* A frame is put on the path for a stage that the last one leads to.
LEMMA FrameOfStage ==
  ASSUME NEW s \in Stages
  PROVE  /\ Frame(s) \in Frames
         /\ Frame(s).id = s /\ Frame(s).left = UnboundedNext(s)
  BY DEF Frame, Frames, UnboundedNext

LEMMA PathFollows ==
  ASSUME graph' = graph, IsPath(path', visited') PROVE PathHolds'
BY GraphDecides DEF PathHolds, IsPath

LEMMA VisitStageKeeps == ASSUME ValidationIInv, VisitStage PROVE ValidationIInv'
<1>1. /\ Checking /\ search = "cycles" /\ path = <<>>
      /\ UNCHANGED <<graph, verdict, search, pending, reachable, visited, position, taken>>
  BY DEF VisitStage
<1>2. PICK s \in Stages \ visited : path' = Append(<<>>, Frame(s))
  BY DEF VisitStage, Entered
<1>3. /\ path' \in Seq(Frames) /\ Len(path') = 1
      /\ path'[1].id = s /\ path'[1].left = UnboundedNext(s)
  BY <1>2, FrameOfStage
<1>4. VisitedHolds'
  BY <1>1, GraphDecides DEF ValidationIInv, VisitedHolds
<1>5. PathHolds'
  <2>1. 1..Len(path') = {1}
    BY <1>3
  <2> QED  BY <1>1, <1>2, <1>3, <2>1, GraphDecides DEF PathHolds, IsPath
<1>6. visited' \subseteq Stages
  BY <1>1 DEF ValidationIInv, ValidationTypes
<1> QED  BY <1>1, <1>3, <1>4, <1>5, <1>6, VisitFrame

\* The ends of a path.
LEMMA PathEnds ==
  ASSUME path \in Seq(Frames), path # <<>>
  PROVE  /\ Len(path) \in Nat \ {0}
         /\ Last(path) = path[Len(path)] /\ Last(path) \in Frames
         /\ Front(path) \in Seq(Frames) /\ Len(Front(path)) = Len(path) - 1
         /\ \A i \in 1..(Len(path) - 1) : Front(path)[i] = path[i]
<1>1. Len(path) \in Nat \ {0}
  OBVIOUS
<1>2. Last(path) = path[Len(path)] /\ Last(path) \in Frames
  BY <1>1 DEF Last
<1>3. /\ Front(path) \in Seq(Frames) /\ Len(Front(path)) = Len(path) - 1
      /\ \A i \in 1..(Len(path) - 1) : Front(path)[i] = path[i]
  <2> DEFINE m == Len(path) - 1
  <2>1. m \in Nat /\ \A i \in 1..m : path[i] \in Frames
    BY <1>1
  <2>2. /\ SubSeq(path, 1, m) \in Seq(Frames)
        /\ Len(SubSeq(path, 1, m)) = IF 1 <= m THEN m - 1 + 1 ELSE 0
        /\ \A i \in 1..(m - 1 + 1) : SubSeq(path, 1, m)[i] = path[1 + i - 1]
    <3> HIDE DEF m
    <3> QED  BY <2>1, SubSeqProperties
  <2>3. Front(path) = SubSeq(path, 1, m)
    BY DEF Front
  <2>4. 1..(m - 1 + 1) = 1..m /\ \A i \in 1..m : path[1 + i - 1] = path[i]
    <3>1. \A i \in 1..m : 1 + i - 1 = i
      BY <2>1
    <3> QED  BY <2>1, <3>1
  <2>5. Len(SubSeq(path, 1, m)) = m
    <3> HIDE DEF m
    <3> QED  BY <2>1, <2>2
  <2>6. /\ Front(path) \in Seq(Frames) /\ Len(Front(path)) = m
        /\ \A i \in 1..m : Front(path)[i] = path[i]
    <3> HIDE DEF m
    <3> QED  BY <2>2, <2>3, <2>4, <2>5
  <2> QED  BY <2>6
<1> QED  BY <1>1, <1>2, <1>3

\* A path that comes back to one of its stages is a set of stages without end.
LEMMA BackIsEndless ==
  ASSUME ValidationTypes, PathHolds, path # <<>>, verdict # "none",
         NEW s \in Last(path).left, s \in Visiting
  PROVE  ~Legal
<1> DEFINE n == Len(path)
<1>1. n \in Nat \ {0} /\ Last(path) = path[n]
  BY PathEnds DEF ValidationTypes
<1>2. PICK j \in 1..n : s = path[j].id
  BY DEF Visiting, ValidationTypes
<1> DEFINE S == {path[i].id : i \in j..n}
<1>3. \A i \in 1..n : path[i].id \in Stages
  <2>1. \A i \in 1..n : path[i] \in Frames
    BY DEF ValidationTypes
  <2> QED  BY <2>1 DEF Frames
<1>4. S \in (SUBSET Stages) \ {{}}
  <2>1. s \in S
    BY <1>1, <1>2
  <2>2. \A i \in j..n : i \in 1..n
    BY <1>1, <1>2
  <2>3. S \subseteq Stages
    BY <1>3, <2>2
  <2> QED  BY <2>1, <2>3
<1>5. \A i \in j..n : \E t \in S : t \in UnboundedNext(path[i].id)
  <2> SUFFICES ASSUME NEW i \in j..n
               PROVE  \E t \in S : t \in UnboundedNext(path[i].id)
    OBVIOUS
  <2>1. CASE i = n
    <3>1. s \in UnboundedNext(path[n].id)
      BY <1>1 DEF PathHolds, IsPath
    <3>2. s \in S
      BY <1>1, <1>2
    <3> HIDE DEF S
    <3> QED  BY <2>1, <3>1, <3>2
  <2>2. CASE i < n
    <3>1. i + 1 \in j..n /\ i \in 1..n
      BY <1>1, <1>2, <2>2
    <3> QED  BY <2>2, <3>1 DEF PathHolds, IsPath
  <2> QED  BY <1>1, <2>1, <2>2
<1>6. Endless
  <2>1. \A x \in S : \E t \in S, o \in StageOutcomes :
          graph[x].on[o] = [to |-> t, reentries |-> 0]
    BY <1>5 DEF UnboundedNext
  <2> QED  BY <1>4, <2>1 DEF Endless
<1> QED  BY <1>6 DEF Legal

LEMMA VisitNextKeeps == ASSUME ValidationIInv, VisitNext PROVE ValidationIInv'
<1>1. Checking /\ search = "cycles" /\ path # <<>> /\ verdict # "none"
  BY DEF VisitNext, Checking
<1>2. PICK s \in Last(path).left :
        IF s \in Visiting
          THEN Reject
          ELSE /\ path' = Entered(s, Append(Front(path),
                                            [Last(path) EXCEPT !.left = @ \ {s}]))
               /\ UNCHANGED <<graph, verdict, search, pending, reachable, visited,
                              position, taken>>
  BY DEF VisitNext
<1>3. CASE s \in Visiting
  BY <1>1, <1>2, <1>3, BackIsEndless, RejectKeepsRight DEF ValidationIInv
<1>4. CASE s \notin Visiting
  <2> DEFINE n == Len(path)
             frame == [Last(path) EXCEPT !.left = @ \ {s}]
             rest == Append(Front(path), frame)
  <2>1. /\ path' = Entered(s, rest)
        /\ UNCHANGED <<graph, verdict, search, pending, reachable, visited, position, taken>>
    BY <1>2, <1>4
  <2>2. /\ n \in Nat \ {0} /\ Last(path) = path[n] /\ Last(path) \in Frames
        /\ Front(path) \in Seq(Frames) /\ Len(Front(path)) = n - 1
        /\ \A i \in 1..(n - 1) : Front(path)[i] = path[i]
    BY <1>1, PathEnds DEF ValidationIInv, ValidationTypes
  <2>3. s \in Stages /\ s \in UnboundedNext(path[n].id)
    BY <2>2 DEF ValidationIInv, PathHolds, IsPath, Frames
  <2>4. frame \in Frames /\ frame.id = path[n].id /\ frame.left = path[n].left \ {s}
    BY <2>2 DEF Frames
  <2>5. /\ rest \in Seq(Frames) /\ Len(rest) = n /\ rest[n] = frame
        /\ \A i \in 1..(n - 1) : rest[i] = path[i]
    BY <2>2, <2>4
  <2>6. /\ \A i \in 1..n : rest[i].id = path[i].id
        /\ \A i \in 1..n : rest[i].left \subseteq path[i].left
        /\ \A i \in 1..n : path[i].left \ rest[i].left \subseteq {s}
        /\ \A i \in 1..n : i < n => rest[i].left = path[i].left
    BY <2>2, <2>4, <2>5
  <2>7. VisitedHolds'
    BY <2>1, GraphDecides DEF ValidationIInv, VisitedHolds
  <2>8. visited' \subseteq Stages
    BY <2>1 DEF ValidationIInv, ValidationTypes
  <2>9. CASE s \in visited
    <3>1. path' = rest
      BY <2>1, <2>9 DEF Entered
    <3>2. PathHolds'
      <4> SUFFICES
            /\ \A i \in 1..n :
                 /\ rest[i].id \notin visited
                 /\ rest[i].left \subseteq UnboundedNext(rest[i].id)
                 /\ \A t \in UnboundedNext(rest[i].id) \ rest[i].left :
                      t \in visited \/ (i < n /\ t = rest[i + 1].id)
                 /\ i < n => rest[i + 1].id \in UnboundedNext(rest[i].id)
            /\ \A i, j \in 1..n : rest[i].id = rest[j].id => i = j
        BY <2>1, <2>5, <3>1, PathFollows DEF IsPath
      <4>1. \A i \in 1..n : i < n => i + 1 \in 1..n
        BY <2>2
      <4> QED  BY <2>2, <2>6, <2>9, <4>1 DEF ValidationIInv, PathHolds, IsPath
    <3> QED  BY <1>1, <2>1, <2>5, <2>7, <2>8, <3>1, <3>2, VisitFrame
  <2>10. CASE s \notin visited
    <3> DEFINE longer == Append(rest, Frame(s))
    <3>1. path' = longer
      BY <2>1, <2>10 DEF Entered
    <3>2. /\ longer \in Seq(Frames) /\ Len(longer) = n + 1
          /\ longer[n + 1].id = s /\ longer[n + 1].left = UnboundedNext(s)
          /\ \A i \in 1..n : longer[i] = rest[i]
      BY <2>2, <2>3, <2>5, FrameOfStage
    <3>3. \A i \in 1..n : path[i].id # s
      BY <1>4, <2>2 DEF Visiting, ValidationIInv, ValidationTypes
    <3>4. PathHolds'
      <4> SUFFICES
            /\ \A i \in 1..(n + 1) :
                 /\ longer[i].id \notin visited
                 /\ longer[i].left \subseteq UnboundedNext(longer[i].id)
                 /\ \A t \in UnboundedNext(longer[i].id) \ longer[i].left :
                      t \in visited \/ (i < n + 1 /\ t = longer[i + 1].id)
                 /\ i < n + 1 => longer[i + 1].id \in UnboundedNext(longer[i].id)
            /\ \A i, j \in 1..(n + 1) : longer[i].id = longer[j].id => i = j
        <5>1. Len(longer) = n + 1
          BY <3>2
        <5> HIDE DEF longer, n
        <5>2. IsPath(longer, visited)
          BY <5>1 DEF IsPath
        <5> QED  BY <2>1, <3>1, <5>2, PathFollows
      <4>1. \A i \in 1..n :
              /\ longer[i].id = path[i].id /\ longer[i].left = rest[i].left
              /\ i < n => longer[i + 1].id = path[i + 1].id
        <5>1. \A i \in 1..n : i < n => i + 1 \in 1..n
          BY <2>2
        <5> QED  BY <2>6, <3>2, <5>1
      <4>2. \A i \in 1..(n + 1) : i \in 1..n \/ i = n + 1
        BY <2>2
      <4>3. \A i \in 1..n :
              /\ path[i].id \notin visited
              /\ rest[i].left \subseteq UnboundedNext(path[i].id)
        BY <2>6 DEF ValidationIInv, PathHolds, IsPath
      <4>4. \A i \in 1..n : i < n =>
              /\ \A t \in UnboundedNext(path[i].id) \ rest[i].left :
                   t \in visited \/ t = path[i + 1].id
              /\ path[i + 1].id \in UnboundedNext(path[i].id)
        BY <2>6 DEF ValidationIInv, PathHolds, IsPath
      <4>5. \A t \in UnboundedNext(path[n].id) \ rest[n].left : t \in visited \/ t = s
        BY <2>2, <2>6 DEF ValidationIInv, PathHolds, IsPath
      <4>6. \A i \in 1..(n + 1) :
              /\ longer[i].id \notin visited
              /\ longer[i].left \subseteq UnboundedNext(longer[i].id)
        <5>1. \A i \in 1..n :
                /\ longer[i].id \notin visited
                /\ longer[i].left \subseteq UnboundedNext(longer[i].id)
          BY <4>1, <4>3
        <5>2. /\ longer[n + 1].id \notin visited
              /\ longer[n + 1].left \subseteq UnboundedNext(longer[n + 1].id)
          BY <2>10, <3>2
        <5> QED  BY <4>2, <5>1, <5>2
      <4>7. \A i \in 1..(n + 1) : \A t \in UnboundedNext(longer[i].id) \ longer[i].left :
              t \in visited \/ (i < n + 1 /\ t = longer[i + 1].id)
        <5>1. \A i \in 1..n : i < n + 1 /\ (i < n \/ i = n)
          BY <2>2
        <5> QED  BY <3>2, <4>1, <4>2, <4>4, <4>5, <5>1
      <4>8. \A i \in 1..(n + 1) : i < n + 1 => longer[i + 1].id \in UnboundedNext(longer[i].id)
        <5>1. \A i \in 1..(n + 1) : i < n + 1 => i \in 1..n /\ (i < n \/ i = n)
          BY <2>2
        <5> QED  BY <2>3, <3>2, <4>1, <4>4, <5>1
      <4>9. \A i, j \in 1..(n + 1) : longer[i].id = longer[j].id => i = j
        BY <3>2, <3>3, <4>1, <4>2 DEF ValidationIInv, PathHolds, IsPath
      <4> QED  BY <4>6, <4>7, <4>8, <4>9
    <3> QED  BY <1>1, <2>1, <2>7, <2>8, <3>1, <3>2, <3>4, VisitFrame
  <2> QED  BY <2>9, <2>10
<1> QED  BY <1>3, <1>4

\* A stage that is left leads only to stages that were left before it.
LEMMA LeaveStageKeeps == ASSUME ValidationIInv, LeaveStage PROVE ValidationIInv'
<1> DEFINE n == Len(path)
           x == path[n].id
<1>1. /\ Checking /\ search = "cycles" /\ path # <<>> /\ Last(path).left = {}
      /\ path' = Front(path) /\ visited' = visited \cup {Last(path).id}
      /\ UNCHANGED <<graph, verdict, search, pending, reachable, position, taken>>
  BY DEF LeaveStage
<1>2. /\ n \in Nat \ {0} /\ Last(path) = path[n] /\ Last(path) \in Frames
      /\ Front(path) \in Seq(Frames) /\ Len(Front(path)) = n - 1
      /\ \A i \in 1..(n - 1) : Front(path)[i] = path[i]
  BY <1>1, PathEnds DEF ValidationIInv, ValidationTypes
<1>3. x \in Stages /\ x \notin visited /\ UnboundedNext(x) \subseteq visited
  BY <1>1, <1>2 DEF ValidationIInv, PathHolds, IsPath, Frames
<1>4. VisitedHolds'
  <2>1. \A s \in visited' : UnboundedNext(s) \subseteq visited'
    BY <1>1, <1>2, <1>3 DEF ValidationIInv, VisitedHolds
  <2>2. ASSUME NEW S \in SUBSET visited', S # {}
        PROVE  \E s \in S : UnboundedNext(s) \cap S = {}
    <3>1. CASE S = {x}
      BY <1>3, <3>1
    <3>2. CASE S # {x}
      <4> DEFINE T == S \ {x}
      <4>1. T \in SUBSET visited /\ T # {}
        BY <1>1, <1>2, <2>2, <3>2
      <4>2. PICK s \in T : UnboundedNext(s) \cap T = {}
        BY <4>1 DEF ValidationIInv, VisitedHolds
      <4>3. UnboundedNext(s) \subseteq visited
        BY <4>1, <4>2 DEF ValidationIInv, VisitedHolds
      <4> QED  BY <1>3, <4>2, <4>3
    <3> QED  BY <3>1, <3>2
  <2> QED  BY <1>1, <2>1, <2>2, GraphDecides DEF VisitedHolds
<1>5. PathHolds'
  <2> SUFFICES
        /\ \A i \in 1..(n - 1) :
             /\ path[i].id \notin visited'
             /\ path[i].left \subseteq UnboundedNext(path[i].id)
             /\ \A t \in UnboundedNext(path[i].id) \ path[i].left :
                  t \in visited' \/ (i < n - 1 /\ t = path[i + 1].id)
             /\ i < n - 1 => path[i + 1].id \in UnboundedNext(path[i].id)
        /\ \A i, j \in 1..(n - 1) : path[i].id = path[j].id => i = j
    <3>1. Len(path') = n - 1 /\ \A i \in 1..(n - 1) : path'[i] = path[i]
      BY <1>1, <1>2
    <3>2. \A i \in 1..(n - 1) : i < n - 1 => i + 1 \in 1..(n - 1)
      BY <1>2
    <3> HIDE DEF n
    <3> QED  BY <1>1, <3>1, <3>2, GraphDecides DEF PathHolds, IsPath
  <2>1. \A i \in 1..(n - 1) : i \in 1..n /\ i < n /\ i # n /\ (i < n - 1 \/ i + 1 = n)
    BY <1>2
  <2>2. \A i \in 1..(n - 1) : path[i].id # x
    BY <1>2, <2>1 DEF ValidationIInv, PathHolds, IsPath
  <2>3. visited' = visited \cup {x}
    BY <1>1, <1>2
  <2> QED  BY <2>1, <2>2, <2>3 DEF ValidationIInv, PathHolds, IsPath
<1>6. visited' \subseteq Stages
  BY <1>1, <1>2, <1>3 DEF ValidationIInv, ValidationTypes
<1> QED  BY <1>1, <1>2, <1>4, <1>5, <1>6, VisitFrame

\* A graph is admitted when both searches of its compiled form are through.
LEMMA AdmitKeeps == ASSUME ValidationIInv, Admit PROVE ValidationIInv'
<1>1. /\ verdict = "compiled" /\ search = "cycles" /\ path = <<>> /\ visited = Stages
      /\ verdict' = "accepted" /\ search' = "none" /\ position' = Entry
      /\ UNCHANGED <<graph, pending, reachable, path, visited, taken>>
  BY DEF Admit
<1>2. \A s : LoopBody(s) = graph[s].body /\ LoopBody(s)' = LoopBody(s)
  BY <1>1 DEF LoopBody
<1>3. \A s \in Stages : Unknown \notin TargetsOf(s) \cup graph[s].body /\ Reachable(s)
  BY <1>1, <1>2 DEF ValidationIInv, KnownHolds, ReachHolds
<1>4. ~Endless
  <2> SUFFICES ASSUME NEW S \in (SUBSET Stages) \ {{}},
                      \A s \in S : \E t \in S, o \in StageOutcomes :
                        graph[s].on[o] = [to |-> t, reentries |-> 0]
               PROVE  FALSE
    BY DEF Endless
  <2>1. S \in SUBSET visited /\ S # {}
    BY <1>1
  <2>2. PICK s \in S : UnboundedNext(s) \cap S = {}
    BY <2>1 DEF ValidationIInv, VisitedHolds
  <2> QED  BY <2>2 DEF UnboundedNext
<1>5. ValidationTypes'
  BY <1>1, GraphAssumption DEF ValidationIInv, ValidationTypes
<1>6. KnownHolds'
  BY <1>1, <1>2, GraphDecides DEF ValidationIInv, KnownHolds
<1>7. ReachHolds'
  BY <1>1, GraphDecides DEF ValidationIInv, ReachHolds
<1>8. VisitedHolds' /\ PathHolds'
  BY <1>1, GraphDecides DEF ValidationIInv, VisitedHolds, PathHolds, IsPath
<1>9. VerdictIsRight'
  BY <1>1, <1>3, <1>4, GraphDecides DEF VerdictIsRight, Legal
<1> QED  BY <1>5, <1>6, <1>7, <1>8, <1>9 DEF ValidationIInv

\* A walk moves along the edges of an accepted graph.
LEMMA WalkKeeps ==
  ASSUME ValidationIInv, NEW o \in StageOutcomes, Walk(o) PROVE ValidationIInv'
<1>1. /\ verdict = "accepted" /\ position # Terminal
      /\ UNCHANGED <<graph, verdict, search, pending, reachable, path, visited>>
  BY DEF Walk
<1>2. position \in Stages /\ graph \in Graphs
  BY <1>1 DEF ValidationIInv, ValidationTypes
<1>3. graph[position].on[o].to \in Stages \cup {Terminal}
  <2>1. graph[position].on[o].to \in TargetsOf(position)
    BY DEF TargetsOf
  <2> QED  BY <1>1, <1>2, <2>1, BodyOfStages DEF ValidationIInv, KnownHolds
<1>4. position' \in Stages \cup {Terminal}
  BY <1>3 DEF Walk
<1>5. taken' \in [Stages -> [StageOutcomes -> Nat]]
  <2>1. taken \in [Stages -> [StageOutcomes -> Nat]]
    BY DEF ValidationIInv, ValidationTypes
  <2>2. taken' = taken \/ taken' = [taken EXCEPT ![position][o] = @ + 1]
    BY DEF Walk
  <2> QED  BY <1>2, <2>1, <2>2
<1>6. ValidationTypes'
  BY <1>1, <1>4, <1>5 DEF ValidationIInv, ValidationTypes
<1>7. \A s : LoopBody(s)' = LoopBody(s)
  BY <1>1 DEF LoopBody
<1>8. KnownHolds' /\ ReachHolds'
  BY <1>1, <1>7, GraphDecides DEF ValidationIInv, KnownHolds, ReachHolds
<1>9. VisitedHolds' /\ PathHolds'
  BY <1>1, GraphDecides DEF ValidationIInv, VisitedHolds, PathHolds, IsPath
<1>10. VerdictIsRight'
  BY <1>1, GraphDecides DEF ValidationIInv, VerdictIsRight
<1> QED  BY <1>6, <1>8, <1>9, <1>10 DEF ValidationIInv

LEMMA ValidationInductive == ValidationIInv /\ [ValidationNext]_validationVars => ValidationIInv'
<1> SUFFICES ASSUME ValidationIInv, [ValidationNext]_validationVars PROVE ValidationIInv'
  OBVIOUS
<1>1. CASE \E g \in Graphs : Submit(g)
  <2>1. PICK g \in Graphs : Submit(g)
    BY <1>1
  <2> QED  BY <2>1, SearchStarts DEF Submit
<1>2. CASE Compile
  BY <1>2, SearchStarts DEF Compile, ValidationIInv, ValidationTypes
<1>3. CASE \E o \in StageOutcomes : Walk(o)
  BY <1>3, WalkKeeps
<1>4. CASE UNCHANGED validationVars
  <2>1. UNCHANGED <<graph, verdict, search, pending, reachable, path, visited, position, taken>>
    BY <1>4 DEF validationVars
  <2>2. \A s : LoopBody(s)' = LoopBody(s)
    BY <2>1 DEF LoopBody
  <2>3. ValidationTypes' /\ KnownHolds' /\ ReachHolds'
    BY <2>1, <2>2, GraphDecides DEF ValidationIInv, ValidationTypes, KnownHolds, ReachHolds
  <2>4. VisitedHolds' /\ PathHolds'
    BY <2>1, GraphDecides DEF ValidationIInv, VisitedHolds, PathHolds, IsPath
  <2>5. VerdictIsRight'
    BY <2>1, GraphDecides DEF ValidationIInv, VerdictIsRight
  <2> QED  BY <2>3, <2>4, <2>5 DEF ValidationIInv
<1> QED  BY <1>1, <1>2, <1>3, <1>4, CheckKnownKeeps, ReachKeeps, ReachedKeeps, VisitStageKeeps,
            VisitNextKeeps, LeaveStageKeeps, AdmitKeeps DEF ValidationNext, ValidationStep

LEMMA ValidationInvariance == ValidationSpec => []ValidationIInv
BY ValidationInitially, ValidationInductive, PTL DEF ValidationSpec

(***************************************************************************)
(* The searches, their frames and the run that walks an accepted graph     *)
(* have their types: validateStages and effectiveTransition never leave    *)
(* the stages of the graph.                                                *)
(***************************************************************************)
THEOREM ValidationTypeCorrect == ValidationSpec => []ValidationTypeOK
<1>1. ValidationIInv => ValidationTypeOK
  <2> SUFFICES ASSUME ValidationTypes PROVE ValidationTypeOK
    BY DEF ValidationIInv
  <2>1. \A i \in DOMAIN path : path[i] \in Frames
    BY DEF ValidationTypes
  <2> QED  BY <2>1 DEF ValidationTypes, Frames, ValidationTypeOK
<1> QED  BY <1>1, ValidationInvariance, PTL

(***************************************************************************)
(* validateStages accepts every graph that is legal and no other, for any  *)
(* set of stages and any graphs.                                           *)
(***************************************************************************)
THEOREM VerdictsAreRight == ValidationSpec => []VerdictIsRight
<1>1. ValidationIInv => VerdictIsRight
  BY DEF ValidationIInv
<1> QED  BY <1>1, ValidationInvariance, PTL

-----------------------------------------------------------------------------
(***************************************************************************)
(* For any constants: the composition that the run explores, a behaviour of*)
(* one module beside the others at rest.  Each step of it is a step of one *)
(* module and a stutter of the others.                                     *)
(***************************************************************************)

\* A step of the composition is a step of the module it follows, and a stutter of
\* every other one.
LEMMA StepIsAStepOfEach ==
  ASSUME [SandboxNext]_sandboxVars
  PROVE  /\ [CodexNext]_codexVars /\ [SteeringNext]_steeringVars
         /\ [AbsenceNext]_absenceVars /\ [RejectionNext]_rejectionVars
         /\ [ValidationNext]_validationVars /\ [StorageNext]_storageVars
BY DEF SandboxNext, sandboxVars, CodexPart, SteeringPart, AbsencePart, ValidationPart,
       StoragePart, RejectionPart

\* What the composition does is what each module does, without its fairness.
LEMMA CompositionIsEach ==
  SandboxSpec =>
    /\ CodexSpec /\ SteeringSpec /\ AbsenceSpec /\ RejectionSpec
    /\ ValidationSpec /\ StorageSpec
<1>1. SandboxInit =>
        /\ CodexInit /\ SteeringInit /\ AbsenceInit /\ RejectionInit
        /\ ValidationInit /\ StorageInit
  BY DEF SandboxInit
<1>2. [SandboxNext]_sandboxVars =>
        /\ [CodexNext]_codexVars /\ [SteeringNext]_steeringVars
        /\ [AbsenceNext]_absenceVars /\ [RejectionNext]_rejectionVars
        /\ [ValidationNext]_validationVars /\ [StorageNext]_storageVars
  BY StepIsAStepOfEach
<1> QED
  BY <1>1, <1>2, PTL
  DEF SandboxSpec, CodexSpec, SteeringSpec, AbsenceSpec, RejectionSpec, ValidationSpec,
      StorageSpec

(***************************************************************************)
(* In the composition that the run explores, every module about a sandbox  *)
(* keeps its types.                                                        *)
(***************************************************************************)
THEOREM SandboxTypeCorrect == SandboxSpec => []SandboxTypeOK
<1>1. /\ CredentialsTypeOK /\ SteeringTypeOK /\ AbsenceTypeOK
      /\ RejectionTypeOK /\ ValidationTypeOK /\ StorageTypeOK
      => SandboxTypeOK
  BY DEF SandboxTypeOK
<1> QED
  BY <1>1, CompositionIsEach, CredentialsTypeCorrect, SteeringTypeCorrect, AbsenceTypeCorrect,
     RejectionTypeCorrect, ValidationTypeCorrect, StorageTypeCorrect, PTL
=============================================================================
