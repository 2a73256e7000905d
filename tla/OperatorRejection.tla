-------------------------- MODULE OperatorRejection --------------------------
(***************************************************************************)
(* An operator settles a held integration that no reconciliation can       *)
(* settle.  The request names a resolution and the maintenance fence it    *)
(* was decided under; one transaction proves that the effect is held,      *)
(* fenced and unleased in an active run, records the delivery with what it *)
(* saw and advances the run.  The answer of the HTTP call may be lost, so  *)
(* a request can come again, at any time, beside other requests and beside *)
(* the worker that goes on reconciling: a request that comes again is      *)
(* answered from the recorded evidence.                                    *)
(*                                                                         *)
(* EffectDelivery has the delivery of effects as such and takes an         *)
(* operator's rejection as one step of it.                                 *)
(***************************************************************************)
EXTENDS Naturals

CONSTANTS Resolutions, \* what an operator asks for: a resolution with its reason
          MaxFence,    \* bound on how often the maintenance fence is set
          MaxLookups,  \* bound on the reconciliations
          MaxMoves,    \* bound on what else advances the run
          Nobody       \* no resolution

ASSUME RejectionAssumption ==
  /\ Nobody \notin Resolutions
  /\ MaxFence \in Nat /\ MaxLookups \in Nat \ {0} /\ MaxMoves \in Nat

OperatorRequests == [resolution : Resolutions, fence : 0..MaxFence]
NoRequest == [resolution |-> Nobody, fence |-> 0]

VARIABLES closed,   \* the maintenance fence
          fence,    \* its version
          status,   \* of the effect, which was dispatched under a fence before
          lookups,  \* its attempt_count
          version,  \* its version
          run,      \* the status of the run
          moves,    \* the version of the run
          ready,    \* whether the schedule that owns the effect is current
          delivery, \* its delivery record
          reply    \* the last answer to an operator

rejectionVars == <<closed, fence, status, lookups, version, run, moves, ready,
                   delivery, reply>>

NoDelivery == [by |-> "none"]
Outcome == {"rejected", "unchanged", "conflict"}

RejectionInit ==
  /\ closed = FALSE /\ fence = 0
  /\ status = "unknown" /\ lookups = 1 /\ version = 1
  /\ run = "running" /\ moves = 0 /\ ready = TRUE
  /\ delivery = NoDelivery
  /\ reply = [request |-> NoRequest, outcome |-> "conflict"]

SetFence ==
  /\ fence < MaxFence
  /\ closed' = ~closed /\ fence' = fence + 1
  /\ UNCHANGED <<status, lookups, version, run, moves, ready, delivery, reply>>

-----------------------------------------------------------------------------
(* The worker and the run                                                  *)

Lookup ==
  /\ status = "unknown" /\ run = "running" /\ lookups < MaxLookups
  /\ status' = "leased" /\ lookups' = lookups + 1 /\ version' = version + 1
  /\ UNCHANGED <<closed, fence, run, moves, ready, delivery, reply>>

\* Nothing was found, or the lease ran out.
HoldAgain ==
  /\ status = "leased"
  /\ status' = "unknown" /\ version' = version + 1
  /\ UNCHANGED <<closed, fence, lookups, run, moves, ready, delivery, reply>>

\* The provider's answer settles the effect.
SettleEffect(s) ==
  /\ status = "leased"
  /\ status' = s /\ version' = version + 1 /\ moves' = moves + 1
  /\ delivery' = [by |-> "provider"]
  /\ UNCHANGED <<closed, fence, lookups, run, ready, reply>>

\* Another transition of the run: its version advances, the schedule may no
\* longer be the current one, and the run may end.
RunMoves(r) ==
  /\ run = "running" /\ moves < MaxMoves
  /\ moves' = moves + 1
  /\ run' = r /\ ready' \in BOOLEAN
  /\ UNCHANGED <<closed, fence, status, lookups, version, delivery, reply>>

-----------------------------------------------------------------------------
(* A request of an operator: one transaction, and the answer to it         *)

FenceHolds(r) == closed /\ fence = r.fence

\* Mutant of Held: the effect is rejected under the worker that looks it up
HeldOrLeased == status \in {"unknown", "leased"} /\ run = "running"

\* Mutant of Held: a rejection is as good as an unknown
HeldOrRejected == status \in {"unknown", "rejected"} /\ run = "running" /\ ready

\* An active run, a fenced effect that is held by nobody, one current schedule
\* that owns it.
Held == status = "unknown" /\ run = "running" /\ ready

\* What the delivery says of the moment it was made in.
Evidence(r) ==
  [by |-> "operator", request |-> r, run |-> moves, effect |-> version,
   lookups |-> lookups]

\* Mutant of ExactReplay: whichever operator rejected it
AnyRejection(r) == TRUE

\* Mutant of ExactReplay: the run must not have gone on since
NothingSince(r) ==
  delivery.request = r /\ delivery.run + 1 = moves

\* The recorded delivery is what this very request made; the run may have gone
\* on since, the effect not.
ExactReplay(r) ==
  /\ delivery.request = r
  /\ delivery.run < moves
  /\ delivery.effect + 1 = version
  /\ delivery.lookups = lookups

Answer(r, outcome) == reply' = [request |-> r, outcome |-> outcome]

Conflict(r) ==
  /\ Answer(r, "conflict")
  /\ UNCHANGED <<status, version, moves, delivery>>

Replay(r) ==
  IF delivery.by = "operator" /\ ExactReplay(r)
    THEN Answer(r, "unchanged") /\ UNCHANGED <<status, version, moves, delivery>>
    ELSE Conflict(r)

RejectForGood(r) ==
  /\ status' = "rejected" /\ version' = version + 1 /\ moves' = moves + 1
  /\ delivery' = Evidence(r)
  /\ Answer(r, "rejected")

Request(r) ==
  /\ IF ~FenceHolds(r) THEN Conflict(r)
     ELSE IF Held THEN RejectForGood(r)
     ELSE IF status = "rejected" THEN Replay(r)
     ELSE Conflict(r)
  /\ UNCHANGED <<closed, fence, lookups, run, ready>>

RejectionNext ==
  \/ SetFence \/ Lookup \/ HoldAgain
  \/ \E s \in {"acknowledged", "rejected"} : SettleEffect(s)
  \/ \E r \in {"running", "completed", "cancelled"} : RunMoves(r)
  \/ \E r \in OperatorRequests : Request(r)

RejectionSpec == RejectionInit /\ [][RejectionNext]_rejectionVars

-----------------------------------------------------------------------------
RejectionTypeOK ==
  /\ closed \in BOOLEAN /\ fence \in 0..MaxFence
  /\ status \in {"unknown", "leased", "acknowledged", "rejected"}
  /\ lookups \in 1..MaxLookups /\ version \in Nat
  /\ run \in {"running", "completed", "cancelled"}
  /\ moves \in 0..MaxMoves + 1 /\ ready \in BOOLEAN
  /\ delivery.by \in {"none", "provider", "operator"}
  /\ reply \in [request : OperatorRequests \cup {NoRequest}, outcome : Outcome]

(***************************************************************************)
(* An effect is settled once: whatever requests and reconciliations cross, *)
(* the first delivery stays, and a settled effect has one.                 *)
(***************************************************************************)
FirstDeliveryStands ==
  [][/\ delivery # NoDelivery => UNCHANGED <<delivery, status, version, lookups>>
     /\ status' \in {"acknowledged", "rejected"} => delivery' # NoDelivery]_rejectionVars

(***************************************************************************)
(* An operator who is told that the effect is rejected is told of its own  *)
(* resolution, under the fence it was decided under.                       *)
(***************************************************************************)
ToldOfItsOwn ==
  reply.outcome \in {"rejected", "unchanged"} =>
    /\ status = "rejected" /\ delivery.by = "operator"
    /\ delivery.request = reply.request

(***************************************************************************)
(* A request whose answer was lost can be made again: while its fence      *)
(* stays, it is never refused, whatever has become of the run.             *)
(***************************************************************************)
ReplayIsAnswered ==
  [][\A r \in OperatorRequests :
       Request(r) /\ delivery.by = "operator" /\ delivery.request = r /\ FenceHolds(r) =>
         reply'.outcome = "unchanged"]_rejectionVars

(***************************************************************************)
(* A worker that has leased the effect settles what it found: no operator  *)
(* takes the effect from it.                                               *)
(***************************************************************************)
LeaseIsRespected ==
  [][status = "leased" /\ delivery' # delivery => delivery'.by = "provider"]_rejectionVars

\* An operator's rejection is delivered once and told truly: the first delivery
\* stands, a request that is repeated is answered as before, and the holder of a
\* lease is not overtaken.
RejectionSafe ==
    /\ []ToldOfItsOwn
    /\ FirstDeliveryStands
    /\ ReplayIsAnswered /\ LeaseIsRespected
=============================================================================
