------------------------- MODULE AttemptScheduling -------------------------
(***************************************************************************)
(* Which attempt a worker leases next, over several runs that share the    *)
(* worker's executions and the provider's sandboxes                        *)
(* (persistence/kernel-store-leases.ts, and the manifest snapshot of       *)
(* persistence/kernel-store.ts it schedules by).  What an attempt does is  *)
(* in ExecutionKernel and PipelineLifecycle; here it holds its claim for a *)
(* while, creates or cleans sandboxes, and makes the next attempts.        *)
(***************************************************************************)
EXTENDS Integers, FiniteSets

CONSTANTS
  Runs,           \* pipeline runs, each with a definition bundle of its own
  ItemCount,      \* ItemCount[r]: items of r's parallel inspect stage
  PoolSize,       \* PoolSize[r]: the stage's max_parallel, and so its pool
  ExecutionWidth, \* attempts a worker runs at once
  MaxConcurrent,  \* max_concurrent_attempts, the provider's sandboxes
  MaxFlaky,       \* bound: manifests that fail to resolve once
  Nobody

ASSUME SchedulingAssumption ==
  /\ IsFiniteSet(Runs)
  /\ ItemCount \in [Runs -> Nat \ {0}] /\ PoolSize \in [Runs -> Nat \ {0}]
  /\ {ExecutionWidth, MaxConcurrent} \subseteq Nat \ {0} /\ MaxFlaky \in Nat

VARIABLES
  stageOf,   \* the stage of every run
  claim,    \* the status of the attempts of its stage
  born,     \* created_at of the attempts of its stage
  clock,    \* the last created_at
  creates,  \* its create effects, by slot
  cleaned,  \* the slots whose cleanup effect is acknowledged
  cached,   \* #leaseManifestCache: the runs whose manifest is resolved
  snapshot, \* the scheduling snapshot the worker holds, or Nobody
  staleTries, \* snapshotAttempt of the lease loop
  flaky     \* resolutions that failed so far

schedulingVars == <<stageOf, claim, born, clock, creates, cleaned, cached,
                    snapshot, staleTries, flaky>>

Live  == {r \in Runs : stageOf[r] \notin {"absent", "ended"}}
Items(r) == 0 .. ItemCount[r] - 1
SlotsOf(r) == 0 .. PoolSize[r] - 1
ResourceCapacity == IF ExecutionWidth > MaxConcurrent THEN ExecutionWidth
                    ELSE MaxConcurrent

-----------------------------------------------------------------------------
(* What the lease transaction looks at.                                    *)

\* #claimRows: leased attempts, and work or results that wait without one.
Claims(r) == {i \in Items(r) : claim[r][i] \in {"leased", "held", "correcting"}}
Leased    == {e \in UNION {{<<r, i>> : i \in Items(r)} : r \in Live} :
                claim[e[1]][e[2]] \in {"leased", "correcting"}}

\* #attemptScheduling: the manifest is known and its pool can be run at all.
Schedulable(r) == r \in snapshot.good /\ PoolSize[r] <= MaxConcurrent

Slot(r, i) == i % PoolSize[r]

ParallelInspect(r) == stageOf[r] = "work" /\ PoolSize[r] > 1

\* #claimSetIsValid and #candidateCanShareItsRun
\* Mutant of Fits: the claims are counted and their sandboxes are not compared
CountFits(r, set) == Cardinality(set) <= PoolSize[r]

Fits(r, set) == \/ Cardinality(set) <= 1
                \/ /\ ParallelInspect(r)
                   /\ Cardinality(set) <= PoolSize[r]
                   /\ \A i, j \in set : Slot(r, i) = Slot(r, j) => i = j

CanShareItsRun(r, i) ==
  /\ Cardinality(Claims(r)) > 1 => Schedulable(r)
  /\ Fits(r, Claims(r))
  /\ Fits(r, Claims(r) \cup {i})

\* #resourceReservations: creates that are not cleaned up, and at least the
\* pool of a run that has a claim.
\* Mutant of Standing: a cleanup does not give its sandbox back
EverMade(r) == {k \in SlotsOf(r) : creates[r][k] \in {"open", "made"}}

Standing(r) == {k \in SlotsOf(r) : /\ creates[r][k] \in {"open", "made"}
                                   /\ k \notin cleaned[r]}
\* Mutant of ReservedSlots: a run that is about to create its pool counts for
\* the sandboxes it has
OnlyStanding(r, good) == Standing(r)

ReservedSlots(r, good) ==
  IF Claims(r) # {} /\ r \in good /\ PoolSize[r] <= MaxConcurrent
  THEN SlotsOf(r) ELSE Standing(r)

Reservations(good) == UNION {{r} \X ReservedSlots(r, good) : r \in Live}
Reserved(good) == Cardinality(Reservations(good))

Additional(r) == PoolSize[r] - Cardinality(ReservedSlots(r, snapshot.good))

Candidates ==
  {e \in UNION {{<<r, i>> : i \in Items(r)} : r \in Live} :
     LET r == e[1] IN
     /\ claim[r][e[2]] = "pending" \/ (claim[r][e[2]] = "held" /\ stageOf[r] = "work")
     /\ Schedulable(r) /\ CanShareItsRun(r, e[2])
     /\ Reserved(snapshot.good) + Additional(r) <= ResourceCapacity}

Older(d, e) == \/ born[d[1]] < born[e[1]]
               \/ d[1] = e[1] /\ d[2] <= e[2]

-----------------------------------------------------------------------------
(* The worker.                                                             *)

\* #leaseSchedulingSnapshot: outside of the lease transaction, the manifest of
\* every live run is taken from the cache or resolved.  A failure that may
\* pass is not cached.
ReadSnapshot ==
  /\ snapshot = Nobody
  /\ \E failing \in SUBSET (Live \ cached) :
       /\ flaky + Cardinality(failing) <= MaxFlaky
       /\ flaky' = flaky + Cardinality(failing)
       /\ cached' = cached \cup (Live \ failing)
       /\ snapshot' = [covers |-> Live, good |-> Live \ failing]
  /\ UNCHANGED <<stageOf, claim, born, clock, creates, cleaned, staleTries>>

\* #assertSchedulingSnapshotCoverage: a run that the snapshot does not know
\* makes it stale; the third stale snapshot ends the worker's cycle.
StaleSnapshot ==
  /\ snapshot # Nobody /\ ~ (Live \subseteq snapshot.covers)
  /\ snapshot' = Nobody
  /\ staleTries' = (staleTries + 1) % 3
  /\ UNCHANGED <<stageOf, claim, born, clock, creates, cleaned, cached, flaky>>

\* The oldest candidate that can be run is leased; without one, nothing is.
LeaseNextEligible ==
  /\ snapshot # Nobody /\ Live \subseteq snapshot.covers
  /\ \/ /\ Cardinality(Leased) < ExecutionWidth
        /\ \E e \in Candidates :
             /\ \A d \in Candidates : Older(e, d)
             /\ claim' = [claim EXCEPT ![e[1]][e[2]] =
                            IF @ = "held" THEN "correcting" ELSE "leased"]
     \/ /\ Cardinality(Leased) >= ExecutionWidth \/ Candidates = {}
        /\ UNCHANGED claim
  /\ snapshot' = Nobody /\ staleTries' = 0
  /\ UNCHANGED <<stageOf, born, clock, creates, cleaned, cached, flaky>>

-----------------------------------------------------------------------------
(* What the runs do.                                                       *)

Move(r, stage, count) ==
  /\ stageOf' = [stageOf EXCEPT ![r] = stage]
  /\ claim' = [claim EXCEPT ![r] =
                 [i \in Items(r) |-> IF i < count THEN "pending" ELSE "none"]]
  /\ born' = [born EXCEPT ![r] = clock + 1]
  /\ clock' = clock + 1

AdmitRun(r) ==
  /\ stageOf[r] = "absent"
  /\ Move(r, "provision", 1)
  /\ UNCHANGED <<creates, cleaned, cached, snapshot, staleTries, flaky>>

\* The leased attempt of a lifecycle stage commits its schedule and gives its
\* lease back; it stays a claim until it is settled.
ScheduleEffects(r) ==
  /\ stageOf[r] \in {"provision", "stop", "cleanup"} /\ claim[r][0] = "leased"
  /\ claim' = [claim EXCEPT ![r][0] = "held"]
  /\ creates' = IF stageOf[r] = "provision"
                THEN [creates EXCEPT ![r] = [k \in SlotsOf(r) |-> "open"]]
                ELSE creates
  /\ UNCHANGED <<stageOf, born, clock, cleaned, cached, snapshot, staleTries,
                 flaky>>

AnswerCreate(r, k) ==
  /\ stageOf[r] = "provision" /\ creates[r][k] = "open"
  /\ \E answer \in {"made", "refused"} :
       creates' = [creates EXCEPT ![r][k] = answer]
  /\ UNCHANGED <<stageOf, claim, born, clock, cleaned, cached, snapshot,
                 staleTries, flaky>>

CleanSlot(r, k) ==
  /\ stageOf[r] = "cleanup" /\ claim[r][0] = "held" /\ k \in Standing(r)
  /\ cleaned' = [cleaned EXCEPT ![r] = @ \cup {k}]
  /\ UNCHANGED <<stageOf, claim, born, clock, creates, cached, snapshot,
                 staleTries, flaky>>

SettleEffects(r) ==
  /\ claim[r][0] = "held"
  /\ \/ /\ stageOf[r] = "provision"
        /\ \A k \in SlotsOf(r) : creates[r][k] # "open"
        /\ IF \A k \in SlotsOf(r) : creates[r][k] = "made"
           THEN Move(r, "work", ItemCount[r])
           ELSE IF Standing(r) = {} THEN Move(r, "ended", 0)
           ELSE Move(r, "stop", 1)
     \/ stageOf[r] = "stop" /\ Move(r, "cleanup", 1)
     \/ stageOf[r] = "cleanup" /\ Standing(r) = {} /\ Move(r, "ended", 0)
  /\ UNCHANGED <<creates, cleaned, cached, snapshot, staleTries, flaky>>

\* A work attempt settles, or asks once for a correction of its result.
FinishItem(r, i) ==
  /\ stageOf[r] = "work" /\ claim[r][i] \in {"leased", "correcting"}
  /\ \/ /\ claim[r][i] = "leased"
        /\ claim' = [claim EXCEPT ![r][i] = "held"]
        /\ UNCHANGED <<stageOf, born, clock>>
     \/ /\ \A j \in Items(r) \ {i} : claim[r][j] = "done"
        /\ Move(r, "stop", 1)
     \/ /\ \E j \in Items(r) \ {i} : claim[r][j] # "done"
        /\ claim' = [claim EXCEPT ![r][i] = "done"]
        /\ UNCHANGED <<stageOf, born, clock>>
  /\ UNCHANGED <<creates, cleaned, cached, snapshot, staleTries, flaky>>

-----------------------------------------------------------------------------
SchedulingInit ==
  /\ stageOf = [r \in Runs |-> "absent"]
  /\ claim = [r \in Runs |-> [i \in Items(r) |-> "none"]]
  /\ born = [r \in Runs |-> 0] /\ clock = 0
  /\ creates = [r \in Runs |-> [k \in SlotsOf(r) |-> "none"]]
  /\ cleaned = [r \in Runs |-> {}]
  /\ cached = {} /\ snapshot = Nobody /\ staleTries = 0 /\ flaky = 0

WorkerStep == ReadSnapshot \/ StaleSnapshot \/ LeaseNextEligible
RunStep(r) == \/ ScheduleEffects(r) \/ SettleEffects(r)
              \/ \E k \in SlotsOf(r) : AnswerCreate(r, k) \/ CleanSlot(r, k)
              \/ \E i \in Items(r) : FinishItem(r, i)

SchedulingNext == WorkerStep \/ \E r \in Runs : RunStep(r) \/ AdmitRun(r)

SchedulingSpec == SchedulingInit /\ [][SchedulingNext]_schedulingVars

\* The worker's cycle comes round, and what is leased or scheduled goes on.
SchedulingFairness == /\ WF_schedulingVars(WorkerStep)
                      /\ \A r \in Runs : WF_schedulingVars(RunStep(r))

FairSchedulingSpec == SchedulingSpec /\ SchedulingFairness

-----------------------------------------------------------------------------
(* Properties.                                                             *)

\* The rows of the runs, and the snapshot and the cache of their manifests.
SchedulingTypeOK ==
  /\ stageOf \in [Runs -> {"absent", "provision", "work", "stop", "cleanup",
                          "ended"}]
  /\ DOMAIN claim = Runs /\ DOMAIN creates = Runs /\ DOMAIN cleaned = Runs
  /\ born \in [Runs -> Nat] /\ clock \in Nat
  /\ \A r \in Runs :
       /\ claim[r] \in [Items(r) -> {"none", "pending", "leased", "held",
                                     "correcting", "done"}]
       /\ creates[r] \in [SlotsOf(r) -> {"none", "open", "made", "refused"}]
       /\ cleaned[r] \subseteq SlotsOf(r)
  /\ cached \subseteq Runs /\ staleTries \in 0 .. 2 /\ flaky \in 0 .. MaxFlaky
  /\ \/ snapshot = Nobody
     \/ /\ snapshot \in [covers : SUBSET Runs, good : SUBSET Runs]
        /\ snapshot.good \subseteq snapshot.covers

\* The sandboxes that stand or may still be created, with the pools of the
\* runs that are about to create theirs, never exceed the provider's capacity.
WithinCapacity == Reserved(Runs) <= ResourceCapacity

\* Two attempts of a run that are claimed at once have a sandbox each.
OneClaimPerSlot ==
  \A r \in Live : \A i, j \in Claims(r) : Slot(r, i) = Slot(r, j) => i = j

\* What scheduling comes to, whatever order runs are admitted in, creates are
\* refused in and manifests resolve in: a run whose pool fits ends; reservations
\* of half-made pools do not lock each other out, and a run that can never be
\* scheduled holds no one.
FittingRunsAreOver ==
  \A r \in Runs :
    PoolSize[r] <= MaxConcurrent => stageOf[r] \in {"absent", "ended"}

\* However claims and provisions interleave, the machine is not oversold and no
\* two attempts share a slot of a pool.
SchedulingSafe ==
    /\ WithinCapacity
    /\ OneClaimPerSlot
=============================================================================
