--------------------------- MODULE EffectDelivery ---------------------------
(***************************************************************************)
(* Delivery of external effects: the rows of the SQLite table "effects"    *)
(* (persistence/kernel-store-leases.ts) and the worker routine that drains *)
(* them (operations/kernel-effects.ts, drainOne), against a provider that  *)
(* loses, delays and executes requests on its own.                         *)
(*                                                                         *)
(* An effect is a write-ahead intent.  A worker leases it, asks the        *)
(* provider whether its target exists already, and only when it does not   *)
(* exist, and no earlier dispatch may have started, persists a dispatch    *)
(* fence and dispatches.  Every await of drainOne is a point at which the  *)
(* process may die, the lease may expire, another worker may take over     *)
(* and the provider may move: each stretch between two awaits is one       *)
(* action here.                                                            *)
(*                                                                         *)
(* Abstractions.  A lease id, a fresh UUID in the code, is any member of   *)
(* Leases that nothing refers to any more; the worker id is the same in    *)
(* every process ("supervisor-primary"), so a fence is its lease id.  The  *)
(* clock is its two observable events, LeaseExpires and BecomeDue.  Row    *)
(* versions are left out: they are read and compared in one transaction.   *)
(***************************************************************************)
EXTENDS Naturals, FiniteSets

CONSTANTS
    Effects,        \* effect ids
    Mutations,      \* effects whose adapter binding is a mutation
    Prepared,       \* mutations with prepareDispatch and a launch fence
    Rejectable,     \* prepared effects an operator may reject
    Workers,        \* worker processes
    Leases,         \* lease ids
    RecoveryBatch,  \* EXPIRED_EFFECT_RECOVERY_BATCH_SIZE
    MaxCrashes,     \* bound on process deaths and aborts
    NoLease, NoEffect

ASSUME EffectKinds ==
    /\ Rejectable \subseteq Prepared
    /\ Prepared \subseteq Mutations
    /\ Mutations \subseteq Effects

ASSUME Nulls == NoLease \notin Leases /\ NoEffect \notin Effects

ASSUME Bounds == RecoveryBatch \in Nat \ {0} /\ MaxCrashes \in Nat

VARIABLES
    \* rows of the effects table
    status,     \* the status column; "none" before the row is inserted
    lease,      \* lease_id
    mode,       \* lease_execution_mode
    fence,      \* dispatch_lease_id
    noted,      \* unknown_detail, or last_error while leased, is not null
    expired,    \* lease_expires_at <= now
    due,        \* effects with available_at <= now
    earlier,    \* for a due effect, the due effects with a smaller available_at
    live,       \* effects whose run is pending or running
    operated,   \* effects whose DeliveryRecord an operator wrote
    \* the worker processes: drainOne's local state
    pc, job, held, jobMode, jobFence, seen,
    crashes,
    \* the provider
    target,     \* what the provider can show of the effect's target
    sent,       \* dispatch requests on their way: <<effect, fence>>
    executions  \* times the provider's mutation entrypoint was entered

row == <<status, lease, mode, fence, noted, expired, due, earlier, operated>>
drain == <<pc, job, held, jobMode, jobFence, seen>>
provider == <<target, sent, executions>>
vars == <<row, live, drain, crashes, provider>>

-----------------------------------------------------------------------------

Observations == Effects \ Mutations
Outcomes == {"confirmed", "rejected"}
Settled == {"acknowledged", "rejected"}

Statuses == {"none", "pending", "processing", "unknown"} \cup Settled
Modes == {"none", "dispatch_or_reconcile", "reconcile_only"}
PCs == {"idle", "observe", "prepare", "mark", "dispatch", "reobserve", "complete"}

TypeOK ==
    /\ status \in [Effects -> Statuses]
    /\ lease \in [Effects -> Leases \cup {NoLease}]
    /\ mode \in [Effects -> Modes]
    /\ fence \in [Effects -> Leases \cup {NoLease}]
    /\ noted \in [Effects -> BOOLEAN]
    /\ expired \in [Effects -> BOOLEAN]
    /\ due \subseteq Effects
    /\ earlier \in [Effects -> SUBSET Effects]
    /\ live \subseteq Effects
    /\ operated \subseteq Effects
    /\ pc \in [Workers -> PCs]
    /\ job \in [Workers -> Effects \cup {NoEffect}]
    /\ held \in [Workers -> Leases \cup {NoLease}]
    /\ jobMode \in [Workers -> Modes]
    /\ jobFence \in [Workers -> Leases \cup {NoLease}]
    /\ seen \in [Workers -> Outcomes \cup {"unknown"}]
    /\ crashes \in 0..MaxCrashes
    /\ target \in [Effects -> Outcomes \cup {"absent"}]
    /\ sent \subseteq Effects \X Leases
    /\ executions \in [Effects -> Nat]

\* No effect has a row, and no process holds anything.
Fresh ==
    /\ status = [e \in Effects |-> "none"]
    /\ lease = [e \in Effects |-> NoLease]
    /\ mode = [e \in Effects |-> "none"]
    /\ fence = [e \in Effects |-> NoLease]
    /\ noted = [e \in Effects |-> FALSE]
    /\ expired = [e \in Effects |-> FALSE]
    /\ due = {}
    /\ earlier = [e \in Effects |-> {}]
    /\ operated = {}
    /\ pc = [w \in Workers |-> "idle"]
    /\ job = [w \in Workers |-> NoEffect]
    /\ held = [w \in Workers |-> NoLease]
    /\ jobMode = [w \in Workers |-> "none"]
    /\ jobFence = [w \in Workers |-> NoLease]
    /\ seen = [w \in Workers |-> "unknown"]
    /\ sent = {}
    /\ executions = [e \in Effects |-> 0]

Init ==
    /\ Fresh
    /\ live = Effects
    /\ crashes = 0
    /\ target = [e \in Effects |-> "absent"]

-----------------------------------------------------------------------------
(* The table.                                                              *)

\* e's available_at is the latest of the due rows
EnterDue(e) ==
    /\ due' = due \cup {e}
    /\ earlier' = [earlier EXCEPT ![e] = due]

\* Mutant of LeaveDue: a hold forgets the backoff and keeps its place.
LeaveDueInPlace(e) == e \in Effects /\ UNCHANGED <<due, earlier>>

\* e's available_at moves into the future, or no longer matters
LeaveDue(e) ==
    /\ due' = due \ {e}
    /\ earlier' = [x \in Effects |-> earlier[x] \ {e}]

\* The transaction of a run's transition inserts the intents it schedules.
Schedule(e) ==
    /\ e \in live
    /\ status[e] = "none"
    /\ status' = [status EXCEPT ![e] = "pending"]
    /\ EnterDue(e)
    /\ UNCHANGED <<lease, mode, fence, noted, expired, live, operated, drain,
                   crashes, provider>>

\* Time passes the retry time of a held effect.
BecomeDue(e) ==
    /\ status[e] = "unknown"
    /\ e \notin due
    /\ EnterDue(e)
    /\ UNCHANGED <<status, lease, mode, fence, noted, expired, live, operated,
                   drain, crashes, provider>>

\* Time passes the expiry of a lease; nothing is written yet.
LeaseExpires(e) ==
    /\ status[e] = "processing"
    /\ ~expired[e]
    /\ expired' = [expired EXCEPT ![e] = TRUE]
    /\ UNCHANGED <<status, lease, mode, fence, noted, due, earlier, live,
                   operated, drain, crashes, provider>>

\* The run of e leaves pending and running (a quarantine keeps its effects).
RunEnds(e) ==
    /\ e \in live
    /\ live' = live \ {e}
    /\ UNCHANGED <<row, drain, crashes, provider>>

\* Lease ids some row, some process or some request still refers to.
UsedLeases ==
    {lease[e] : e \in Effects} \cup {fence[e] : e \in Effects} \cup
    {held[w] : w \in Workers} \cup {s[2] : s \in sent}

\* A batch of expired leases, as large as the LIMIT of the query allows.
RecoverableBatch(R) ==
    LET all == {e \in Effects : status[e] = "processing" /\ expired[e]}
    IN  /\ R \subseteq all
        /\ R # all => Cardinality(R) = RecoveryBatch

\* Mutant of RecoveredStatus: every expired row is offered again.
RecoveredToPending(R) ==
    [e \in Effects |-> IF e \in R THEN "pending" ELSE status[e]]

\* The status recovery leaves: only a row without a dispatch fence and
\* without retained provider-wait detail goes back to pending.
RecoveredStatus(R) ==
    [e \in Effects |->
        IF e \notin R THEN status[e]
        ELSE IF fence[e] # NoLease \/ (e \in Observations /\ noted[e])
             THEN "unknown" ELSE "pending"]

\* Mutant of Leasable: held rows are left to the operator.
LeasablePendingOnly(e, st) == e \in live /\ e \in due /\ st[e] = "pending"

Leasable(e, st) == e \in live /\ e \in due /\ st[e] \in {"pending", "unknown"}

\* The first leasable row in the order of available_at.
NextLeasable(e, st) ==
    /\ Leasable(e, st)
    /\ \A x \in earlier[e] : ~Leasable(x, st)

\* Mutant of ExecutionMode: the retained fence is not consulted.
ExecutionModeUnfenced(e) ==
    IF e \in Effects THEN "dispatch_or_reconcile" ELSE "none"

ExecutionMode(e) ==
    IF fence[e] = NoLease THEN "dispatch_or_reconcile" ELSE "reconcile_only"

\* leaseNextEffect with nothing to lease: the recovery is committed all the same.
RecoverOnly(w) ==
    /\ pc[w] = "idle"
    /\ \E R \in SUBSET Effects :
        /\ R # {}
        /\ RecoverableBatch(R)
        /\ \A e \in Effects : ~Leasable(e, RecoveredStatus(R))
        /\ status' = RecoveredStatus(R)
        /\ lease' = [e \in Effects |-> IF e \in R THEN NoLease ELSE lease[e]]
        /\ mode' = [e \in Effects |-> IF e \in R THEN "none" ELSE mode[e]]
        /\ expired' = [e \in Effects |-> expired[e] /\ e \notin R]
        /\ noted' = [e \in Effects |->
               IF e \in R THEN RecoveredStatus(R)[e] = "unknown" ELSE noted[e]]
    /\ UNCHANGED <<fence, due, earlier, live, operated, drain, crashes, provider>>

\* leaseNextEffect: recover a batch of expired leases, then lease the first
\* eligible row.  The view handed to drainOne is a snapshot of the row.
LeaseNextEffect(w, l) ==
    /\ pc[w] = "idle"
    /\ l \notin UsedLeases
    /\ \E R \in SUBSET Effects, e \in Effects :
        /\ RecoverableBatch(R)
        /\ NextLeasable(e, RecoveredStatus(R))
        /\ status' = [RecoveredStatus(R) EXCEPT ![e] = "processing"]
        /\ lease' = [x \in Effects |->
               IF x = e THEN l ELSE IF x \in R THEN NoLease ELSE lease[x]]
        /\ mode' = [x \in Effects |->
               IF x = e THEN ExecutionMode(e)
               ELSE IF x \in R THEN "none" ELSE mode[x]]
        /\ expired' = [x \in Effects |-> expired[x] /\ x \notin R]
        /\ noted' = [x \in Effects |->
               IF x \in R THEN RecoveredStatus(R)[x] = "unknown" ELSE noted[x]]
        /\ job' = [job EXCEPT ![w] = e]
        /\ jobMode' = [jobMode EXCEPT ![w] = ExecutionMode(e)]
        /\ jobFence' = [jobFence EXCEPT ![w] = fence[e]]
    /\ held' = [held EXCEPT ![w] = l]
    /\ pc' = [pc EXCEPT ![w] = "observe"]
    /\ UNCHANGED <<fence, due, earlier, live, operated, seen, crashes, provider>>

-----------------------------------------------------------------------------
(* drainOne, between its awaits.                                           *)

\* The worker keeps its lease and goes on at place p.
Goto(w, p) ==
    /\ pc' = [pc EXCEPT ![w] = p]
    /\ UNCHANGED <<job, held, jobMode, jobFence>>

\* The worker has its answer and turns to completeLeasedEffect.
Conclude(w, outcome) ==
    /\ Goto(w, "complete")
    /\ seen' = [seen EXCEPT ![w] = outcome]

\* The local state of a process that holds nothing.
Release(w) ==
    /\ pc' = [pc EXCEPT ![w] = "idle"]
    /\ job' = [job EXCEPT ![w] = NoEffect]
    /\ held' = [held EXCEPT ![w] = NoLease]
    /\ jobMode' = [jobMode EXCEPT ![w] = "none"]
    /\ jobFence' = [jobFence EXCEPT ![w] = NoLease]
    /\ seen' = [seen EXCEPT ![w] = "unknown"]

\* Mutants of DispatchNotStarted: an absent target is taken as the proof, and
\* no proof is ever given.
AbsenceIsNotStarted(e, f) == f # NoLease /\ target[e] = "absent"
NeverNotStarted(e, f) == e \in Effects /\ f \notin Leases \cup {NoLease}

\* The adapter proves that the fenced launch never began: a prepared effect
\* with its fence in place, no launch link and no result.
DispatchNotStarted(e, f) ==
    /\ e \in Prepared
    /\ f # NoLease
    /\ target[e] = "absent"
    /\ executions[e] = 0

\* A reconciliation that reaches the provider and the decision taken on it.
Observe(w) ==
    LET e == job[w] IN
    /\ pc[w] = "observe"
    /\ \/ /\ target[e] # "absent"
          /\ Conclude(w, target[e])
       \/ /\ DispatchNotStarted(e, jobFence[w])
          /\ Goto(w, "dispatch")
          /\ UNCHANGED seen
       \/ /\ target[e] = "absent"
          /\ ~DispatchNotStarted(e, jobFence[w])
          /\ IF e \in Observations \/ jobMode[w] = "reconcile_only"
             THEN Conclude(w, "unknown")
             ELSE /\ Goto(w, IF e \in Prepared THEN "prepare" ELSE "mark")
                  /\ UNCHANGED seen
    /\ UNCHANGED <<row, live, crashes, provider>>

\* A reconciliation that ends in "unknown" or "retry", before or after the
\* dispatch, and a preparation that ends in an error.
ObserveFails(w) ==
    /\ pc[w] \in {"observe", "reobserve", "prepare"}
    /\ Conclude(w, "unknown")
    /\ UNCHANGED <<row, live, crashes, provider>>

\* prepareDispatch: the provider holds the PREPARED fence of this lease.
PrepareDispatch(w) ==
    /\ pc[w] = "prepare"
    /\ Goto(w, "mark")
    /\ UNCHANGED <<row, live, seen, crashes, provider>>

\* Mutant of OwnsLease: the lease id is not compared.
OwnsNothing(w) == job[w] \in Effects

\* The row is still processing under the lease the worker was given.
OwnsLease(w) == status[job[w]] = "processing" /\ lease[job[w]] = held[w]

\* Mutants of MarkDispatchStarted: the process keeps its stale snapshot of the
\* fence, and the fence is not persisted.
MarkKeepsSnapshot(w) ==
    /\ pc[w] = "mark"
    /\ OwnsLease(w)
    /\ mode' = [mode EXCEPT ![job[w]] = "reconcile_only"]
    /\ fence' = [fence EXCEPT ![job[w]] = held[w]]
    /\ pc' = [pc EXCEPT ![w] = "dispatch"]
    /\ UNCHANGED <<status, lease, noted, expired, due, earlier, live, operated,
                   job, held, jobMode, jobFence, seen, crashes, provider>>
MarkInMemory(w) ==
    /\ pc[w] = "mark"
    /\ OwnsLease(w)
    /\ pc' = [pc EXCEPT ![w] = "dispatch"]
    /\ jobFence' = [jobFence EXCEPT ![w] = held[w]]
    /\ UNCHANGED <<row, live, job, held, jobMode, seen, crashes, provider>>

\* markLeasedEffectDispatchStarted, and the check of the fence it returns.
MarkDispatchStarted(w) ==
    LET e == job[w] IN
    /\ pc[w] = "mark"
    /\ OwnsLease(w)
    /\ mode[e] = "dispatch_or_reconcile"
    /\ mode' = [mode EXCEPT ![e] = "reconcile_only"]
    /\ fence' = [fence EXCEPT ![e] = held[w]]
    /\ pc' = [pc EXCEPT ![w] = "dispatch"]
    /\ jobFence' = [jobFence EXCEPT ![w] = held[w]]
    /\ UNCHANGED <<status, lease, noted, expired, due, earlier, live, operated,
                   job, held, jobMode, seen, crashes, provider>>

\* adapter.dispatch: the request leaves, whatever becomes of its answer, or
\* the call fails before the request leaves.  drainOne goes on either way.
Dispatch(w) ==
    LET e == job[w] IN
    /\ pc[w] = "dispatch"
    /\ \/ sent' = sent \cup {<<e, jobFence[w]>>}
       \/ UNCHANGED sent
    /\ Goto(w, "reobserve")
    /\ UNCHANGED <<row, live, seen, crashes, target, executions>>

\* Mutant of Reobserve: an answered dispatch counts as success.
ReobserveTrusting(w) ==
    /\ pc[w] = "reobserve"
    /\ Conclude(w, "confirmed")
    /\ UNCHANGED <<row, live, crashes, provider>>

\* The reconciliation after the dispatch: only a target that is there settles.
Reobserve(w) ==
    LET e == job[w] IN
    /\ pc[w] = "reobserve"
    /\ Conclude(w, IF target[e] = "absent" THEN "unknown" ELSE target[e])
    /\ UNCHANGED <<row, live, crashes, provider>>

\* completeLeasedEffect with hold_unknown: release with a retry time ahead.
HoldUnknown(w) ==
    LET e == job[w] IN
    /\ pc[w] = "complete"
    /\ seen[w] = "unknown"
    /\ OwnsLease(w)
    /\ status' = [status EXCEPT ![e] = "unknown"]
    /\ lease' = [lease EXCEPT ![e] = NoLease]
    /\ mode' = [mode EXCEPT ![e] = "none"]
    /\ expired' = [expired EXCEPT ![e] = FALSE]
    /\ noted' = [noted EXCEPT ![e] = TRUE]
    /\ LeaveDue(e)
    /\ Release(w)
    /\ UNCHANGED <<fence, live, operated, crashes, provider>>

DeliveredStatus(outcome) ==
    IF outcome = "confirmed" THEN "acknowledged" ELSE "rejected"

\* completeLeasedEffect with append_delivery: the DeliveryRecord is inserted
\* and the row settled in one transaction.
AppendDelivery(w) ==
    LET e == job[w] IN
    /\ pc[w] = "complete"
    /\ seen[w] \in Outcomes
    /\ OwnsLease(w)
    /\ status' = [status EXCEPT ![e] = DeliveredStatus(seen[w])]
    /\ lease' = [lease EXCEPT ![e] = NoLease]
    /\ mode' = [mode EXCEPT ![e] = "none"]
    /\ expired' = [expired EXCEPT ![e] = FALSE]
    /\ noted' = [noted EXCEPT ![e] = FALSE]
    /\ LeaveDue(e)
    /\ Release(w)
    /\ UNCHANGED <<fence, live, operated, crashes, provider>>

\* "effect lease fence does not match": drainOne throws, the row is untouched.
LeaseLost(w) ==
    /\ pc[w] \in {"mark", "complete"}
    /\ ~OwnsLease(w)
    /\ Release(w)
    /\ UNCHANGED <<row, live, crashes, provider>>

\* The process dies, or the abort signal is seen after an await.
Crash(w) ==
    /\ pc[w] # "idle"
    /\ crashes < MaxCrashes
    /\ crashes' = crashes + 1
    /\ Release(w)
    /\ UNCHANGED <<row, live, provider>>

\* rejectDispatchFencedUnknownEffect: an operator settles a fenced unknown
\* effect without asking the provider.
RejectUnknown(e) ==
    /\ e \in Rejectable
    /\ e \in live
    /\ status[e] = "unknown"
    /\ fence[e] # NoLease
    /\ status' = [status EXCEPT ![e] = "rejected"]
    /\ noted' = [noted EXCEPT ![e] = FALSE]
    /\ operated' = operated \cup {e}
    /\ LeaveDue(e)
    /\ UNCHANGED <<lease, mode, fence, expired, live, drain, crashes, provider>>

-----------------------------------------------------------------------------
(* The provider.                                                           *)

\* A request arrives.  A plain mutation takes effect at once on a target that
\* is not there yet; a prepared one enters the runner only if it makes the
\* launch link and finds no result, and its own result comes later.
Execute(e, f) ==
    /\ <<e, f>> \in sent
    /\ sent' = sent \ {<<e, f>>}
    /\ IF e \in Prepared /\ (executions[e] > 0 \/ target[e] # "absent")
       THEN UNCHANGED <<target, executions>>
       ELSE /\ executions' = [executions EXCEPT ![e] = @ + 1]
            /\ IF e \in Prepared \/ target[e] # "absent"
               THEN UNCHANGED target
               ELSE \E o \in Outcomes : target' = [target EXCEPT ![e] = o]
    /\ UNCHANGED <<row, live, drain, crashes>>

\* A request is lost on its way.
Lose(e, f) ==
    /\ <<e, f>> \in sent
    /\ sent' = sent \ {<<e, f>>}
    /\ UNCHANGED <<row, live, drain, crashes, target, executions>>

\* The awaited fact appears, the target of a plain mutation turns out to be
\* there or out of reach, the launched runner seals its result, or its sandbox
\* is lost, which reads as a rejection even if it was never launched.
TargetAppears(e) ==
    /\ target[e] = "absent"
    /\ \E o \in Outcomes :
        /\ e \in Prepared /\ o = "confirmed" => executions[e] > 0
        /\ e \in Prepared => fence[e] # NoLease
        /\ target' = [target EXCEPT ![e] = o]
    /\ UNCHANGED <<row, live, drain, crashes, sent, executions>>

-----------------------------------------------------------------------------

DrainStep(w) ==
    \/ Observe(w) \/ ObserveFails(w) \/ PrepareDispatch(w)
    \/ MarkDispatchStarted(w) \/ Dispatch(w) \/ Reobserve(w)
    \/ HoldUnknown(w) \/ AppendDelivery(w) \/ LeaseLost(w)

Next ==
    \/ \E e \in Effects :
        \/ Schedule(e) \/ BecomeDue(e) \/ LeaseExpires(e) \/ RunEnds(e)
        \/ RejectUnknown(e) \/ TargetAppears(e)
    \/ \E w \in Workers :
        \/ RecoverOnly(w)
        \/ \E l \in Leases : LeaseNextEffect(w, l)
        \/ Observe(w) \/ ObserveFails(w) \/ PrepareDispatch(w)
        \/ MarkDispatchStarted(w) \/ Dispatch(w) \/ Reobserve(w)
        \/ HoldUnknown(w) \/ AppendDelivery(w) \/ LeaseLost(w)
        \/ Crash(w)
    \/ \E e \in Effects, f \in Leases : Execute(e, f) \/ Lose(e, f)

Spec == Init /\ [][Next]_vars

-----------------------------------------------------------------------------
(* Safety.                                                                 *)

\* Whatever crashes, takeovers, lost answers and operators do, the provider's
\* mutation entrypoint is entered at most once for an effect: "an unknown
\* external outcome is never blindly replayed" (docs/SPEC.md section 8).
AtMostOneExecution == \A e \in Effects : executions[e] <= 1

\* A row that a worker may still dispatch from (pending, or leased in mode
\* dispatch_or_reconcile) has no request on its way and none executed.  This
\* is what the fence, written before the dispatch, is for.
OfferedIsUntouched ==
    \A e \in Effects :
        status[e] = "pending" \/ mode[e] = "dispatch_or_reconcile"
            => executions[e] = 0 /\ \A f \in Leases : <<e, f>> \notin sent

\* Every request that leaves carries the fence the row durably retains, so a
\* restarted worker knows the one directory and key it must reconcile.
RequestsCarryTheFence == \A s \in sent : fence[s[1]] = s[2]

\* A settled row tells the truth about the provider: only an operator may
\* reject what the provider has not rejected.
DeliveryIsTrue ==
    \A e \in Effects :
        /\ status[e] = "acknowledged" => target[e] = "confirmed"
        /\ status[e] = "rejected" => target[e] = "rejected" \/ e \in operated

\* At most one process at a time stands between the durable fence and the
\* dispatch of an effect the provider cannot deduplicate by itself.
SingleDispatcher ==
    \A v, w \in Workers :
        (/\ pc[v] = "dispatch" /\ pc[w] = "dispatch"
         /\ job[v] = job[w] /\ job[v] \notin Prepared) => v = w

\* No step clears or replaces a dispatch fence, and no step touches a settled
\* row: expiry recovery and a late worker included.
FenceAndSettlementArePermanent ==
    [][\A e \in Effects :
        /\ fence[e] # NoLease => fence'[e] = fence[e]
        /\ status[e] \in Settled => status'[e] = status[e]]_vars

-----------------------------------------------------------------------------
(* The inductive invariant behind the safety properties.                   *)

\* The columns of a row agree: the lease columns are set exactly while it is
\* processing, and a row without a fence is the only one offered for dispatch.
RowShape ==
    \A e \in Effects :
        /\ status[e] = "processing" <=> lease[e] # NoLease
        /\ status[e] = "processing" <=> mode[e] # "none"
        /\ status[e] = "processing"
            => (mode[e] = "dispatch_or_reconcile" <=> fence[e] = NoLease)
        /\ status[e] \in {"none", "pending"} => fence[e] = NoLease

\* The local state of a busy worker, against the row it was leased.
WorkerShape ==
    \A w \in Workers : pc[w] # "idle" =>
        /\ job[w] \in Effects
        /\ held[w] \in Leases
        /\ jobMode[w] \in {"dispatch_or_reconcile", "reconcile_only"}
        /\ pc[w] \in {"prepare", "mark", "dispatch"} => job[w] \in Mutations
        /\ pc[w] = "dispatch" \/ jobMode[w] = "reconcile_only"
            => jobFence[w] # NoLease
        /\ pc[w] \in {"observe", "prepare", "mark"}
                /\ jobMode[w] = "dispatch_or_reconcile"
            => jobFence[w] = NoLease
        /\ jobFence[w] # NoLease => fence[job[w]] = jobFence[w]
        /\ pc[w] = "complete" /\ seen[w] \in Outcomes
            => target[job[w]] = seen[w]

\* A mutation without a launch fence spends its one dispatch: the worker about
\* to send, the request on its way and the execution exclude one another.
OneDispatch ==
    \A e \in Effects \ Prepared :
        /\ \A s \in sent : s[1] = e => executions[e] = 0
        /\ \A w \in Workers : pc[w] = "dispatch" /\ job[w] = e =>
            /\ executions[e] = 0
            /\ \A s \in sent : s[1] # e
            /\ \A v \in Workers : pc[v] = "dispatch" /\ job[v] = e => v = w

\* What the provider did, against the fences and the settlements.
WorldShape ==
    /\ \A s \in sent : s[1] \in Mutations /\ fence[s[1]] = s[2]
    /\ operated \subseteq Rejectable
    /\ \A e \in Effects :
        /\ fence[e] = NoLease => executions[e] = 0
        /\ executions[e] <= 1
        /\ e \in Prepared /\ target[e] = "confirmed" => executions[e] = 1

IInv ==
    /\ TypeOK /\ RowShape /\ WorkerShape /\ OneDispatch /\ WorldShape
    /\ DeliveryIsTrue

-----------------------------------------------------------------------------
(* Liveness.  Time passes; the worker runs a drain every interval and a      *)
(* drain that is under way proceeds.                                         *)

Scheduling ==
    /\ \A e \in Effects : WF_vars(LeaseExpires(e)) /\ WF_vars(BecomeDue(e))
    /\ \A w \in Workers :
        /\ WF_vars(RecoverOnly(w) \/ \E l \in Leases : LeaseNextEffect(w, l))
        /\ WF_vars(DrainStep(w))

\* A reconciliation, a preparation and a dispatch tried again and again reach
\* the provider in the end, and the provider serves what reaches it.  Nothing
\* makes a sandbox that was never launched disappear.
ServiceOf(S) ==
    /\ \A e \in S :
        WF_vars((e \in Prepared => executions[e] > 0) /\ TargetAppears(e))
    /\ \A e \in S, f \in Leases : SF_vars(Execute(e, f))
    /\ \A w \in Workers :
        /\ SF_vars(Observe(w))
        /\ SF_vars(PrepareDispatch(w))
        /\ SF_vars(Dispatch(w) /\ <<job[w], jobFence[w]>> \in sent')

ScheduledSpec == Spec /\ Scheduling

FairSpec == ScheduledSpec /\ ServiceOf(Effects)

\* A leasable row is leased in the end however often other rows are held and
\* come back: a hold moves available_at behind every row that is due by then.
NoStarvation == \A e \in Effects : []<>~Leasable(e, status)

\* What stands once and for all: nothing is owed to an effect any more.
Over(e) == status[e] \in Settled \/ e \notin live

\* A prepared effect whose fence is durable settles in the end although the
\* process died between the fence and the dispatch, as launch proof allows the
\* same fenced dispatch to be resumed.
FencedLaunchesSettle ==
    []<>(\A e \in Prepared : fence[e] # NoLease => Over(e))

\* No row waits for an operator without a fence: it is settled, or fenced.
RowsResolve ==
    []<>(\A e \in Effects : status[e] # "none" => Over(e) \/ fence[e] # NoLease)

\* What a row says about its mutation is so: one drain dispatches it, a request
\* carries the fence of its row, a row that is offered was never sent, and a
\* settled row tells what happened at the provider.
DeliverySafe ==
    /\ SingleDispatcher
    /\ RequestsCarryTheFence
    /\ OfferedIsUntouched
    /\ DeliveryIsTrue
=============================================================================
