---------------------------- MODULE InboxIntake ----------------------------
(***************************************************************************)
(* The durable inbox, from a provider's delivery to what it does: rows of  *)
(* inbox_events (kernel-inbox-store.ts) leased by worker cycles            *)
(* (kernel-worker.ts) and handled as an admission (kernel-inbox-handler.ts *)
(* and admitPipelineRun), as a provider's stop (kernel-provider-prompt.ts) *)
(* or as an operator's control (kernel-inbox-router.ts).                   *)
(*                                                                         *)
(* Abstractions.  A row's lease is the worker that took it: a worker has   *)
(* one event at a time, and its fresh lease id and the row's version say   *)
(* no more.  The run of an item is the one resolveRun finds.  A clock is   *)
(* kept only as far as the code compares times: available_at has come or   *)
(* not, and orders the rows that are due; the grace of a stop is over or   *)
(* not; and consumptions are of the same millisecond or not.               *)
(***************************************************************************)
EXTENDS Naturals, FiniteSets

CONSTANTS
    Deliveries,     \* delivery ids
    Items,          \* provider issues
    Kind,           \* what each delivery asks for, one of Kinds
    Item,           \* the issue of each delivery
    Group,          \* event_group_key: the digest of the payload
    Occurred,       \* the provider's time of what each delivery reports
    Github,         \* items that GitHub controls, the others are Linear's
    Authorized,     \* stops whose author may give them
    Fragile,        \* payloads kept as blobs, which can become unreadable
    Workers,
    HeadLimit,      \* KERNEL_INBOX_UNREADABLE_HEAD_LIMIT
    MaxFaults,      \* bound on crashes, slow handlers and remote failures
    None

Kinds == {"admission", "stop", "control", "other", "malformed"}

ASSUME DeliveryAssumption ==
    /\ Kind \in [Deliveries -> Kinds]
    /\ Item \in [Deliveries -> Items]
    /\ Occurred \in [Deliveries -> Nat]
    /\ Github \subseteq Items
    /\ Fragile \subseteq Deliveries

\* Equal groups have equal payloads.
ASSUME GroupAssumption ==
    \A d, e \in Deliveries : Group[d] = Group[e] =>
        Kind[d] = Kind[e] /\ Item[d] = Item[e] /\ Occurred[d] = Occurred[e]

ASSUME BoundAssumption == HeadLimit \in Nat \ {0} /\ MaxFaults \in Nat

ASSUME NoneAssumption == None \notin Deliveries \cup Workers

VARIABLES
    closed,     \* the maintenance fence
    arriving,   \* requests past their first look at the fence
    status,     \* inbox_events.status, "absent" before the row
    lease,      \* lease_id and lease_owner_id
    expired,    \* lease_expires_at has passed
    due,        \* unsettled rows with available_at <= now
    earlier,    \* for a due row, the due rows with a smaller available_at
    corrupt,    \* rows whose payload cannot be read any more
    overdue,    \* stops that wait for longer than the grace
    run,        \* per item: "none", "running" or "ended"
    origin,     \* the admission that made the run
    late,       \* the stops that were overdue when the run was admitted
    coeval,     \* admissions consumed at the run's admitted_at
    present,    \* items admitted in the current millisecond
    ender,      \* history: the delivery that ended the run, or None
    pc, job,    \* per worker: where its handler stands, and with which row
    saw,        \* whether the prompt handler found a run
    outcome,    \* what the handler returned
    faults

rows == <<status, lease, expired, due, earlier>>
runs == <<run, origin, late, coeval, present, ender>>
locals == <<pc, job, saw, outcome>>
world == <<closed, arriving, corrupt, overdue, faults>>
vars == <<rows, runs, locals, world>>

Settled == {"consumed", "stale", "dead"}

Places == {"idle", "handle", "admit", "authorize", "control",
           "retry", "complete"}

Init ==
    /\ closed \in BOOLEAN
    /\ arriving = {} /\ corrupt = {} /\ overdue = {} /\ faults = 0
    /\ status = [d \in Deliveries |-> "absent"]
    /\ lease = [d \in Deliveries |-> None]
    /\ expired = [d \in Deliveries |-> FALSE]
    /\ due = {}
    /\ earlier = [d \in Deliveries |-> {}]
    /\ run = [i \in Items |-> "none"]
    /\ origin = [i \in Items |-> None]
    /\ late = [i \in Items |-> {}]
    /\ coeval = [i \in Items |-> {}]
    /\ present = {}
    /\ ender = [i \in Items |-> None]
    /\ pc = [w \in Workers |-> "idle"]
    /\ job = [w \in Workers |-> None]
    /\ saw = [w \in Workers |-> FALSE]
    /\ outcome = [w \in Workers |-> "none"]

-----------------------------------------------------------------------------
(* Ingress.                                                                *)

\* d's available_at is the latest of the due rows.
EnterDue(d) ==
    /\ due' = due \cup {d}
    /\ earlier' = [earlier EXCEPT ![d] = due]

\* The rows of D are settled, or available again in the future.
LeaveDue(D) ==
    /\ due' = due \ D
    /\ earlier' = [d \in Deliveries |-> IF d \in D THEN {} ELSE earlier[d] \ D]

SetMaintenanceFence ==
    /\ closed' = ~closed
    /\ UNCHANGED <<rows, runs, locals, arriving, corrupt, overdue, faults>>

\* A request passes the first look at the fence.  Control of a run is asked
\* for while the run is active.
Receive(d) ==
    /\ ~closed
    /\ d \notin arriving
    /\ Kind[d] = "control" => run[Item[d]] = "running"
    /\ arriving' = arriving \cup {d}
    /\ UNCHANGED <<rows, runs, locals, closed, corrupt, overdue, faults>>

\* Mutant of HasGroupRow: only rows that are still open count.
HasGroupRowOpen(d) ==
    \E e \in Deliveries :
        Group[e] = Group[d] /\ status[e] \in {"pending", "processing"}

\* A row of the same group: the new one is settled at once.
HasGroupRow(d) ==
    \E e \in Deliveries : Group[e] = Group[d] /\ status[e] # "absent"

\* The transaction of ingest: refused if the fence has been closed meanwhile,
\* a duplicate if the delivery has its row.
Ingest(d) ==
    /\ d \in arriving
    /\ arriving' = arriving \ {d}
    /\ \/ /\ closed \/ status[d] # "absent"
          /\ UNCHANGED rows
       \/ /\ ~closed /\ status[d] = "absent"
          /\ IF HasGroupRow(d)
             THEN /\ status' = [status EXCEPT ![d] = "stale"]
                  /\ UNCHANGED <<due, earlier>>
             ELSE /\ status' = [status EXCEPT ![d] = "pending"]
                  /\ EnterDue(d)
          /\ UNCHANGED <<lease, expired>>
    /\ UNCHANGED <<runs, locals, closed, corrupt, overdue, faults>>

-----------------------------------------------------------------------------
(* Leases.                                                                 *)

\* leaseNext first recovers every expired row, and so offers these too.
Offered ==
    {d \in due : status[d] = "pending" \/ expired[d]}

\* The rows that are offered before d.
Ahead(d) == earlier[d] \cap Offered

RecoveredStatus(d) ==
    IF status[d] = "processing" /\ expired[d] THEN "pending" ELSE status[d]

\* The rows are recovered, those of `dead` are dead letters, and those of
\* `taken` (one or none) are leased to w.
LeaseRows(w, dead, taken) ==
    /\ status' = [d \in Deliveries |->
                    IF d \in dead THEN "dead"
                    ELSE IF d \in taken THEN "processing"
                    ELSE RecoveredStatus(d)]
    /\ lease' = [d \in Deliveries |->
                    IF d \in taken THEN w
                    ELSE IF d \in Offered THEN None ELSE lease[d]]
    /\ expired' = [d \in Deliveries |-> expired[d] /\ d \notin Offered]
    /\ LeaveDue(dead)

\* The first readable row, if it is among those tried.
LeaseNext(w) ==
    /\ pc[w] = "idle"
    /\ \E d \in Offered \ corrupt :
        /\ Ahead(d) \subseteq corrupt
        /\ Cardinality(Ahead(d)) < HeadLimit
        /\ LeaseRows(w, Ahead(d), {d})
        /\ job' = [job EXCEPT ![w] = d]
    /\ pc' = [pc EXCEPT ![w] = "handle"]
    /\ UNCHANGED <<runs, world, saw, outcome>>

\* Mutant of LeaseNone: the exception rolls the dead letters back.
LeaseNoneRollsBack(w) == w \in Workers /\ Offered # {} /\ UNCHANGED vars

\* Nothing readable among the rows tried.
LeaseNone(w) ==
    LET tried == {d \in Offered : Cardinality(Ahead(d)) < HeadLimit}
    IN  /\ pc[w] = "idle"
        /\ tried # {}
        /\ tried \subseteq corrupt
        /\ LeaseRows(w, tried, {})
        /\ UNCHANGED <<runs, world, locals>>

-----------------------------------------------------------------------------
(* Handlers.  `Goto` is the next await; what a handler returns is settled   *)
(* by Complete, an exception is a Retry.                                    *)

Goto(w, place) ==
    /\ pc' = [pc EXCEPT ![w] = place]
    /\ UNCHANGED <<job, saw, outcome>>

Return(w, result) ==
    /\ pc' = [pc EXCEPT ![w] = "complete"]
    /\ outcome' = [outcome EXCEPT ![w] = result]
    /\ UNCHANGED <<job, saw>>

\* An event of no registered route or without the control label asks for
\* nothing; one without the identities it must have is a dead letter.
HandleOther(w) ==
    /\ pc[w] = "handle"
    /\ Kind[job[w]] \in {"other", "malformed"}
    /\ Return(w, IF Kind[job[w]] = "other" THEN "stale" ELSE "dead")
    /\ UNCHANGED <<rows, runs, world>>

\* The admission handler looks for a run of the reference, and goes on to
\* resolve the branch and compile the definitions if there is none.
HandleAdmission(w) ==
    /\ pc[w] = "handle"
    /\ Kind[job[w]] = "admission"
    /\ IF run[Item[job[w]]] # "none"
       THEN Return(w, "consumed")
       ELSE Goto(w, "admit")
    /\ UNCHANGED <<rows, runs, world>>

\* complete and admitPipelineRun are fenced by the lease, not by its expiry.
HoldsLease(w) == lease[job[w]] = w

\* Mutant of ReleaseRow: the lease columns are left as they are.
ReleaseRowOnly(d, result) ==
    /\ status' = [status EXCEPT ![d] = result]
    /\ LeaveDue({d})
    /\ UNCHANGED <<lease, expired>>

\* The holder of row d gives it up with a new status.
ReleaseRow(d, result) ==
    /\ status' = [status EXCEPT ![d] = result]
    /\ lease' = [lease EXCEPT ![d] = None]
    /\ expired' = [expired EXCEPT ![d] = FALSE]
    /\ LeaveDue({d})

\* Mutant of Admit: the event is left to complete.
AdmitAlone(w) ==
    LET d == job[w]
        i == Item[d]
    IN  /\ pc[w] = "admit"
        /\ run[i] = "none"
        /\ run' = [run EXCEPT ![i] = "running"]
        /\ origin' = [origin EXCEPT ![i] = d]
        /\ late' = [late EXCEPT ![i] = overdue]
        /\ coeval' = [coeval EXCEPT ![i] = {d}]
        /\ present' = present \cup {i}
        /\ Return(w, "consumed")
        /\ UNCHANGED <<rows, world, ender>>

\* One transaction: the work item, which is unique per source, its run, and
\* the consumption of the event that asked for it.
Admit(w) ==
    LET d == job[w]
        i == Item[d]
    IN  /\ pc[w] = "admit"
        /\ run[i] = "none"
        /\ HoldsLease(w)
        /\ ReleaseRow(d, "consumed")
        /\ run' = [run EXCEPT ![i] = "running"]
        /\ origin' = [origin EXCEPT ![i] = d]
        /\ late' = [late EXCEPT ![i] = overdue]
        /\ coeval' = [coeval EXCEPT ![i] = {d}]
        /\ present' = present \cup {i}
        /\ Return(w, "consumed")
        /\ UNCHANGED <<world, ender>>

\* The transaction rolls back: the item has a run, or the lease was taken.
AdmitRefused(w) ==
    /\ pc[w] = "admit"
    /\ run[Item[job[w]]] # "none" \/ ~HoldsLease(w)
    /\ Goto(w, "retry")
    /\ UNCHANGED <<rows, runs, world>>

\* A stop of GitHub concerns the run if it was made after the one admission
\* that was consumed when the run was admitted.
FollowsOrigin(d) ==
    LET i == Item[d]
    IN  i \in Github =>
            /\ coeval[i] \cap corrupt = {}
            /\ \E o \in coeval[i] : coeval[i] = {o} /\ Occurred[o] < Occurred[d]

\* Mutant of InTime: a stop of any time is for the run there is.
InTimeOfAnyOrder(d) ==
    IF run[Item[d]] = "none" THEN d \notin overdue ELSE d \notin late[Item[d]]

\* Mutant of InTime: the grace counts up to now, not to the admission.
InTimeByNow(d) ==
    d \notin overdue /\ (run[Item[d]] # "none" => FollowsOrigin(d))

\* What the prompt handler finds out before it asks for the author's rights.
InTime(d) ==
    IF run[Item[d]] = "none" THEN d \notin overdue
    ELSE d \notin late[Item[d]] /\ FollowsOrigin(d)

HandleStop(w) ==
    LET d == job[w]
    IN  /\ pc[w] = "handle"
        /\ Kind[d] = "stop"
        /\ \/ /\ ~InTime(d)
              /\ Return(w, "stale")
           \/ /\ InTime(d)
              /\ pc' = [pc EXCEPT ![w] = "authorize"]
              /\ saw' = [saw EXCEPT ![w] = run[Item[d]] # "none"]
              /\ UNCHANGED <<job, outcome>>
        /\ UNCHANGED <<rows, runs, world>>

\* The author's rights are known (Linear's stops need none); a stop before
\* the admission is an error, and so comes again.
Authorize(w) ==
    LET d == job[w]
    IN  /\ pc[w] = "authorize"
        /\ \/ /\ Item[d] \in Github /\ d \notin Authorized
              /\ Return(w, "stale")
           \/ /\ Item[d] \notin Github \/ d \in Authorized
              /\ \/ ~saw[w] /\ Goto(w, "retry")
                 \/ saw[w] /\ run[Item[d]] = "running" /\ Goto(w, "control")
                 \/ saw[w] /\ run[Item[d]] = "ended" /\ Return(w, "stale")
        /\ UNCHANGED <<rows, runs, world>>

HandleControl(w) ==
    /\ pc[w] = "handle"
    /\ Kind[job[w]] = "control"
    /\ Goto(w, "control")
    /\ UNCHANGED <<rows, runs, world>>

\* requestRunControl.
RunControl(w) ==
    LET i == Item[job[w]]
    IN  /\ pc[w] = "control"
        /\ \/ /\ run[i] = "running"
              /\ run' = [run EXCEPT ![i] = "ended"]
              /\ ender' = [ender EXCEPT ![i] = job[w]]
              /\ Return(w, "consumed")
           \/ /\ run[i] # "running"
              /\ Return(w, "stale")
              /\ UNCHANGED <<run, ender>>
        /\ UNCHANGED <<rows, world, origin, late, coeval, present>>

-----------------------------------------------------------------------------
(* The end of a handler.                                                   *)

Idle(w) ==
    /\ pc' = [pc EXCEPT ![w] = "idle"]
    /\ job' = [job EXCEPT ![w] = None]
    /\ saw' = [saw EXCEPT ![w] = FALSE]
    /\ outcome' = [outcome EXCEPT ![w] = "none"]

\* Settled under the lease; else it is settled already, or the error that
\* the fence does not match is swallowed.
Complete(w) ==
    LET d == job[w]
        i == Item[d]
    IN  /\ pc[w] = "complete"
        /\ IF HoldsLease(w)
           THEN /\ ReleaseRow(d, outcome[w])
                /\ coeval' = IF /\ outcome[w] = "consumed"
                                /\ Kind[d] = "admission"
                                /\ i \in present
                             THEN [coeval EXCEPT ![i] = @ \cup {d}]
                             ELSE coeval
           ELSE UNCHANGED <<rows, coeval>>
        /\ Idle(w)
        /\ UNCHANGED <<world, run, origin, late, present, ender>>

\* The row is pending again, with an available_at in the future.
Retry(w) ==
    LET d == job[w]
    IN  /\ pc[w] = "retry"
        /\ IF HoldsLease(w)
           THEN ReleaseRow(d, "pending")
           ELSE UNCHANGED rows
        /\ Idle(w)
        /\ UNCHANGED <<runs, world>>

-----------------------------------------------------------------------------
(* Faults, and what happens by itself.                                     *)

Fault == faults < MaxFaults /\ faults' = faults + 1

\* Mutant of HandlerThrows: a control that failed is taken as applied.
HandlerThrowsConsumed(w) ==
    /\ pc[w] = "control"
    /\ Fault
    /\ Return(w, "consumed")
    /\ UNCHANGED <<rows, runs, closed, arriving, corrupt, overdue>>

\* A remote call, or the kernel's compare-and-set, fails.
HandlerThrows(w) ==
    /\ \/ pc[w] \in {"admit", "authorize", "control"}
       \/ pc[w] = "handle" /\ Kind[job[w]] = "admission"
    /\ Fault
    /\ Goto(w, "retry")
    /\ UNCHANGED <<rows, runs, closed, arriving, corrupt, overdue>>

Crash(w) ==
    /\ pc[w] # "idle"
    /\ Fault
    /\ Idle(w)
    /\ UNCHANGED <<rows, runs, closed, arriving, corrupt, overdue>>

\* No living worker holds the row.
Orphaned(d) == ~\E w \in Workers : job[w] = d /\ HoldsLease(w)

\* A lease that passes while its holder lives is a fault.
LeaseExpires(d) ==
    /\ status[d] = "processing" /\ ~expired[d]
    /\ expired' = [expired EXCEPT ![d] = TRUE]
    /\ IF Orphaned(d) THEN UNCHANGED faults ELSE Fault
    /\ UNCHANGED <<status, lease, due, earlier, runs, locals,
                   closed, arriving, corrupt, overdue>>

BecomeDue(d) ==
    /\ status[d] = "pending" /\ d \notin due
    /\ EnterDue(d)
    /\ UNCHANGED <<status, lease, expired, runs, locals, world>>

GracePasses(d) ==
    /\ Kind[d] = "stop" /\ status[d] # "absent" /\ d \notin overdue
    /\ overdue' = overdue \cup {d}
    /\ UNCHANGED <<rows, runs, locals, closed, arriving, corrupt, faults>>

Tick ==
    /\ present # {}
    /\ present' = {}
    /\ UNCHANGED <<rows, locals, world, run, origin, late, coeval, ender>>

BlobLost(d) ==
    /\ d \in Fragile \ corrupt /\ status[d] # "absent"
    /\ corrupt' = corrupt \cup {d}
    /\ UNCHANGED <<rows, runs, locals, closed, arriving, overdue, faults>>

\* The run ends by itself.
RunEnds(i) ==
    /\ run[i] = "running"
    /\ run' = [run EXCEPT ![i] = "ended"]
    /\ UNCHANGED <<rows, locals, world, origin, late, coeval, present, ender>>

Handle(w) ==
    \/ HandleOther(w) \/ HandleAdmission(w) \/ Admit(w) \/ AdmitRefused(w)
    \/ HandleStop(w) \/ Authorize(w) \/ HandleControl(w) \/ RunControl(w)
    \/ Complete(w) \/ Retry(w)

Next ==
    \/ SetMaintenanceFence \/ Tick
    \/ \E d \in Deliveries :
        \/ Receive(d) \/ Ingest(d) \/ LeaseExpires(d) \/ BecomeDue(d)
        \/ GracePasses(d) \/ BlobLost(d)
    \/ \E w \in Workers :
        LeaseNext(w) \/ LeaseNone(w) \/ Handle(w)
        \/ HandlerThrows(w) \/ Crash(w)
    \/ \E i \in Items : RunEnds(i)

Spec == Init /\ [][Next]_vars

-----------------------------------------------------------------------------
(* Safety.                                                                 *)

TypeOK ==
    /\ closed \in BOOLEAN
    /\ arriving \subseteq Deliveries
    /\ corrupt \subseteq Deliveries
    /\ overdue \subseteq Deliveries
    /\ faults \in 0..MaxFaults
    /\ status \in [Deliveries -> Settled \cup {"absent", "pending", "processing"}]
    /\ lease \in [Deliveries -> Workers \cup {None}]
    /\ expired \in [Deliveries -> BOOLEAN]
    /\ due \subseteq Deliveries
    /\ earlier \in [Deliveries -> SUBSET Deliveries]
    /\ run \in [Items -> {"none", "running", "ended"}]
    /\ origin \in [Items -> Deliveries \cup {None}]
    /\ late \in [Items -> SUBSET Deliveries]
    /\ coeval \in [Items -> SUBSET Deliveries]
    /\ present \subseteq Items
    /\ ender \in [Items -> Deliveries \cup {None}]
    /\ pc \in [Workers -> Places]
    /\ job \in [Workers -> Deliveries \cup {None}]
    /\ saw \in [Workers -> BOOLEAN]
    /\ outcome \in [Workers -> Settled \cup {"none"}]
    \* a row has a lease exactly while it is processing, which it is due
    /\ \A d \in Deliveries :
        /\ status[d] = "processing" <=> lease[d] # None
        /\ d \in due => status[d] \in {"pending", "processing"}
        /\ status[d] = "processing" => d \in due
        /\ expired[d] => status[d] = "processing"

\* What a delivery asks for is done.
Done(d) ==
    /\ Kind[d] = "admission" => run[Item[d]] # "none"
    /\ Kind[d] \in {"stop", "control"} => run[Item[d]] = "ended"

\* A delivery is consumed when what it asks for is done, however its worker
\* was interrupted or overtaken: the item of a consumed admission has a run,
\* the run of a consumed stop has ended.
ConsumedIsDone == \A d \in Deliveries : status[d] = "consumed" => Done(d)

\* A run is the work of one admission event, which is consumed with it: no
\* row that is still open can be admitted again or be given up afterwards.
RunHasConsumedOrigin ==
    \A i \in Items : run[i] # "none" =>
        /\ origin[i] \in Deliveries
        /\ Kind[origin[i]] = "admission" /\ Item[origin[i]] = i
        /\ status[origin[i]] = "consumed"
        /\ origin[i] \in coeval[i]

\* A stop by comment ends no run but the one it was made for: its author may
\* give it, it was made after the event that was admitted, and that was
\* admitted within the stop's grace.  The checks are several awaits apart.
Timely(d) ==
    LET i == Item[d]
    IN  /\ d \notin late[i]
        /\ i \in Github => Occurred[origin[i]] < Occurred[d]

Justified(d) == Timely(d) /\ (Item[d] \in Github => d \in Authorized)

OnlyJustifiedStopsEnd ==
    \A i \in Items : ender[i] # None =>
        /\ Item[ender[i]] = i
        /\ Kind[ender[i]] \in {"stop", "control"}
        /\ Kind[ender[i]] = "stop" => Justified(ender[i])

-----------------------------------------------------------------------------
(* The inductive invariant behind the safety properties.                   *)

\* What a worker has found out still holds when it acts on it.
Informed(w) ==
    /\ pc[w] = "idle" <=> job[w] = None
    /\ pc[w] # "idle" => status[job[w]] # "absent"
    /\ pc[w] = "admit" => Kind[job[w]] = "admission"
    /\ pc[w] = "authorize" =>
        /\ Kind[job[w]] = "stop"
        /\ saw[w] => run[Item[job[w]]] # "none" /\ Timely(job[w])
    /\ pc[w] = "control" =>
        /\ Kind[job[w]] \in {"stop", "control"}
        /\ run[Item[job[w]]] # "none"
        /\ Kind[job[w]] = "stop" => Justified(job[w])
    /\ pc[w] = "complete" =>
        /\ outcome[w] \in Settled
        /\ outcome[w] = "consumed" =>
            Kind[job[w]] \in {"admission", "stop", "control"} /\ Done(job[w])
        /\ outcome[w] = "stale" => Kind[job[w]] # "admission"

WorkerShape == \A w \in Workers : Informed(w)

\* Control is only asked of an item that has a run.
ControlShape ==
    /\ \A d \in Deliveries :
        Kind[d] = "control" /\ (d \in arriving \/ status[d] # "absent")
            => run[Item[d]] # "none"
    /\ \A i \in Items : ender[i] # None => run[i] = "ended"

IInv ==
    /\ TypeOK /\ WorkerShape /\ ControlShape
    /\ ConsumedIsDone /\ RunHasConsumedOrigin /\ OnlyJustifiedStopsEnd

-----------------------------------------------------------------------------
(* Liveness.  Time passes, the worker's cycles go on, and the faults are    *)
(* finitely many.  Providers need not deliver, nor runs end, nor the fence   *)
(* open.                                                                    *)

Scheduling ==
    /\ WF_vars(Tick)
    /\ \A d \in Deliveries :
        /\ WF_vars(Orphaned(d) /\ LeaseExpires(d))
        /\ WF_vars(BecomeDue(d))
        /\ WF_vars(GracePasses(d))
    /\ \A w \in Workers :
        WF_vars(LeaseNext(w) \/ LeaseNone(w)) /\ WF_vars(Handle(w))

FairSpec == Spec /\ Scheduling

\* Whatever was accepted is settled: behind unreadable rows, behind stops that
\* come again and again, and after the death of its worker.
AcceptedSettles ==
    \A d \in Deliveries : status[d] = "pending" ~> status[d] \in Settled

\* A stop that may be given, has not waited for too long, and was made after
\* the one admission that was consumed in the millisecond of the admission,
\* ends its run, whichever of the two was delivered first.
Effective(d) ==
    LET i == Item[d]
    IN  /\ Kind[d] = "stop" /\ status[d] = "pending"
        /\ run[i] = "running" /\ i \notin present
        /\ d \notin late[i]
        /\ i \in Github => d \in Authorized /\ FollowsOrigin(d)

StopTakesEffect ==
    \A d \in Deliveries :
        Effective(d) ~> \/ run[Item[d]] = "ended"
                        \/ corrupt \cap (coeval[Item[d]] \cup {d}) # {}

\* Events take effect as they are recorded: what is consumed is done, a run comes
\* from the one admission that was consumed with it, and only a stop that may end
\* it ends it.
IntakeSafe ==
    /\ ConsumedIsDone
    /\ RunHasConsumedOrigin
    /\ OnlyJustifiedStopsEnd
=============================================================================
