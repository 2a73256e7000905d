------------------------- MODULE InboxIntakeProofs -------------------------
(***************************************************************************)
(* The safety of InboxIntake for all deliveries, items, workers and        *)
(* bounds, and its implementation of IntakeContract.  Rows and runs only   *)
(* move forward (RowsForward, RunsForward), so that what a worker has      *)
(* found out, and what a settled row stands for, stays true; each part of  *)
(* IInv is then a question of the few actions that write its columns.      *)
(***************************************************************************)
EXTENDS IntakeRefinement, TLAPS

USE NoneAssumption, DeliveryAssumption

-----------------------------------------------------------------------------
(* What a row or a worker is, by its place.                                *)

\* A worker that is not idle has a row.
LEMMA BusyHasJob ==
  ASSUME TypeOK, WorkerShape, NEW w \in Workers, pc[w] # "idle"
  PROVE  job[w] \in Deliveries /\ Item[job[w]] \in Items
BY DEF TypeOK, WorkerShape, Informed

\* The holder of a lease has an open row.
LEMMA HeldIsProcessing ==
  ASSUME TypeOK, WorkerShape, NEW w \in Workers, pc[w] # "idle", HoldsLease(w)
  PROVE  status[job[w]] = "processing" /\ job[w] \in due
BY BusyHasJob DEF HoldsLease, TypeOK

-----------------------------------------------------------------------------
(* Types.                                                                  *)

rowsTyped ==
    /\ status \in [Deliveries -> Settled \cup {"absent", "pending", "processing"}]
    /\ lease \in [Deliveries -> Workers \cup {None}]
    /\ expired \in [Deliveries -> BOOLEAN]
    /\ due \subseteq Deliveries
    /\ earlier \in [Deliveries -> SUBSET Deliveries]
    /\ \A d \in Deliveries :
        /\ status[d] = "processing" <=> lease[d] # None
        /\ d \in due => status[d] \in {"pending", "processing"}
        /\ status[d] = "processing" => d \in due
        /\ expired[d] => status[d] = "processing"

runsTyped ==
    /\ run \in [Items -> {"none", "running", "ended"}]
    /\ origin \in [Items -> Deliveries \cup {None}]
    /\ late \in [Items -> SUBSET Deliveries]
    /\ coeval \in [Items -> SUBSET Deliveries]
    /\ present \subseteq Items
    /\ ender \in [Items -> Deliveries \cup {None}]

localsTyped ==
    /\ pc \in [Workers -> Places]
    /\ job \in [Workers -> Deliveries \cup {None}]
    /\ saw \in [Workers -> BOOLEAN]
    /\ outcome \in [Workers -> Settled \cup {"none"}]

worldTyped ==
    /\ closed \in BOOLEAN
    /\ arriving \subseteq Deliveries
    /\ corrupt \subseteq Deliveries
    /\ overdue \subseteq Deliveries
    /\ faults \in 0..MaxFaults

LEMMA TypeParts == TypeOK <=> rowsTyped /\ runsTyped /\ localsTyped /\ worldTyped
BY DEF TypeOK, rowsTyped, runsTyped, localsTyped, worldTyped

\* The two ways to write rows under a lease.
LEMMA ReleaseTyped ==
  ASSUME rowsTyped, NEW d \in Deliveries, NEW s \in Settled \cup {"pending"},
         ReleaseRow(d, s)
  PROVE  rowsTyped'
BY DEF ReleaseRow, LeaveDue, rowsTyped, Settled

LEMMA LeaseTyped ==
  ASSUME rowsTyped, NEW w \in Workers, NEW dead \in SUBSET Offered,
         NEW taken \in SUBSET Offered, dead \cap taken = {},
         LeaseRows(w, dead, taken)
  PROVE  rowsTyped'
<1>1. status' \in [Deliveries -> Settled \cup {"absent", "pending", "processing"}]
  BY DEF LeaseRows, rowsTyped, RecoveredStatus, Settled
<1>2. /\ lease' \in [Deliveries -> Workers \cup {None}]
      /\ expired' \in [Deliveries -> BOOLEAN]
      /\ due' \subseteq Deliveries
      /\ earlier' \in [Deliveries -> SUBSET Deliveries]
  BY DEF LeaseRows, rowsTyped, Offered, LeaveDue
<1>3. ASSUME NEW d \in Deliveries
      PROVE  /\ status'[d] = "processing" <=> lease'[d] # None
             /\ d \in due' => status'[d] \in {"pending", "processing"}
             /\ status'[d] = "processing" => d \in due'
             /\ expired'[d] => status'[d] = "processing"
  BY DEF LeaseRows, rowsTyped, Offered, LeaveDue, RecoveredStatus, Settled
<1> QED
  BY <1>1, <1>2, <1>3 DEF rowsTyped

\* Leasing gives up unreadable rows that are offered, and takes at most one.
LEMMA LeaseStep ==
  ASSUME NEW w \in Workers, LeaseNext(w) \/ LeaseNone(w)
  PROVE  \E dead \in SUBSET Offered, taken \in SUBSET Offered :
           dead \cap taken = {} /\ LeaseRows(w, dead, taken)
<1>1. CASE LeaseNext(w)
  <2>1. PICK d \in Offered \ corrupt :
          Ahead(d) \subseteq corrupt /\ LeaseRows(w, Ahead(d), {d})
    BY <1>1 DEF LeaseNext
  <2>2. Ahead(d) \in SUBSET Offered /\ {d} \in SUBSET Offered /\ Ahead(d) \cap {d} = {}
    BY <2>1 DEF Ahead
  <2> QED
    BY <2>1, <2>2
<1>2. CASE LeaseNone(w)
  <2> DEFINE tried == {d \in Offered : Cardinality(Ahead(d)) < HeadLimit}
  <2>1. LeaseRows(w, tried, {})
    BY <1>2 DEF LeaseNone
  <2> QED
    BY <2>1
<1> QED
  BY <1>1, <1>2

\* The row of a worker, and what it does with the lease columns.
LEMMA RowMoves ==
  ASSUME TypeOK, WorkerShape, [Next]_vars
  PROVE  \/ UNCHANGED rows
         \/ \E d \in Deliveries :
              \/ Ingest(d) \/ BecomeDue(d)
              \/ LeaseExpires(d)
              \/ /\ status[d] = "processing"
                 /\ \E s \in Settled \cup {"pending"} : ReleaseRow(d, s)
         \/ \E w \in Workers, dead \in SUBSET Offered, taken \in SUBSET Offered :
              dead \cap taken = {} /\ LeaseRows(w, dead, taken)
<1>1. CASE UNCHANGED vars
  BY <1>1 DEF vars
<1>2. CASE SetMaintenanceFence \/ Tick
  BY <1>2 DEF SetMaintenanceFence, Tick
<1>3. ASSUME NEW d \in Deliveries, Receive(d) \/ GracePasses(d) \/ BlobLost(d)
      PROVE  UNCHANGED rows
  BY <1>3 DEF Receive, GracePasses, BlobLost
<1>4. ASSUME NEW i \in Items, RunEnds(i) PROVE UNCHANGED rows
  BY <1>4 DEF RunEnds
<1>5. ASSUME NEW w \in Workers,
             \/ HandleOther(w) \/ HandleAdmission(w) \/ AdmitRefused(w)
             \/ HandleStop(w) \/ Authorize(w) \/ HandleControl(w)
             \/ RunControl(w) \/ HandlerThrows(w) \/ Crash(w)
      PROVE  UNCHANGED rows
  BY <1>5 DEF HandleOther, HandleAdmission, AdmitRefused, HandleStop, Authorize,
     HandleControl, RunControl, HandlerThrows, Crash
<1>6. ASSUME NEW w \in Workers, Admit(w) \/ Complete(w) \/ Retry(w)
      PROVE  \/ UNCHANGED rows
             \/ /\ job[w] \in Deliveries /\ status[job[w]] = "processing"
                /\ \E s \in Settled \cup {"pending"} : ReleaseRow(job[w], s)
  <2>1. pc[w] # "idle"
    BY <1>6 DEF Admit, Complete, Retry
  <2>2. job[w] \in Deliveries /\ (HoldsLease(w) => status[job[w]] = "processing")
    BY <2>1, BusyHasJob, HeldIsProcessing
  <2>3. CASE Admit(w)
    BY <2>2, <2>3 DEF Admit, Settled
  <2>4. CASE Complete(w)
    BY <2>2, <2>4 DEF Complete, WorkerShape, Informed
  <2>5. CASE Retry(w)
    BY <2>2, <2>5 DEF Retry
  <2> QED
    BY <1>6, <2>3, <2>4, <2>5
<1> QED
  BY <1>1, <1>2, <1>3, <1>4, <1>5, <1>6, LeaseStep DEF Next, Handle

LEMMA RowsTypeStep ==
  ASSUME TypeOK, WorkerShape, [Next]_vars
  PROVE  rowsTyped'
<1> rowsTyped
  BY TypeParts
<1>1. CASE UNCHANGED rows
  BY <1>1 DEF rows, rowsTyped
<1>2. ASSUME NEW d \in Deliveries, Ingest(d) PROVE rowsTyped'
  BY <1>2 DEF Ingest, EnterDue, rows, rowsTyped, Settled
<1>3. ASSUME NEW d \in Deliveries, BecomeDue(d) PROVE rowsTyped'
  BY <1>3 DEF BecomeDue, EnterDue, rowsTyped
<1>4. ASSUME NEW d \in Deliveries, LeaseExpires(d) PROVE rowsTyped'
  BY <1>4 DEF LeaseExpires, rowsTyped
<1> QED
  BY <1>1, <1>2, <1>3, <1>4, RowMoves, ReleaseTyped, LeaseTyped

\* A run is made by an admission, and is ended by itself or by control.
LEMMA RunsTypeStep ==
  ASSUME TypeOK, WorkerShape, [Next]_vars
  PROVE  runsTyped'
<1> runsTyped /\ rowsTyped /\ worldTyped
  BY TypeParts
<1>1. CASE UNCHANGED runs
  BY <1>1 DEF runs, runsTyped
<1>2. ASSUME NEW w \in Workers, Admit(w) PROVE runsTyped'
  <2>1. job[w] \in Deliveries /\ Item[job[w]] \in Items
    BY <1>2, BusyHasJob DEF Admit
  <2> QED
    BY <1>2, <2>1 DEF Admit, runsTyped, worldTyped
<1>3. ASSUME NEW w \in Workers, RunControl(w) PROVE runsTyped'
  <2>1. job[w] \in Deliveries /\ Item[job[w]] \in Items
    BY <1>3, BusyHasJob DEF RunControl
  <2> QED
    BY <1>3, <2>1 DEF RunControl, runsTyped
<1>4. ASSUME NEW w \in Workers, Complete(w) PROVE runsTyped'
  <2>1. job[w] \in Deliveries /\ Item[job[w]] \in Items
    BY <1>4, BusyHasJob DEF Complete
  <2>2. /\ coeval' \in [Items -> SUBSET Deliveries]
        /\ UNCHANGED <<run, origin, late, present, ender>>
    BY <1>4, <2>1 DEF Complete, runsTyped
  <2> QED
    BY <2>2 DEF runsTyped
<1>5. ASSUME NEW i \in Items, RunEnds(i) PROVE runsTyped'
  BY <1>5 DEF RunEnds, runsTyped
<1>6. CASE Tick
  BY <1>6 DEF Tick, runsTyped
<1> QED
  BY <1>1, <1>2, <1>3, <1>4, <1>5, <1>6 DEF Next, Handle, vars,
     SetMaintenanceFence, Receive, Ingest, LeaseExpires, BecomeDue,
     GracePasses, BlobLost, LeaseNext, LeaseNone, HandleOther, HandleAdmission,
     AdmitRefused, HandleStop, Authorize, HandleControl, Retry, HandlerThrows,
     Crash

LEMMA LocalsTypeStep ==
  ASSUME TypeOK, WorkerShape, [Next]_vars
  PROVE  localsTyped'
<1> localsTyped
  BY TypeParts
<1> USE DEF localsTyped, Places, Settled
<1>1. CASE UNCHANGED locals
  BY <1>1 DEF locals
<1>2. ASSUME NEW w \in Workers, NEW place \in Places, Goto(w, place)
      PROVE  localsTyped'
  BY <1>2 DEF Goto
<1>3. ASSUME NEW w \in Workers, NEW result \in Settled, Return(w, result)
      PROVE  localsTyped'
  BY <1>3 DEF Return
<1>4. ASSUME NEW w \in Workers, Idle(w) PROVE localsTyped'
  BY <1>4 DEF Idle
<1>5. ASSUME NEW w \in Workers, LeaseNext(w) PROVE localsTyped'
  BY <1>5 DEF LeaseNext, Offered, TypeOK
<1>6. ASSUME NEW w \in Workers, HandleStop(w) PROVE localsTyped'
  BY <1>3, <1>6 DEF HandleStop
<1>7. ASSUME NEW w \in Workers, Handle(w) \/ HandlerThrows(w) \/ Crash(w)
      PROVE  localsTyped'
  BY <1>2, <1>3, <1>4, <1>6, <1>7 DEF Handle, HandlerThrows, Crash, HandleOther,
     HandleAdmission, Admit, AdmitRefused, Authorize, HandleControl, RunControl,
     Complete, Retry
<1> QED
  BY <1>1, <1>5, <1>7 DEF Next, vars, SetMaintenanceFence, Tick, Receive, Ingest,
     LeaseExpires, BecomeDue, GracePasses, BlobLost, LeaseNone, RunEnds

LEMMA WorldTypeStep ==
  ASSUME TypeOK, [Next]_vars
  PROVE  worldTyped'
<1> worldTyped
  BY TypeParts
<1> USE DEF worldTyped
<1>1. CASE UNCHANGED world
  BY <1>1 DEF world
<1>2. CASE SetMaintenanceFence
  BY <1>2 DEF SetMaintenanceFence
<1>3. ASSUME NEW d \in Deliveries,
             \/ Receive(d) \/ Ingest(d) \/ GracePasses(d) \/ BlobLost(d)
      PROVE  worldTyped'
  BY <1>3 DEF Receive, Ingest, GracePasses, BlobLost
<1>4. Fault => faults' \in 0..MaxFaults
  BY BoundAssumption DEF Fault
<1>5. ASSUME NEW d \in Deliveries, LeaseExpires(d) PROVE worldTyped'
  BY <1>4, <1>5 DEF LeaseExpires
<1>6. ASSUME NEW w \in Workers, HandlerThrows(w) \/ Crash(w) PROVE worldTyped'
  BY <1>4, <1>6 DEF HandlerThrows, Crash
<1> QED
  BY <1>1, <1>2, <1>3, <1>5, <1>6 DEF Next, Handle, vars, Tick, BecomeDue,
     LeaseNext, LeaseNone, RunEnds, HandleOther, HandleAdmission, Admit,
     AdmitRefused, HandleStop, Authorize, HandleControl, RunControl, Complete,
     Retry

LEMMA TypeStep ==
  ASSUME TypeOK, WorkerShape, [Next]_vars
  PROVE  TypeOK'
<1>1. rowsTyped' /\ runsTyped' /\ localsTyped' /\ worldTyped'
  BY RowsTypeStep, RunsTypeStep, LocalsTypeStep, WorldTypeStep
<1> QED
  BY <1>1 DEF TypeOK, rowsTyped, runsTyped, localsTyped, worldTyped

-----------------------------------------------------------------------------
(* Forward.                                                                *)

\* A row stays, and stays settled as it is; a row that enters was arriving.
LEMMA RowsForward ==
  ASSUME TypeOK, WorkerShape, [Next]_vars, NEW d \in Deliveries
  PROVE  /\ status[d] # "absent" => status'[d] # "absent"
         /\ status[d] \in Settled => status'[d] = status[d]
         /\ status[d] = "absent" => status'[d] = "absent" \/ d \in arriving
<1> rowsTyped
  BY TypeParts
<1>1. CASE UNCHANGED rows
  BY <1>1 DEF rows
<1>2. ASSUME NEW e \in Deliveries, Ingest(e) \/ BecomeDue(e) \/ LeaseExpires(e)
      PROVE  /\ status[d] # "absent" => status'[d] = status[d]
             /\ status[d] = "absent" => status'[d] = "absent" \/ d \in arriving
  BY <1>2 DEF Ingest, BecomeDue, LeaseExpires, rows, rowsTyped, Settled
<1>3. ASSUME NEW e \in Deliveries, status[e] = "processing",
             NEW s \in Settled \cup {"pending"}, ReleaseRow(e, s)
      PROVE  \/ status'[d] = status[d]
             \/ status[d] = "processing" /\ status'[d] = s
  BY <1>3 DEF ReleaseRow, rowsTyped
<1>4. ASSUME NEW w \in Workers, NEW dead \in SUBSET Offered,
             NEW taken \in SUBSET Offered, LeaseRows(w, dead, taken)
      PROVE  \/ status'[d] = status[d]
             \/ /\ status[d] \in {"pending", "processing"}
                /\ status'[d] # "absent"
  BY <1>4 DEF LeaseRows, RecoveredStatus, Offered, rowsTyped
<1> QED
  BY <1>1, <1>2, <1>3, <1>4, RowMoves DEF Settled

\* A run stays made, with its origin, and stays ended.
LEMMA RunsForward ==
  ASSUME TypeOK, WorkerShape, [Next]_vars, NEW i \in Items, run[i] # "none"
  PROVE  /\ run'[i] # "none"
         /\ run[i] = "ended" => run'[i] = "ended"
         /\ origin'[i] = origin[i] /\ late'[i] = late[i]
         /\ coeval[i] \subseteq coeval'[i]
<1> runsTyped
  BY TypeParts
<1>1. CASE UNCHANGED runs
  BY <1>1 DEF runs
<1>2. ASSUME NEW w \in Workers, Admit(w)
      PROVE  /\ UNCHANGED <<run[i], origin[i], late[i], coeval[i]>>
  BY <1>2 DEF Admit, runsTyped
<1>3. ASSUME NEW w \in Workers, RunControl(w)
      PROVE  /\ run'[i] = run[i] \/ run'[i] = "ended"
             /\ UNCHANGED <<origin, late, coeval>>
  BY <1>3 DEF RunControl, runsTyped
<1>4. ASSUME NEW w \in Workers, Complete(w)
      PROVE  UNCHANGED <<run, origin, late>> /\ coeval[i] \subseteq coeval'[i]
  BY <1>4 DEF Complete, runsTyped
<1>5. ASSUME NEW j \in Items, RunEnds(j)
      PROVE  /\ run'[i] = run[i] \/ run'[i] = "ended"
             /\ UNCHANGED <<origin, late, coeval>>
  BY <1>5 DEF RunEnds, runsTyped
<1>6. CASE Tick
  BY <1>6 DEF Tick
<1> QED
  BY <1>1, <1>2, <1>3, <1>4, <1>5, <1>6 DEF Next, Handle, vars,
     SetMaintenanceFence, Receive, Ingest, LeaseExpires, BecomeDue,
     GracePasses, BlobLost, LeaseNext, LeaseNone, HandleOther, HandleAdmission,
     AdmitRefused, HandleStop, Authorize, HandleControl, Retry, HandlerThrows,
     Crash

\* So what has been done stays done, and a stop justified.
LEMMA DoneForward ==
  ASSUME TypeOK, WorkerShape, [Next]_vars, NEW d \in Deliveries, Done(d)
  PROVE  Done(d)'
BY RunsForward DEF Done, Kinds

LEMMA TimelyForward ==
  ASSUME TypeOK, WorkerShape, [Next]_vars, NEW d \in Deliveries,
         run[Item[d]] # "none", Timely(d)
  PROVE  Timely(d)' /\ (Justified(d) => Justified(d)')
BY RunsForward DEF Timely, Justified

-----------------------------------------------------------------------------
(* The parts of IInv.                                                      *)

\* Only an admission and a completion consume a row.
LEMMA Consumption ==
  ASSUME TypeOK, WorkerShape, [Next]_vars, NEW d \in Deliveries,
         status[d] # "consumed", status'[d] = "consumed"
  PROVE  \E w \in Workers :
           /\ job[w] = d
           /\ Admit(w) \/ (Complete(w) /\ outcome[w] = "consumed")
<1> rowsTyped
  BY TypeParts
<1>1. CASE UNCHANGED rows
  BY <1>1 DEF rows
<1>2. ASSUME NEW e \in Deliveries, Ingest(e) \/ BecomeDue(e) \/ LeaseExpires(e)
      PROVE  FALSE
  BY <1>2 DEF Ingest, BecomeDue, LeaseExpires, rows, rowsTyped
<1>3. ASSUME NEW w \in Workers, LeaseNext(w) \/ LeaseNone(w) PROVE FALSE
  <2>1. PICK dead \in SUBSET Offered, taken \in SUBSET Offered :
          LeaseRows(w, dead, taken)
    BY <1>3, LeaseStep
  <2> QED
    BY <2>1 DEF LeaseRows, RecoveredStatus, rowsTyped
<1>4. ASSUME NEW w \in Workers, Admit(w) PROVE job[w] = d
  <2>1. job[w] \in Deliveries
    BY <1>4, BusyHasJob DEF Admit
  <2> QED
    BY <1>4, <2>1 DEF Admit, ReleaseRow, rowsTyped
<1>5. ASSUME NEW w \in Workers, Complete(w)
      PROVE  job[w] = d /\ outcome[w] = "consumed"
  <2>1. job[w] \in Deliveries
    BY <1>5, BusyHasJob DEF Complete
  <2> QED
    BY <1>5, <2>1 DEF Complete, ReleaseRow, rows, rowsTyped
<1>6. ASSUME NEW w \in Workers, Retry(w) PROVE FALSE
  <2>1. job[w] \in Deliveries
    BY <1>6, BusyHasJob DEF Retry
  <2> QED
    BY <1>6, <2>1 DEF Retry, ReleaseRow, rows, rowsTyped
<1> QED
  BY <1>1, <1>2, <1>3, <1>4, <1>5, <1>6 DEF Next, Handle, vars,
     SetMaintenanceFence, Tick, Receive, GracePasses, BlobLost, RunEnds,
     HandleOther, HandleAdmission, AdmitRefused, HandleStop, Authorize,
     HandleControl, RunControl, HandlerThrows, Crash

\* A worker admits its own item, which gets the run.
LEMMA AdmissionDone ==
  ASSUME TypeOK, WorkerShape, NEW w \in Workers, Admit(w)
  PROVE  /\ job[w] \in Deliveries /\ Kind[job[w]] = "admission"
         /\ run'[Item[job[w]]] = "running"
         /\ origin'[Item[job[w]]] = job[w]
         /\ coeval'[Item[job[w]]] = {job[w]}
         /\ status'[job[w]] = "consumed"
<1>1. job[w] \in Deliveries /\ Item[job[w]] \in Items
  BY BusyHasJob DEF Admit
<1>2. Kind[job[w]] = "admission"
  BY DEF Admit, WorkerShape, Informed
<1> QED
  BY <1>1, <1>2 DEF Admit, ReleaseRow, TypeOK

LEMMA ConsumedStep ==
  ASSUME IInv, [Next]_vars
  PROVE  ConsumedIsDone'
<1> TypeOK /\ WorkerShape /\ ConsumedIsDone
  BY DEF IInv
<1> SUFFICES ASSUME NEW d \in Deliveries, status'[d] = "consumed"
             PROVE  Done(d)'
  BY DEF ConsumedIsDone
<1>1. CASE status[d] = "consumed"
  BY <1>1, DoneForward DEF ConsumedIsDone
<1>2. ASSUME NEW w \in Workers, job[w] = d, Admit(w) PROVE Done(d)'
  BY <1>2, AdmissionDone DEF Done
<1>3. ASSUME NEW w \in Workers, job[w] = d, Complete(w), outcome[w] = "consumed"
      PROVE  Done(d)'
  BY <1>3, DoneForward DEF Complete, WorkerShape, Informed
<1> QED
  BY <1>1, <1>2, <1>3, Consumption

LEMMA OriginStep ==
  ASSUME IInv, [Next]_vars
  PROVE  RunHasConsumedOrigin'
<1> TypeOK /\ WorkerShape /\ RunHasConsumedOrigin /\ runsTyped
  BY TypeParts DEF IInv
<1> SUFFICES ASSUME NEW i \in Items, run'[i] # "none"
             PROVE  /\ origin'[i] \in Deliveries
                    /\ Kind[origin'[i]] = "admission" /\ Item[origin'[i]] = i
                    /\ status'[origin'[i]] = "consumed"
                    /\ origin'[i] \in coeval'[i]
  BY DEF RunHasConsumedOrigin
<1>1. CASE run[i] # "none"
  <2>1. origin'[i] = origin[i] /\ coeval[i] \subseteq coeval'[i]
    BY <1>1, RunsForward
  <2>2. origin[i] \in Deliveries /\ status[origin[i]] = "consumed"
    BY <1>1 DEF RunHasConsumedOrigin
  <2>3. status'[origin[i]] = "consumed"
    BY <2>2, RowsForward DEF Settled
  <2> QED
    BY <1>1, <2>1, <2>2, <2>3 DEF RunHasConsumedOrigin
<1>2. CASE run[i] = "none"
  <2>1. PICK w \in Workers : Admit(w)
    <3>1. \A w \in Workers : RunControl(w) => run'[i] = "none"
      BY <1>2 DEF RunControl, runsTyped
    <3>2. \A j \in Items : RunEnds(j) => run'[i] = "none"
      BY <1>2 DEF RunEnds, runsTyped
    <3> QED
      BY <1>2, <3>1, <3>2 DEF Next, Handle, vars, runs, SetMaintenanceFence, Tick,
         Receive, Ingest, LeaseExpires, BecomeDue, GracePasses, BlobLost,
         LeaseNext, LeaseNone, HandleOther, HandleAdmission, AdmitRefused,
         HandleStop, Authorize, HandleControl, Complete, Retry, HandlerThrows,
         Crash
  <2>2. i = Item[job[w]]
    BY <1>2, <2>1, BusyHasJob DEF Admit, runsTyped
  <2> QED
    BY <2>1, <2>2, AdmissionDone
<1> QED
  BY <1>1, <1>2

LEMMA StopsStep ==
  ASSUME IInv, [Next]_vars
  PROVE  /\ OnlyJustifiedStopsEnd'
         /\ \A i \in Items : ender'[i] # None => run'[i] = "ended"
<1> /\ TypeOK /\ WorkerShape /\ ControlShape /\ OnlyJustifiedStopsEnd
    /\ runsTyped /\ runsTyped'
  BY TypeParts, RunsTypeStep DEF IInv
<1> SUFFICES ASSUME NEW i \in Items, NEW d \in Deliveries, ender'[i] = d
             PROVE  /\ run'[i] = "ended" /\ Item[d] = i
                    /\ Kind[d] \in {"stop", "control"}
                    /\ Kind[d] = "stop" => Justified(d)'
  BY DEF OnlyJustifiedStopsEnd, runsTyped, Justified, Timely
<1>1. CASE ender[i] = d
  <2>1. run[i] = "ended" /\ Item[d] = i
    BY <1>1 DEF ControlShape, OnlyJustifiedStopsEnd
  <2> QED
    BY <1>1, <2>1, RunsForward, TimelyForward DEF OnlyJustifiedStopsEnd, Justified
<1>2. CASE ender[i] # d
  <2>1. PICK w \in Workers : RunControl(w)
    BY <1>2 DEF Next, Handle, vars, runs, SetMaintenanceFence, Tick, Receive,
       Ingest, LeaseExpires, BecomeDue, GracePasses, BlobLost, LeaseNext,
       LeaseNone, HandleOther, HandleAdmission, Admit, AdmitRefused, HandleStop,
       Authorize, HandleControl, Complete, Retry, RunEnds, HandlerThrows, Crash
  <2>2. job[w] = d /\ Item[d] = i
    BY <1>2, <2>1, BusyHasJob DEF RunControl, runsTyped
  <2>3. run'[i] = "ended"
    BY <1>2, <2>1, <2>2 DEF RunControl, runsTyped
  <2>4. /\ Kind[d] \in {"stop", "control"} /\ run[i] # "none"
        /\ Kind[d] = "stop" => Justified(d)
    BY <2>1, <2>2 DEF RunControl, WorkerShape, Informed
  <2> QED
    BY <2>2, <2>3, <2>4, TimelyForward DEF Justified
<1> QED
  BY <1>1, <1>2

LEMMA ControlStep ==
  ASSUME IInv, [Next]_vars
  PROVE  ControlShape'
<1> TypeOK /\ WorkerShape /\ ControlShape
  BY DEF IInv
<1>1. ASSUME NEW d \in Deliveries, Kind[d] = "control",
             d \in arriving' \/ status'[d] # "absent"
      PROVE  run'[Item[d]] # "none"
  <2>1. d \in arriving \/ status[d] # "absent" \/ Receive(d)
    <3>1. d \in arriving' => d \in arriving \/ Receive(d)
      BY DEF Next, Handle, vars, world, SetMaintenanceFence, Tick,
         Receive, Ingest, LeaseExpires, BecomeDue, GracePasses, BlobLost,
         LeaseNext, LeaseNone, RunEnds, HandleOther, HandleAdmission, Admit,
         AdmitRefused, HandleStop, Authorize, HandleControl, RunControl,
         Complete, Retry, HandlerThrows, Crash
    <3> QED
      BY <1>1, <3>1, RowsForward
  <2>2. run[Item[d]] # "none"
    BY <1>1, <2>1 DEF ControlShape, Receive
  <2> QED
    BY <2>2, RunsForward
<1> QED
  BY <1>1, StopsStep DEF ControlShape

\* What a worker knows stays true while others act.
LEMMA KeepsInformed ==
  ASSUME IInv, [Next]_vars, NEW w \in Workers,
         UNCHANGED <<pc[w], job[w], saw[w], outcome[w]>>
  PROVE  Informed(w)'
<1> TypeOK /\ WorkerShape /\ Informed(w)
  BY DEF IInv, WorkerShape
<1>1. CASE pc[w] = "idle"
  BY <1>1 DEF Informed
<1>2. CASE pc[w] # "idle"
  <2> DEFINE d == job[w]
  <2>1. d \in Deliveries /\ d' = d
    BY <1>2, BusyHasJob
  <2>2. status'[d] # "absent"
    BY <1>2, <2>1, RowsForward DEF Informed
  <2>3. run[Item[d]] # "none" =>
          /\ run'[Item[d]] # "none"
          /\ Timely(d) => Timely(d)' /\ (Justified(d) => Justified(d)')
    BY <2>1, RunsForward, TimelyForward
  <2>4. Done(d) => Done(d)'
    BY <2>1, DoneForward
  <2> QED
    BY <1>2, <2>1, <2>2, <2>3, <2>4 DEF Informed, Justified
<1> QED
  BY <1>1, <1>2

\* A worker that gets on knows what it needs there.
LEMMA ActsInformed ==
  ASSUME IInv, [Next]_vars, NEW w \in Workers,
         LeaseNext(w) \/ Handle(w) \/ HandlerThrows(w) \/ Crash(w)
  PROVE  Informed(w)'
<1> DEFINE d == job[w]
<1> /\ TypeOK /\ WorkerShape /\ Informed(w) /\ ControlShape
    /\ RunHasConsumedOrigin /\ localsTyped /\ runsTyped /\ rowsTyped
  BY TypeParts DEF IInv, WorkerShape
<1>1. CASE LeaseNext(w)
  <2>1. PICK e \in Offered :
          LeaseRows(w, Ahead(e), {e}) /\ job' = [job EXCEPT ![w] = e]
          /\ Ahead(e) \subseteq corrupt /\ e \notin corrupt
    BY <1>1 DEF LeaseNext
  <2>2. e \in Deliveries /\ status'[e] = "processing"
    BY <2>1 DEF LeaseRows, Offered, rowsTyped
  <2> QED
    BY <1>1, <2>1, <2>2 DEF LeaseNext, Informed, localsTyped
<1>2. ASSUME pc[w] # "idle" PROVE /\ d \in Deliveries /\ status'[d] # "absent"
                                  /\ Item[d] \in Items /\ d # None
  BY <1>2, BusyHasJob, RowsForward DEF Informed
<1>3. ASSUME Idle(w) PROVE Informed(w)'
  BY <1>3 DEF Idle, Informed, localsTyped
<1>4. ASSUME pc[w] # "idle", Goto(w, "retry") PROVE Informed(w)'
  BY <1>2, <1>4 DEF Goto, Informed, localsTyped
<1>5. ASSUME pc[w] # "idle", NEW result \in Settled, Return(w, result),
             result = "consumed" =>
                Kind[d] \in {"admission", "stop", "control"} /\ Done(d)',
             result = "stale" => Kind[d] # "admission"
      PROVE  Informed(w)'
  <2>1. /\ pc'[w] = "complete" /\ job'[w] = d /\ outcome'[w] = result
        /\ job' = job
    BY <1>5 DEF Return, localsTyped
  <2> QED
    BY <1>2, <1>5, <2>1 DEF Informed, Done
<1>6. CASE HandleOther(w)
  BY <1>5, <1>6 DEF HandleOther, Settled
<1>7. CASE HandleAdmission(w)
  <2>1. CASE run[Item[d]] # "none"
    <3>1. /\ pc[w] # "idle" /\ Kind[d] = "admission" /\ Done(d)
          /\ Return(w, "consumed")
      BY <1>7, <2>1 DEF HandleAdmission, Done
    <3>2. Done(d)'
      BY <1>2, <3>1, DoneForward DEF Return, Done
    <3> QED
      BY <1>5, <3>1, <3>2 DEF Settled
  <2>2. CASE run[Item[d]] = "none"
    BY <1>2, <1>7, <2>2 DEF HandleAdmission, Goto, Informed, localsTyped
  <2> QED
    BY <2>1, <2>2, <1>2, <1>7 DEF HandleAdmission, runsTyped
<1>8. CASE Admit(w)
  <2>1. Done(d)'
    BY <1>8, AdmissionDone DEF Done, Admit, Return
  <2> QED
    BY <1>5, <1>8, <2>1, AdmissionDone DEF Admit, Settled
<1>9. CASE AdmitRefused(w)
  BY <1>4, <1>9 DEF AdmitRefused
<1>10. CASE HandleStop(w)
  <2>1. pc[w] # "idle" /\ Kind[d] = "stop"
    BY <1>10 DEF HandleStop
  <2>2. CASE Return(w, "stale")
    BY <1>5, <2>1, <2>2 DEF Settled
  <2>3. CASE /\ InTime(d)
             /\ pc' = [pc EXCEPT ![w] = "authorize"]
             /\ saw' = [saw EXCEPT ![w] = run[Item[d]] # "none"]
             /\ UNCHANGED <<job, outcome>>
    <3>1. run[Item[d]] # "none" => Timely(d)
      BY <1>2, <2>1, <2>3 DEF InTime, FollowsOrigin, Timely, RunHasConsumedOrigin
    <3>2. /\ pc'[w] = "authorize" /\ job'[w] = d /\ job' = job
          /\ saw'[w] = (run[Item[d]] # "none")
      BY <2>3 DEF localsTyped
    <3>3. run' = run /\ origin' = origin /\ late' = late
      BY <1>10 DEF HandleStop, runs
    <3> QED
      BY <1>2, <2>1, <3>1, <3>2, <3>3 DEF Informed, Timely
  <2> QED
    BY <1>10, <2>2, <2>3 DEF HandleStop
<1>11. CASE Authorize(w)
  <2>1. pc[w] # "idle" /\ Kind[d] = "stop" /\ UNCHANGED <<run, origin, late>>
    BY <1>11 DEF Authorize, Informed, runs
  <2>2. CASE Return(w, "stale")
    BY <1>5, <2>1, <2>2 DEF Settled
  <2>3. CASE Goto(w, "retry")
    BY <1>4, <2>1, <2>3
  <2>4. CASE /\ Item[d] \notin Github \/ d \in Authorized
             /\ saw[w] /\ Goto(w, "control")
    <3>1. run[Item[d]] # "none" /\ Justified(d)
      BY <1>11, <2>4 DEF Authorize, Informed, Justified
    <3>2. pc'[w] = "control" /\ job' = job
      BY <2>4 DEF Goto, localsTyped
    <3> QED
      BY <1>2, <2>1, <3>1, <3>2 DEF Informed, Justified, Timely
  <2> QED
    BY <1>11, <2>2, <2>3, <2>4 DEF Authorize
<1>12. CASE HandleControl(w)
  <2>1. /\ Kind[d] = "control" /\ run[Item[d]] # "none"
        /\ pc[w] # "idle" /\ UNCHANGED run
    BY <1>2, <1>12 DEF HandleControl, ControlShape, Informed, runs
  <2>2. pc'[w] = "control" /\ job' = job
    BY <1>12 DEF HandleControl, Goto, localsTyped
  <2> QED
    BY <1>2, <2>1, <2>2 DEF Informed
<1>13. CASE RunControl(w)
  <2>1. pc[w] # "idle" /\ Kind[d] \in {"stop", "control"} /\ job' = job
    BY <1>13 DEF RunControl, Informed, Return
  <2>2. CASE run[Item[d]] = "running"
    <3>1. run'[Item[d]] = "ended" /\ Return(w, "consumed")
      BY <1>2, <1>13, <2>1, <2>2 DEF RunControl, runsTyped
    <3>2. Done(d)'
      BY <2>1, <3>1 DEF Done
    <3> QED
      BY <1>5, <2>1, <3>1, <3>2 DEF Settled
  <2>3. CASE run[Item[d]] # "running"
    BY <1>5, <1>13, <2>1, <2>3 DEF RunControl, Settled
  <2> QED
    BY <2>2, <2>3
<1>14. CASE Complete(w) \/ Retry(w) \/ Crash(w)
  BY <1>3, <1>14 DEF Complete, Retry, Crash
<1>15. CASE HandlerThrows(w)
  BY <1>4, <1>15 DEF HandlerThrows
<1> QED
  BY <1>1, <1>6, <1>7, <1>8, <1>9, <1>10, <1>11, <1>12, <1>13, <1>14, <1>15
     DEF Handle

LEMMA WorkerStep ==
  ASSUME IInv, [Next]_vars
  PROVE  WorkerShape'
<1> localsTyped
  BY TypeParts DEF IInv
<1> SUFFICES ASSUME NEW w \in Workers PROVE Informed(w)'
  BY DEF WorkerShape
<1>1. ASSUME NEW v \in Workers,
             LeaseNext(v) \/ Handle(v) \/ HandlerThrows(v) \/ Crash(v), v # w
      PROVE  UNCHANGED <<pc[w], job[w], saw[w], outcome[w]>>
  BY <1>1 DEF Handle, LeaseNext, HandlerThrows, Crash, HandleOther,
     HandleAdmission, Admit, AdmitRefused, HandleStop, Authorize, HandleControl,
     RunControl, Complete, Retry, Goto, Return, Idle, localsTyped
<1>2. \/ UNCHANGED locals
      \/ \E v \in Workers : LeaseNext(v) \/ Handle(v) \/ HandlerThrows(v) \/ Crash(v)
  BY DEF Next, vars, SetMaintenanceFence, Tick, Receive, Ingest, LeaseExpires,
     BecomeDue, GracePasses, BlobLost, LeaseNone, RunEnds
<1> QED
  BY <1>1, <1>2, ActsInformed, KeepsInformed DEF locals

-----------------------------------------------------------------------------
(* The invariant and what it gives.                                        *)

LEMMA Initially == Init => IInv
BY BoundAssumption DEF Init, IInv, TypeOK, WorkerShape, Informed, ControlShape,
   ConsumedIsDone, RunHasConsumedOrigin, OnlyJustifiedStopsEnd, Settled, Places

LEMMA Inductive == IInv /\ [Next]_vars => IInv'
BY TypeStep, WorkerStep, ControlStep, ConsumedStep, OriginStep, StopsStep DEF IInv

\* The inductive invariant of the intake holds in every state.
THEOREM Invariance == Spec => []IInv
BY Initially, Inductive, PTL DEF Spec

\* Rows, runs and workers keep their types, and a row has a lease exactly
\* while it is processing (inbox_events).
THEOREM TypeCorrect == Spec => []TypeOK
<1>1. IInv => TypeOK
  BY DEF IInv
<1> QED
  BY <1>1, Invariance, PTL

\* An event is recorded as consumed only when what it asks for is done,
\* whoever interrupts or overtakes its worker (completion under the lease).
THEOREM ConsumedDone == Spec => []ConsumedIsDone
<1>1. IInv => ConsumedIsDone
  BY DEF IInv
<1> QED
  BY <1>1, Invariance, PTL

\* A run has the one admission it came from, consumed with its creation
\* (admitPipelineRun).
THEOREM RunsHaveOrigins == Spec => []RunHasConsumedOrigin
<1>1. IInv => RunHasConsumedOrigin
  BY DEF IInv
<1> QED
  BY <1>1, Invariance, PTL

\* A stop by comment ends only the run it was made for, by an author who may
\* (handleKernelProviderPrompt).
THEOREM StopsJustified == Spec => []OnlyJustifiedStopsEnd
<1>1. IInv => OnlyJustifiedStopsEnd
  BY DEF IInv
<1> QED
  BY <1>1, Invariance, PTL

-----------------------------------------------------------------------------
(* The contract.                                                           *)

\* The abstract state of a row, case by case.
LEMMA EventCases ==
  ASSUME rowsTyped, NEW d \in Deliveries
  PROVE  /\ Event(d) = "unknown" <=> status[d] = "absent"
         /\ Event(d) = "open" <=> status[d] \in Open
         /\ status[d] \in Settled => Event(d) = status[d]
BY DEF rowsTyped, Event, Settled, Open

\* A row given up under its lease was open, and is what it is released as.
LEMMA ReleaseEvents ==
  ASSUME rowsTyped, NEW d \in Deliveries, status[d] = "processing"
  PROVE  /\ Event(d) = "open"
         /\ ReleaseRow(d, "pending") => events' = events
         /\ \A s \in Settled : ReleaseRow(d, s) => events' = [events EXCEPT ![d] = s]
<1>1. Event(d) = "open"
  BY DEF Event, Open
<1>2. ASSUME ReleaseRow(d, "pending") PROVE events' = events
  <2>1. \A e \in Deliveries : Event(e)' = Event(e)
    BY <1>2 DEF ReleaseRow, Event, Open, rowsTyped
  <2> QED
    BY <2>1 DEF events
<1>3. ASSUME NEW s \in Settled, ReleaseRow(d, s)
      PROVE  events' = [events EXCEPT ![d] = s]
  <2>1. \A e \in Deliveries : Event(e)' = IF e = d THEN s ELSE Event(e)
    BY <1>3 DEF ReleaseRow, Event, Open, Settled, rowsTyped
  <2> QED
    BY <2>1 DEF events
<1> QED
  BY <1>1, <1>2, <1>3

LEMMA LeaseEvents ==
  ASSUME rowsTyped, NEW w \in Workers, NEW dead \in SUBSET Offered,
         NEW taken \in SUBSET Offered, dead \cap taken = {},
         LeaseRows(w, dead, taken)
  PROVE  /\ \A d \in dead : d \in Deliveries /\ Event(d) = "open"
         /\ events' = [d \in Deliveries |-> IF d \in dead THEN "dead" ELSE events[d]]
<1>1. \A d \in dead : d \in Deliveries /\ Event(d) = "open"
  BY DEF Offered, Event, Open, rowsTyped
<1>2. ASSUME NEW d \in Deliveries
      PROVE  Event(d)' = IF d \in dead THEN "dead" ELSE Event(d)
  BY DEF LeaseRows, Offered, RecoveredStatus, Event, Open, rowsTyped
<1> QED
  BY <1>1, <1>2 DEF events

\* Every step is one of the contract, or changes nothing that it sees.
LEMMA ContractStep ==
  ASSUME IInv, [Next]_vars
  PROVE  [Contract!Next]_(Contract!vars)
<1> TypeOK /\ WorkerShape /\ rowsTyped /\ runsTyped
  BY TypeParts DEF IInv
<1> DEFINE Same == UNCHANGED <<closed, events, run>>
<1>0. UNCHANGED rows => UNCHANGED events
  <2> SUFFICES ASSUME UNCHANGED status PROVE UNCHANGED events
    BY DEF rows
  <2> QED
    BY DEF events, Event
<1>1. ASSUME UNCHANGED vars PROVE Same
  BY <1>0, <1>1 DEF vars, world, runs
<1>2. ASSUME SetMaintenanceFence PROVE Contract!Fence
  BY <1>0, <1>2 DEF SetMaintenanceFence, runs, Contract!Fence
<1>3. ASSUME NEW d \in Deliveries,
             Receive(d) \/ GracePasses(d) \/ BlobLost(d)
      PROVE  Same
  BY <1>0, <1>3 DEF Receive, GracePasses, BlobLost, runs
<1>4. ASSUME NEW d \in Deliveries, BecomeDue(d) \/ LeaseExpires(d) PROVE Same
  <2>1. UNCHANGED <<status, closed, run>>
    BY <1>4 DEF BecomeDue, LeaseExpires, world, runs
  <2> QED
    BY <2>1 DEF events, Event
<1>5. ASSUME NEW d \in Deliveries, Ingest(d) PROVE Same \/ Contract!Accept(d)
  <2>1. UNCHANGED <<closed, run>>
    BY <1>5 DEF Ingest, runs
  <2>2. CASE UNCHANGED rows
    BY <1>0, <2>1, <2>2
  <2>3. CASE ~UNCHANGED rows
    <3>1. /\ ~closed /\ status[d] = "absent"
          /\ status' = [status EXCEPT ![d] =
                          IF HasGroupRow(d) THEN "stale" ELSE "pending"]
      BY <1>5, <2>3 DEF Ingest
    <3>2. HasGroupRow(d) <=>
            \E e \in Deliveries : Group[e] = Group[d] /\ events[e] # "unknown"
      BY EventCases DEF HasGroupRow, events
    <3>3. \A e \in Deliveries : Event(e)' =
            IF e = d THEN IF HasGroupRow(d) THEN "stale" ELSE "open"
            ELSE Event(e)
      BY <3>1 DEF Event, Open, rowsTyped
    <3>4. events' = [events EXCEPT ![d] =
                       IF HasGroupRow(d) THEN "stale" ELSE "open"]
      BY <3>3 DEF events
    <3>5. events[d] = "unknown"
      BY <3>1, EventCases DEF events
    <3> QED
      BY <2>1, <3>1, <3>2, <3>4, <3>5 DEF Contract!Accept
  <2> QED
    BY <2>2, <2>3
<1>6. ASSUME NEW w \in Workers, LeaseNext(w) \/ LeaseNone(w)
      PROVE  \E D \in SUBSET Deliveries : Contract!Drop(D)
  <2>1. PICK dead \in SUBSET Offered, taken \in SUBSET Offered :
          dead \cap taken = {} /\ LeaseRows(w, dead, taken)
    BY <1>6, LeaseStep
  <2>2. /\ \A d \in dead : d \in Deliveries /\ events[d] = "open"
        /\ events' = [d \in Deliveries |-> IF d \in dead THEN "dead" ELSE events[d]]
    BY <2>1, LeaseEvents DEF events
  <2>3. UNCHANGED <<closed, run>>
    BY <1>6 DEF LeaseNext, LeaseNone, runs, world
  <2>4. dead \in SUBSET Deliveries /\ Contract!Drop(dead)
    BY <2>2, <2>3 DEF Contract!Drop
  <2> QED
    BY <2>4
<1>7. ASSUME NEW w \in Workers,
             \/ HandleOther(w) \/ HandleAdmission(w) \/ AdmitRefused(w)
             \/ HandleStop(w) \/ Authorize(w) \/ HandleControl(w)
             \/ HandlerThrows(w) \/ Crash(w)
      PROVE  Same
  BY <1>0, <1>7 DEF HandleOther, HandleAdmission, AdmitRefused, HandleStop,
     Authorize, HandleControl, HandlerThrows, Crash, runs, world
<1>8. ASSUME NEW w \in Workers, Admit(w) PROVE Contract!Admit(job[w])
  <2>1. /\ Kind[job[w]] = "admission" /\ job[w] \in Deliveries
        /\ status[job[w]] = "processing"
    BY <1>8, AdmissionDone, HeldIsProcessing DEF Admit
  <2>2. /\ Event(job[w]) = "open"
        /\ events' = [events EXCEPT ![job[w]] = "consumed"]
    BY <1>8, <2>1, ReleaseEvents DEF Admit, Settled
  <2> QED
    BY <1>8, <2>1, <2>2 DEF Admit, Contract!Admit, events, world
<1>9. ASSUME NEW w \in Workers, RunControl(w)
      PROVE  Same \/ \E i \in Items : Contract!End(i)
  <2>1. Item[job[w]] \in Items
    BY <1>9, BusyHasJob DEF RunControl
  <2> QED
    BY <1>0, <1>9, <2>1 DEF RunControl, Contract!End, world
<1>10. ASSUME NEW w \in Workers, Complete(w)
       PROVE  Same \/ Contract!Consume(job[w]) \/ Contract!Drop({job[w]})
  <2>1. /\ job[w] \in Deliveries /\ UNCHANGED <<closed, run>> /\ pc[w] # "idle"
        /\ outcome[w] \in Settled
    BY <1>10, BusyHasJob DEF Complete, WorkerShape, Informed, world
  <2>2. CASE ~HoldsLease(w)
    BY <1>0, <1>10, <2>1, <2>2 DEF Complete
  <2>3. CASE HoldsLease(w)
    <3>1. status[job[w]] = "processing"
      BY <2>1, <2>3, HeldIsProcessing
    <3>2. /\ events[job[w]] = "open"
          /\ events' = [events EXCEPT ![job[w]] = outcome[w]]
      BY <1>10, <2>1, <2>3, <3>1, ReleaseEvents DEF Complete, events
    <3>3. CASE outcome[w] = "consumed"
      BY <1>10, <2>1, <3>2, <3>3 DEF Complete, WorkerShape, Informed, Done,
         Contract!Consume
    <3>4. CASE outcome[w] = "stale"
      <4>1. Kind[job[w]] # "admission"
        BY <1>10, <3>4 DEF Complete, WorkerShape, Informed
      <4> QED
        BY <2>1, <3>2, <3>4, <4>1 DEF Contract!Drop
    <3>5. CASE outcome[w] = "dead"
      <4>1. events' = [d \in Deliveries |-> IF d \in {job[w]} THEN "dead" ELSE events[d]]
        BY <2>1, <3>2, <3>5 DEF events
      <4> QED
        BY <2>1, <3>2, <4>1 DEF Contract!Drop
    <3> QED
      BY <2>1, <3>3, <3>4, <3>5 DEF Settled
  <2> QED
    BY <2>2, <2>3
<1>11. ASSUME NEW w \in Workers, Retry(w) PROVE Same
  <2>1. job[w] \in Deliveries /\ UNCHANGED <<closed, run>> /\ pc[w] # "idle"
    BY <1>11, BusyHasJob DEF Retry, world, runs
  <2>2. CASE HoldsLease(w)
    BY <1>11, <2>1, <2>2, HeldIsProcessing, ReleaseEvents DEF Retry
  <2>3. CASE ~HoldsLease(w)
    BY <1>0, <1>11, <2>1, <2>3 DEF Retry
  <2> QED
    BY <2>2, <2>3
<1>12. ASSUME Tick PROVE Same
  BY <1>0, <1>12 DEF Tick, world
<1>13. ASSUME NEW i \in Items, RunEnds(i) PROVE Contract!End(i)
  BY <1>0, <1>13 DEF RunEnds, Contract!End, world
<1>14. ASSUME NEW w \in Workers, pc[w] # "idle"
       PROVE  job[w] \in Deliveries /\ {job[w]} \in SUBSET Deliveries
  BY <1>14, BusyHasJob
<1>15. Same => UNCHANGED Contract!vars
  BY DEF Contract!vars
<1>16. ASSUME NEW w \in Workers, Handle(w)
       PROVE  Same \/ Contract!Next
  BY <1>7, <1>8, <1>9, <1>10, <1>11, <1>14, <1>16 DEF Handle, Admit, Complete,
     Contract!Next
<1> QED
  BY <1>1, <1>2, <1>3, <1>4, <1>5, <1>6, <1>7, <1>12, <1>13, <1>15, <1>16
     DEF Next, Contract!Next

\* The inbox and its workers implement IntakeContract: an event is taken in
\* once, handled for itself, and settled once with what it asked for.
THEOREM Implementation == Spec => ImplementsContract
<1>1. ASSUME Init PROVE Contract!Init
  <2>1. \A d \in Deliveries : Event(d) = "unknown"
    BY <1>1 DEF Init, Event, Open
  <2> QED
    BY <1>1, <2>1 DEF Init, Contract!Init, events
<1>2. IInv /\ [Next]_vars => [Contract!Next]_(Contract!vars)
  BY ContractStep
<1> QED
  BY <1>1, <1>2, Invariance, PTL DEF Spec, ImplementsContract, Contract!Spec

\* Events take effect as they are recorded, for any deliveries and workers.
THEOREM IntakesSafe == Spec => []IntakeSafe
BY ConsumedDone, RunsHaveOrigins, StopsJustified, PTL DEF IntakeSafe
=============================================================================
