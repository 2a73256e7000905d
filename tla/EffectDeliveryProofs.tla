------------------------ MODULE EffectDeliveryProofs ------------------------
(***************************************************************************)
(* The safety of EffectDelivery for every set of effects, workers and      *)
(* lease ids.  IInv is inductive; its parts are preserved one lemma each,  *)
(* and each lemma has one step per action.  The theorems at the end read   *)
(* the properties off IInv, and show that EffectContract is implemented.   *)
(***************************************************************************)
EXTENDS EffectRefinement, TLAPS

\* Expiry recovery leaves a status of the status column, and nothing but
\* pending or unknown on the rows it recovers.
LEMMA RecoveryType ==
  ASSUME TypeOK, NEW R \in SUBSET Effects
  PROVE  /\ RecoveredStatus(R) \in [Effects -> Statuses]
         /\ \A e \in R : RecoveredStatus(R)[e] \in {"pending", "unknown"}
         /\ \A e \in Effects \ R : RecoveredStatus(R)[e] = status[e]
BY DEF TypeOK, RecoveredStatus, Statuses

\* Every variable keeps its type; what a busy worker holds names a row and a
\* lease.
LEMMA TypeStep ==
  ASSUME TypeOK, WorkerShape, [Next]_vars
  PROVE  TypeOK'
<1> USE EffectKinds, Nulls, Bounds
<1>1. ASSUME NEW e \in Effects, Schedule(e) PROVE TypeOK'
  BY <1>1 DEF Schedule, EnterDue, row, drain, provider, TypeOK, Statuses,
     Settled, Modes, PCs, Outcomes, WorkerShape
<1>2. ASSUME NEW e \in Effects, BecomeDue(e) PROVE TypeOK'
  BY <1>2 DEF BecomeDue, EnterDue, row, drain, provider, TypeOK, Statuses,
     Settled, Modes, PCs, Outcomes, WorkerShape
<1>3. ASSUME NEW e \in Effects, LeaseExpires(e) PROVE TypeOK'
  BY <1>3 DEF LeaseExpires, row, drain, provider, TypeOK, Statuses, Settled,
     Modes, PCs, Outcomes, WorkerShape
<1>4. ASSUME NEW e \in Effects, RunEnds(e) PROVE TypeOK'
  BY <1>4 DEF RunEnds, row, drain, provider, TypeOK, Statuses, Settled,
     Modes, PCs, Outcomes, WorkerShape
<1>5. ASSUME NEW e \in Effects, RejectUnknown(e) PROVE TypeOK'
  BY <1>5 DEF RejectUnknown, LeaveDue, row, drain, provider, TypeOK,
     Statuses, Settled, Modes, PCs, Outcomes, WorkerShape
<1>6. ASSUME NEW e \in Effects, TargetAppears(e) PROVE TypeOK'
  BY <1>6 DEF TargetAppears, row, drain, provider, TypeOK, Statuses,
     Settled, Modes, PCs, Outcomes, WorkerShape
<1>7. ASSUME NEW w \in Workers, RecoverOnly(w) PROVE TypeOK'
  <2> PICK R \in SUBSET Effects :
        /\ status' = RecoveredStatus(R)
        /\ lease' = [e \in Effects |-> IF e \in R THEN NoLease ELSE lease[e]]
        /\ mode' = [e \in Effects |-> IF e \in R THEN "none" ELSE mode[e]]
        /\ expired' = [e \in Effects |-> expired[e] /\ e \notin R]
        /\ noted' = [e \in Effects |->
             IF e \in R THEN RecoveredStatus(R)[e] = "unknown" ELSE noted[e]]
    BY <1>7 DEF RecoverOnly
  <2>1. expired' \in [Effects -> BOOLEAN] /\ noted' \in [Effects -> BOOLEAN]
    BY DEF TypeOK
  <2>2. /\ lease' \in [Effects -> Leases \cup {NoLease}]
        /\ mode' \in [Effects -> Modes]
    BY DEF TypeOK, Modes
  <2> QED
    BY <1>7, <2>1, <2>2, RecoveryType DEF TypeOK, RecoverOnly, drain, provider
<1>8. ASSUME NEW w \in Workers, NEW l \in Leases, LeaseNextEffect(w, l) PROVE TypeOK'
  <2> PICK R \in SUBSET Effects, e \in Effects :
        /\ status' = [RecoveredStatus(R) EXCEPT ![e] = "processing"]
        /\ lease' = [x \in Effects |->
             IF x = e THEN l ELSE IF x \in R THEN NoLease ELSE lease[x]]
        /\ mode' = [x \in Effects |->
             IF x = e THEN ExecutionMode(e)
             ELSE IF x \in R THEN "none" ELSE mode[x]]
        /\ expired' = [x \in Effects |-> expired[x] /\ x \notin R]
        /\ noted' = [x \in Effects |->
             IF x \in R THEN RecoveredStatus(R)[x] = "unknown" ELSE noted[x]]
        /\ job' = [job EXCEPT ![w] = e]
        /\ jobMode' = [jobMode EXCEPT ![w] = ExecutionMode(e)]
        /\ jobFence' = [jobFence EXCEPT ![w] = fence[e]]
    BY <1>8 DEF LeaseNextEffect
  <2>1. expired' \in [Effects -> BOOLEAN] /\ noted' \in [Effects -> BOOLEAN]
    BY DEF TypeOK
  <2>2. /\ lease' \in [Effects -> Leases \cup {NoLease}]
        /\ mode' \in [Effects -> Modes]
        /\ jobMode' \in [Workers -> Modes]
    BY DEF TypeOK, Modes, ExecutionMode
  <2>3. status' \in [Effects -> Statuses]
    BY RecoveryType DEF Statuses
  <2>4. /\ job' \in [Workers -> Effects \cup {NoEffect}]
        /\ jobFence' \in [Workers -> Leases \cup {NoLease}]
        /\ held' \in [Workers -> Leases \cup {NoLease}]
        /\ pc' \in [Workers -> PCs]
    BY <1>8 DEF TypeOK, LeaseNextEffect, PCs
  <2> QED
    BY <1>8, <2>1, <2>2, <2>3, <2>4 DEF TypeOK, LeaseNextEffect, provider
<1>9. ASSUME NEW w \in Workers, Observe(w) PROVE TypeOK'
  BY <1>9 DEF Observe, Conclude, Goto, DispatchNotStarted, row, drain,
     provider, TypeOK, Statuses, Settled, Modes, PCs, Outcomes, WorkerShape
<1>10. ASSUME NEW w \in Workers, ObserveFails(w) PROVE TypeOK'
  BY <1>10 DEF ObserveFails, Conclude, Goto, row, drain, provider, TypeOK,
     Statuses, Settled, Modes, PCs, Outcomes, WorkerShape
<1>11. ASSUME NEW w \in Workers, PrepareDispatch(w) PROVE TypeOK'
  BY <1>11 DEF PrepareDispatch, Goto, row, drain, provider, TypeOK,
     Statuses, Settled, Modes, PCs, Outcomes, WorkerShape
<1>12. ASSUME NEW w \in Workers, MarkDispatchStarted(w) PROVE TypeOK'
  BY <1>12 DEF MarkDispatchStarted, OwnsLease, row, drain, provider, TypeOK,
     Statuses, Settled, Modes, PCs, Outcomes, WorkerShape
<1>13. ASSUME NEW w \in Workers, Dispatch(w) PROVE TypeOK'
  BY <1>13 DEF Dispatch, Goto, row, drain, provider, TypeOK, Statuses,
     Settled, Modes, PCs, Outcomes, WorkerShape
<1>14. ASSUME NEW w \in Workers, Reobserve(w) PROVE TypeOK'
  BY <1>14 DEF Reobserve, Conclude, Goto, row, drain, provider, TypeOK,
     Statuses, Settled, Modes, PCs, Outcomes, WorkerShape
<1>15. ASSUME NEW w \in Workers, HoldUnknown(w) PROVE TypeOK'
  BY <1>15 DEF HoldUnknown, OwnsLease, LeaveDue, Release, row, drain,
     provider, TypeOK, Statuses, Settled, Modes, PCs, Outcomes, WorkerShape
<1>16. ASSUME NEW w \in Workers, AppendDelivery(w) PROVE TypeOK'
  BY <1>16 DEF AppendDelivery, OwnsLease, LeaveDue, Release,
     DeliveredStatus, row, drain, provider, TypeOK, Statuses, Settled,
     Modes, PCs, Outcomes, WorkerShape
<1>17. ASSUME NEW w \in Workers, LeaseLost(w) PROVE TypeOK'
  BY <1>17 DEF LeaseLost, Release, row, drain, provider, TypeOK, Statuses,
     Settled, Modes, PCs, Outcomes, WorkerShape
<1>18. ASSUME NEW w \in Workers, Crash(w) PROVE TypeOK'
  BY <1>18 DEF Crash, Release, row, drain, provider, TypeOK, Statuses,
     Settled, Modes, PCs, Outcomes, WorkerShape
<1>19. ASSUME NEW e \in Effects, NEW f \in Leases, Execute(e, f) PROVE TypeOK'
  BY <1>19 DEF Execute, row, drain, provider, TypeOK, Statuses, Settled,
     Modes, PCs, Outcomes, WorkerShape
<1>20. ASSUME NEW e \in Effects, NEW f \in Leases, Lose(e, f) PROVE TypeOK'
  BY <1>20 DEF Lose, row, drain, provider, TypeOK, Statuses, Settled, Modes,
     PCs, Outcomes, WorkerShape
<1>21. CASE UNCHANGED vars
  BY <1>21 DEF vars, row, drain, provider, TypeOK, Statuses, Settled, Modes,
     PCs, Outcomes, WorkerShape
<1> QED
  BY <1>1, <1>2, <1>3, <1>4, <1>5, <1>6, <1>7, <1>8, <1>9, <1>10, <1>11,
     <1>12, <1>13, <1>14, <1>15, <1>16, <1>17, <1>18, <1>19, <1>20, <1>21
     DEF Next

\* The columns of a row keep agreeing: recovery, lease, dispatch mark and
\* completion move them together.
LEMMA RowStep ==
  ASSUME TypeOK, RowShape, [Next]_vars
  PROVE  RowShape'
<1> USE EffectKinds, Nulls, Bounds
<1>1. ASSUME NEW e \in Effects, Schedule(e) PROVE RowShape'
  BY <1>1 DEF Schedule, EnterDue, row, drain, provider, TypeOK, Statuses,
     Settled, Modes, PCs, Outcomes, RowShape, Observations
<1>2. ASSUME NEW e \in Effects, BecomeDue(e) PROVE RowShape'
  BY <1>2 DEF BecomeDue, EnterDue, row, drain, provider, TypeOK, Statuses,
     Settled, Modes, PCs, Outcomes, RowShape, Observations
<1>3. ASSUME NEW e \in Effects, LeaseExpires(e) PROVE RowShape'
  BY <1>3 DEF LeaseExpires, row, drain, provider, TypeOK, Statuses, Settled,
     Modes, PCs, Outcomes, RowShape, Observations
<1>4. ASSUME NEW e \in Effects, RunEnds(e) PROVE RowShape'
  BY <1>4 DEF RunEnds, row, drain, provider, TypeOK, Statuses, Settled,
     Modes, PCs, Outcomes, RowShape, Observations
<1>5. ASSUME NEW e \in Effects, RejectUnknown(e) PROVE RowShape'
  BY <1>5 DEF RejectUnknown, LeaveDue, row, drain, provider, TypeOK,
     Statuses, Settled, Modes, PCs, Outcomes, RowShape, Observations
<1>6. ASSUME NEW e \in Effects, TargetAppears(e) PROVE RowShape'
  BY <1>6 DEF TargetAppears, row, drain, provider, TypeOK, Statuses,
     Settled, Modes, PCs, Outcomes, RowShape, Observations
<1>7. ASSUME NEW w \in Workers, RecoverOnly(w) PROVE RowShape'
  BY <1>7 DEF RecoverOnly, RecoveredStatus, row, drain, provider, TypeOK,
     Statuses, Settled, Modes, PCs, Outcomes, RowShape, Observations
<1>8. ASSUME NEW w \in Workers, NEW l \in Leases, LeaseNextEffect(w, l) PROVE RowShape'
  BY <1>8 DEF LeaseNextEffect, RecoveredStatus, ExecutionMode, NextLeasable,
     Leasable, UsedLeases, row, drain, provider, TypeOK, Statuses, Settled,
     Modes, PCs, Outcomes, RowShape, Observations
<1>9. ASSUME NEW w \in Workers, Observe(w) PROVE RowShape'
  BY <1>9 DEF Observe, Conclude, Goto, DispatchNotStarted, row, drain,
     provider, TypeOK, Statuses, Settled, Modes, PCs, Outcomes, RowShape,
     Observations
<1>10. ASSUME NEW w \in Workers, ObserveFails(w) PROVE RowShape'
  BY <1>10 DEF ObserveFails, Conclude, Goto, row, drain, provider, TypeOK,
     Statuses, Settled, Modes, PCs, Outcomes, RowShape, Observations
<1>11. ASSUME NEW w \in Workers, PrepareDispatch(w) PROVE RowShape'
  BY <1>11 DEF PrepareDispatch, Goto, row, drain, provider, TypeOK,
     Statuses, Settled, Modes, PCs, Outcomes, RowShape, Observations
<1>12. ASSUME NEW w \in Workers, MarkDispatchStarted(w) PROVE RowShape'
  BY <1>12 DEF MarkDispatchStarted, OwnsLease, row, drain, provider, TypeOK,
     Statuses, Settled, Modes, PCs, Outcomes, RowShape, Observations
<1>13. ASSUME NEW w \in Workers, Dispatch(w) PROVE RowShape'
  BY <1>13 DEF Dispatch, Goto, row, drain, provider, TypeOK, Statuses,
     Settled, Modes, PCs, Outcomes, RowShape, Observations
<1>14. ASSUME NEW w \in Workers, Reobserve(w) PROVE RowShape'
  BY <1>14 DEF Reobserve, Conclude, Goto, row, drain, provider, TypeOK,
     Statuses, Settled, Modes, PCs, Outcomes, RowShape, Observations
<1>15. ASSUME NEW w \in Workers, HoldUnknown(w) PROVE RowShape'
  BY <1>15 DEF HoldUnknown, OwnsLease, LeaveDue, Release, row, drain,
     provider, TypeOK, Statuses, Settled, Modes, PCs, Outcomes, RowShape,
     Observations
<1>16. ASSUME NEW w \in Workers, AppendDelivery(w) PROVE RowShape'
  BY <1>16 DEF AppendDelivery, OwnsLease, LeaveDue, Release,
     DeliveredStatus, row, drain, provider, TypeOK, Statuses, Settled,
     Modes, PCs, Outcomes, RowShape, Observations
<1>17. ASSUME NEW w \in Workers, LeaseLost(w) PROVE RowShape'
  BY <1>17 DEF LeaseLost, Release, row, drain, provider, TypeOK, Statuses,
     Settled, Modes, PCs, Outcomes, RowShape, Observations
<1>18. ASSUME NEW w \in Workers, Crash(w) PROVE RowShape'
  BY <1>18 DEF Crash, Release, row, drain, provider, TypeOK, Statuses,
     Settled, Modes, PCs, Outcomes, RowShape, Observations
<1>19. ASSUME NEW e \in Effects, NEW f \in Leases, Execute(e, f) PROVE RowShape'
  BY <1>19 DEF Execute, row, drain, provider, TypeOK, Statuses, Settled,
     Modes, PCs, Outcomes, RowShape, Observations
<1>20. ASSUME NEW e \in Effects, NEW f \in Leases, Lose(e, f) PROVE RowShape'
  BY <1>20 DEF Lose, row, drain, provider, TypeOK, Statuses, Settled, Modes,
     PCs, Outcomes, RowShape, Observations
<1>21. CASE UNCHANGED vars
  BY <1>21 DEF vars, row, drain, provider, TypeOK, Statuses, Settled, Modes,
     PCs, Outcomes, RowShape, Observations
<1> QED
  BY <1>1, <1>2, <1>3, <1>4, <1>5, <1>6, <1>7, <1>8, <1>9, <1>10, <1>11,
     <1>12, <1>13, <1>14, <1>15, <1>16, <1>17, <1>18, <1>19, <1>20, <1>21
     DEF Next

\* A worker's snapshot of mode and fence stays right while it works, although
\* its lease may be lost meanwhile.
LEMMA WorkerStep ==
  ASSUME TypeOK, RowShape, WorkerShape, [Next]_vars
  PROVE  WorkerShape'
<1> USE EffectKinds, Nulls, Bounds
<1>1. ASSUME NEW e \in Effects, Schedule(e) PROVE WorkerShape'
  BY <1>1 DEF Schedule, EnterDue, row, drain, provider, TypeOK, Statuses,
     Settled, Modes, PCs, Outcomes, RowShape, WorkerShape, Observations
<1>2. ASSUME NEW e \in Effects, BecomeDue(e) PROVE WorkerShape'
  BY <1>2 DEF BecomeDue, EnterDue, row, drain, provider, TypeOK, Statuses,
     Settled, Modes, PCs, Outcomes, RowShape, WorkerShape, Observations
<1>3. ASSUME NEW e \in Effects, LeaseExpires(e) PROVE WorkerShape'
  BY <1>3 DEF LeaseExpires, row, drain, provider, TypeOK, Statuses, Settled,
     Modes, PCs, Outcomes, RowShape, WorkerShape, Observations
<1>4. ASSUME NEW e \in Effects, RunEnds(e) PROVE WorkerShape'
  BY <1>4 DEF RunEnds, row, drain, provider, TypeOK, Statuses, Settled,
     Modes, PCs, Outcomes, RowShape, WorkerShape, Observations
<1>5. ASSUME NEW e \in Effects, RejectUnknown(e) PROVE WorkerShape'
  BY <1>5 DEF RejectUnknown, LeaveDue, row, drain, provider, TypeOK,
     Statuses, Settled, Modes, PCs, Outcomes, RowShape, WorkerShape,
     Observations
<1>6. ASSUME NEW e \in Effects, TargetAppears(e) PROVE WorkerShape'
  BY <1>6 DEF TargetAppears, row, drain, provider, TypeOK, Statuses,
     Settled, Modes, PCs, Outcomes, RowShape, WorkerShape, Observations
<1>7. ASSUME NEW w \in Workers, RecoverOnly(w) PROVE WorkerShape'
  BY <1>7 DEF RecoverOnly, RecoveredStatus, row, drain, provider, TypeOK,
     Statuses, Settled, Modes, PCs, Outcomes, RowShape, WorkerShape,
     Observations
<1>8. ASSUME NEW w \in Workers, NEW l \in Leases, LeaseNextEffect(w, l) PROVE WorkerShape'
  BY <1>8 DEF LeaseNextEffect, RecoveredStatus, ExecutionMode, NextLeasable,
     Leasable, UsedLeases, row, drain, provider, TypeOK, Statuses, Settled,
     Modes, PCs, Outcomes, RowShape, WorkerShape, Observations
<1>9. ASSUME NEW w \in Workers, Observe(w) PROVE WorkerShape'
  BY <1>9 DEF Observe, Conclude, Goto, DispatchNotStarted, row, drain,
     provider, TypeOK, Statuses, Settled, Modes, PCs, Outcomes, RowShape,
     WorkerShape, Observations
<1>10. ASSUME NEW w \in Workers, ObserveFails(w) PROVE WorkerShape'
  BY <1>10 DEF ObserveFails, Conclude, Goto, row, drain, provider, TypeOK,
     Statuses, Settled, Modes, PCs, Outcomes, RowShape, WorkerShape,
     Observations
<1>11. ASSUME NEW w \in Workers, PrepareDispatch(w) PROVE WorkerShape'
  BY <1>11 DEF PrepareDispatch, Goto, row, drain, provider, TypeOK,
     Statuses, Settled, Modes, PCs, Outcomes, RowShape, WorkerShape,
     Observations
<1>12. ASSUME NEW w \in Workers, MarkDispatchStarted(w) PROVE WorkerShape'
  BY <1>12 DEF MarkDispatchStarted, OwnsLease, row, drain, provider, TypeOK,
     Statuses, Settled, Modes, PCs, Outcomes, RowShape, WorkerShape,
     Observations
<1>13. ASSUME NEW w \in Workers, Dispatch(w) PROVE WorkerShape'
  BY <1>13 DEF Dispatch, Goto, row, drain, provider, TypeOK, Statuses,
     Settled, Modes, PCs, Outcomes, RowShape, WorkerShape, Observations
<1>14. ASSUME NEW w \in Workers, Reobserve(w) PROVE WorkerShape'
  BY <1>14 DEF Reobserve, Conclude, Goto, row, drain, provider, TypeOK,
     Statuses, Settled, Modes, PCs, Outcomes, RowShape, WorkerShape,
     Observations
<1>15. ASSUME NEW w \in Workers, HoldUnknown(w) PROVE WorkerShape'
  BY <1>15 DEF HoldUnknown, OwnsLease, LeaveDue, Release, row, drain,
     provider, TypeOK, Statuses, Settled, Modes, PCs, Outcomes, RowShape,
     WorkerShape, Observations
<1>16. ASSUME NEW w \in Workers, AppendDelivery(w) PROVE WorkerShape'
  BY <1>16 DEF AppendDelivery, OwnsLease, LeaveDue, Release,
     DeliveredStatus, row, drain, provider, TypeOK, Statuses, Settled,
     Modes, PCs, Outcomes, RowShape, WorkerShape, Observations
<1>17. ASSUME NEW w \in Workers, LeaseLost(w) PROVE WorkerShape'
  BY <1>17 DEF LeaseLost, Release, row, drain, provider, TypeOK, Statuses,
     Settled, Modes, PCs, Outcomes, RowShape, WorkerShape, Observations
<1>18. ASSUME NEW w \in Workers, Crash(w) PROVE WorkerShape'
  BY <1>18 DEF Crash, Release, row, drain, provider, TypeOK, Statuses,
     Settled, Modes, PCs, Outcomes, RowShape, WorkerShape, Observations
<1>19. ASSUME NEW e \in Effects, NEW f \in Leases, Execute(e, f) PROVE WorkerShape'
  BY <1>19 DEF Execute, row, drain, provider, TypeOK, Statuses, Settled,
     Modes, PCs, Outcomes, RowShape, WorkerShape, Observations
<1>20. ASSUME NEW e \in Effects, NEW f \in Leases, Lose(e, f) PROVE WorkerShape'
  BY <1>20 DEF Lose, row, drain, provider, TypeOK, Statuses, Settled, Modes,
     PCs, Outcomes, RowShape, WorkerShape, Observations
<1>21. CASE UNCHANGED vars
  BY <1>21 DEF vars, row, drain, provider, TypeOK, Statuses, Settled, Modes,
     PCs, Outcomes, RowShape, WorkerShape, Observations
<1> QED
  BY <1>1, <1>2, <1>3, <1>4, <1>5, <1>6, <1>7, <1>8, <1>9, <1>10, <1>11,
     <1>12, <1>13, <1>14, <1>15, <1>16, <1>17, <1>18, <1>19, <1>20, <1>21
     DEF Next

\* The single dispatch of a plain mutation is never duplicated.
LEMMA DispatchStep ==
  ASSUME TypeOK, RowShape, WorkerShape, WorldShape, OneDispatch, [Next]_vars
  PROVE  OneDispatch'
<1> USE EffectKinds, Nulls, Bounds
<1>1. ASSUME NEW e \in Effects, Schedule(e) PROVE OneDispatch'
  BY <1>1 DEF Schedule, EnterDue, row, drain, provider, TypeOK, Statuses,
     Settled, Modes, PCs, Outcomes, RowShape, WorkerShape, WorldShape,
     OneDispatch
<1>2. ASSUME NEW e \in Effects, BecomeDue(e) PROVE OneDispatch'
  BY <1>2 DEF BecomeDue, EnterDue, row, drain, provider, TypeOK, Statuses,
     Settled, Modes, PCs, Outcomes, RowShape, WorkerShape, WorldShape,
     OneDispatch
<1>3. ASSUME NEW e \in Effects, LeaseExpires(e) PROVE OneDispatch'
  BY <1>3 DEF LeaseExpires, row, drain, provider, TypeOK, Statuses, Settled,
     Modes, PCs, Outcomes, RowShape, WorkerShape, WorldShape, OneDispatch
<1>4. ASSUME NEW e \in Effects, RunEnds(e) PROVE OneDispatch'
  BY <1>4 DEF RunEnds, row, drain, provider, TypeOK, Statuses, Settled,
     Modes, PCs, Outcomes, RowShape, WorkerShape, WorldShape, OneDispatch
<1>5. ASSUME NEW e \in Effects, RejectUnknown(e) PROVE OneDispatch'
  BY <1>5 DEF RejectUnknown, LeaveDue, row, drain, provider, TypeOK,
     Statuses, Settled, Modes, PCs, Outcomes, RowShape, WorkerShape,
     WorldShape, OneDispatch
<1>6. ASSUME NEW e \in Effects, TargetAppears(e) PROVE OneDispatch'
  BY <1>6 DEF TargetAppears, row, drain, provider, TypeOK, Statuses,
     Settled, Modes, PCs, Outcomes, RowShape, WorkerShape, WorldShape,
     OneDispatch
<1>7. ASSUME NEW w \in Workers, RecoverOnly(w) PROVE OneDispatch'
  BY <1>7 DEF RecoverOnly, RecoveredStatus, row, drain, provider, TypeOK,
     Statuses, Settled, Modes, PCs, Outcomes, RowShape, WorkerShape,
     WorldShape, OneDispatch
<1>8. ASSUME NEW w \in Workers, NEW l \in Leases, LeaseNextEffect(w, l) PROVE OneDispatch'
  BY <1>8 DEF LeaseNextEffect, RecoveredStatus, ExecutionMode, NextLeasable,
     Leasable, UsedLeases, row, drain, provider, TypeOK, Statuses, Settled,
     Modes, PCs, Outcomes, RowShape, WorkerShape, WorldShape, OneDispatch
<1>9. ASSUME NEW w \in Workers, Observe(w) PROVE OneDispatch'
  BY <1>9 DEF Observe, Conclude, Goto, DispatchNotStarted, row, drain,
     provider, TypeOK, Statuses, Settled, Modes, PCs, Outcomes, RowShape,
     WorkerShape, WorldShape, OneDispatch
<1>10. ASSUME NEW w \in Workers, ObserveFails(w) PROVE OneDispatch'
  BY <1>10 DEF ObserveFails, Conclude, Goto, row, drain, provider, TypeOK,
     Statuses, Settled, Modes, PCs, Outcomes, RowShape, WorkerShape,
     WorldShape, OneDispatch
<1>11. ASSUME NEW w \in Workers, PrepareDispatch(w) PROVE OneDispatch'
  BY <1>11 DEF PrepareDispatch, Goto, row, drain, provider, TypeOK,
     Statuses, Settled, Modes, PCs, Outcomes, RowShape, WorkerShape,
     WorldShape, OneDispatch
<1>12. ASSUME NEW w \in Workers, MarkDispatchStarted(w) PROVE OneDispatch'
  BY <1>12 DEF MarkDispatchStarted, OwnsLease, row, drain, provider, TypeOK,
     Statuses, Settled, Modes, PCs, Outcomes, RowShape, WorkerShape,
     WorldShape, OneDispatch
<1>13. ASSUME NEW w \in Workers, Dispatch(w) PROVE OneDispatch'
  BY <1>13 DEF Dispatch, Goto, row, drain, provider, TypeOK, Statuses,
     Settled, Modes, PCs, Outcomes, RowShape, WorkerShape, WorldShape,
     OneDispatch
<1>14. ASSUME NEW w \in Workers, Reobserve(w) PROVE OneDispatch'
  BY <1>14 DEF Reobserve, Conclude, Goto, row, drain, provider, TypeOK,
     Statuses, Settled, Modes, PCs, Outcomes, RowShape, WorkerShape,
     WorldShape, OneDispatch
<1>15. ASSUME NEW w \in Workers, HoldUnknown(w) PROVE OneDispatch'
  BY <1>15 DEF HoldUnknown, OwnsLease, LeaveDue, Release, row, drain,
     provider, TypeOK, Statuses, Settled, Modes, PCs, Outcomes, RowShape,
     WorkerShape, WorldShape, OneDispatch
<1>16. ASSUME NEW w \in Workers, AppendDelivery(w) PROVE OneDispatch'
  BY <1>16 DEF AppendDelivery, OwnsLease, LeaveDue, Release,
     DeliveredStatus, row, drain, provider, TypeOK, Statuses, Settled,
     Modes, PCs, Outcomes, RowShape, WorkerShape, WorldShape, OneDispatch
<1>17. ASSUME NEW w \in Workers, LeaseLost(w) PROVE OneDispatch'
  BY <1>17 DEF LeaseLost, Release, row, drain, provider, TypeOK, Statuses,
     Settled, Modes, PCs, Outcomes, RowShape, WorkerShape, WorldShape,
     OneDispatch
<1>18. ASSUME NEW w \in Workers, Crash(w) PROVE OneDispatch'
  BY <1>18 DEF Crash, Release, row, drain, provider, TypeOK, Statuses,
     Settled, Modes, PCs, Outcomes, RowShape, WorkerShape, WorldShape,
     OneDispatch
<1>19. ASSUME NEW e \in Effects, NEW f \in Leases, Execute(e, f) PROVE OneDispatch'
  BY <1>19 DEF Execute, row, drain, provider, TypeOK, Statuses, Settled,
     Modes, PCs, Outcomes, RowShape, WorkerShape, WorldShape, OneDispatch
<1>20. ASSUME NEW e \in Effects, NEW f \in Leases, Lose(e, f) PROVE OneDispatch'
  BY <1>20 DEF Lose, row, drain, provider, TypeOK, Statuses, Settled, Modes,
     PCs, Outcomes, RowShape, WorkerShape, WorldShape, OneDispatch
<1>21. CASE UNCHANGED vars
  BY <1>21 DEF vars, row, drain, provider, TypeOK, Statuses, Settled, Modes,
     PCs, Outcomes, RowShape, WorkerShape, WorldShape, OneDispatch
<1> QED
  BY <1>1, <1>2, <1>3, <1>4, <1>5, <1>6, <1>7, <1>8, <1>9, <1>10, <1>11,
     <1>12, <1>13, <1>14, <1>15, <1>16, <1>17, <1>18, <1>19, <1>20, <1>21
     DEF Next

\* Requests carry the durable fence and execute at most once.
LEMMA WorldStep ==
  ASSUME TypeOK, RowShape, WorkerShape, WorldShape, OneDispatch, [Next]_vars
  PROVE  WorldShape'
<1> USE EffectKinds, Nulls, Bounds
<1>1. ASSUME NEW e \in Effects, Schedule(e) PROVE WorldShape'
  BY <1>1 DEF Schedule, EnterDue, row, drain, provider, TypeOK, Statuses,
     Settled, Modes, PCs, Outcomes, RowShape, WorkerShape, WorldShape,
     OneDispatch, Observations
<1>2. ASSUME NEW e \in Effects, BecomeDue(e) PROVE WorldShape'
  BY <1>2 DEF BecomeDue, EnterDue, row, drain, provider, TypeOK, Statuses,
     Settled, Modes, PCs, Outcomes, RowShape, WorkerShape, WorldShape,
     OneDispatch, Observations
<1>3. ASSUME NEW e \in Effects, LeaseExpires(e) PROVE WorldShape'
  BY <1>3 DEF LeaseExpires, row, drain, provider, TypeOK, Statuses, Settled,
     Modes, PCs, Outcomes, RowShape, WorkerShape, WorldShape, OneDispatch,
     Observations
<1>4. ASSUME NEW e \in Effects, RunEnds(e) PROVE WorldShape'
  BY <1>4 DEF RunEnds, row, drain, provider, TypeOK, Statuses, Settled,
     Modes, PCs, Outcomes, RowShape, WorkerShape, WorldShape, OneDispatch,
     Observations
<1>5. ASSUME NEW e \in Effects, RejectUnknown(e) PROVE WorldShape'
  BY <1>5 DEF RejectUnknown, LeaveDue, row, drain, provider, TypeOK,
     Statuses, Settled, Modes, PCs, Outcomes, RowShape, WorkerShape,
     WorldShape, OneDispatch, Observations
<1>6. ASSUME NEW e \in Effects, TargetAppears(e) PROVE WorldShape'
  BY <1>6 DEF TargetAppears, row, drain, provider, TypeOK, Statuses,
     Settled, Modes, PCs, Outcomes, RowShape, WorkerShape, WorldShape,
     OneDispatch, Observations
<1>7. ASSUME NEW w \in Workers, RecoverOnly(w) PROVE WorldShape'
  BY <1>7 DEF RecoverOnly, RecoveredStatus, row, drain, provider, TypeOK,
     Statuses, Settled, Modes, PCs, Outcomes, RowShape, WorkerShape,
     WorldShape, OneDispatch, Observations
<1>8. ASSUME NEW w \in Workers, NEW l \in Leases, LeaseNextEffect(w, l) PROVE WorldShape'
  BY <1>8 DEF LeaseNextEffect, RecoveredStatus, ExecutionMode, NextLeasable,
     Leasable, UsedLeases, row, drain, provider, TypeOK, Statuses, Settled,
     Modes, PCs, Outcomes, RowShape, WorkerShape, WorldShape, OneDispatch,
     Observations
<1>9. ASSUME NEW w \in Workers, Observe(w) PROVE WorldShape'
  BY <1>9 DEF Observe, Conclude, Goto, DispatchNotStarted, row, drain,
     provider, TypeOK, Statuses, Settled, Modes, PCs, Outcomes, RowShape,
     WorkerShape, WorldShape, OneDispatch, Observations
<1>10. ASSUME NEW w \in Workers, ObserveFails(w) PROVE WorldShape'
  BY <1>10 DEF ObserveFails, Conclude, Goto, row, drain, provider, TypeOK,
     Statuses, Settled, Modes, PCs, Outcomes, RowShape, WorkerShape,
     WorldShape, OneDispatch, Observations
<1>11. ASSUME NEW w \in Workers, PrepareDispatch(w) PROVE WorldShape'
  BY <1>11 DEF PrepareDispatch, Goto, row, drain, provider, TypeOK,
     Statuses, Settled, Modes, PCs, Outcomes, RowShape, WorkerShape,
     WorldShape, OneDispatch, Observations
<1>12. ASSUME NEW w \in Workers, MarkDispatchStarted(w) PROVE WorldShape'
  BY <1>12 DEF MarkDispatchStarted, OwnsLease, row, drain, provider, TypeOK,
     Statuses, Settled, Modes, PCs, Outcomes, RowShape, WorkerShape,
     WorldShape, OneDispatch, Observations
<1>13. ASSUME NEW w \in Workers, Dispatch(w) PROVE WorldShape'
  BY <1>13 DEF Dispatch, Goto, row, drain, provider, TypeOK, Statuses,
     Settled, Modes, PCs, Outcomes, RowShape, WorkerShape, WorldShape,
     OneDispatch, Observations
<1>14. ASSUME NEW w \in Workers, Reobserve(w) PROVE WorldShape'
  BY <1>14 DEF Reobserve, Conclude, Goto, row, drain, provider, TypeOK,
     Statuses, Settled, Modes, PCs, Outcomes, RowShape, WorkerShape,
     WorldShape, OneDispatch, Observations
<1>15. ASSUME NEW w \in Workers, HoldUnknown(w) PROVE WorldShape'
  BY <1>15 DEF HoldUnknown, OwnsLease, LeaveDue, Release, row, drain,
     provider, TypeOK, Statuses, Settled, Modes, PCs, Outcomes, RowShape,
     WorkerShape, WorldShape, OneDispatch, Observations
<1>16. ASSUME NEW w \in Workers, AppendDelivery(w) PROVE WorldShape'
  BY <1>16 DEF AppendDelivery, OwnsLease, LeaveDue, Release,
     DeliveredStatus, row, drain, provider, TypeOK, Statuses, Settled,
     Modes, PCs, Outcomes, RowShape, WorkerShape, WorldShape, OneDispatch,
     Observations
<1>17. ASSUME NEW w \in Workers, LeaseLost(w) PROVE WorldShape'
  BY <1>17 DEF LeaseLost, Release, row, drain, provider, TypeOK, Statuses,
     Settled, Modes, PCs, Outcomes, RowShape, WorkerShape, WorldShape,
     OneDispatch, Observations
<1>18. ASSUME NEW w \in Workers, Crash(w) PROVE WorldShape'
  BY <1>18 DEF Crash, Release, row, drain, provider, TypeOK, Statuses,
     Settled, Modes, PCs, Outcomes, RowShape, WorkerShape, WorldShape,
     OneDispatch, Observations
<1>19. ASSUME NEW e \in Effects, NEW f \in Leases, Execute(e, f) PROVE WorldShape'
  BY <1>19 DEF Execute, row, drain, provider, TypeOK, Statuses, Settled,
     Modes, PCs, Outcomes, RowShape, WorkerShape, WorldShape, OneDispatch,
     Observations
<1>20. ASSUME NEW e \in Effects, NEW f \in Leases, Lose(e, f) PROVE WorldShape'
  BY <1>20 DEF Lose, row, drain, provider, TypeOK, Statuses, Settled, Modes,
     PCs, Outcomes, RowShape, WorkerShape, WorldShape, OneDispatch,
     Observations
<1>21. CASE UNCHANGED vars
  BY <1>21 DEF vars, row, drain, provider, TypeOK, Statuses, Settled, Modes,
     PCs, Outcomes, RowShape, WorkerShape, WorldShape, OneDispatch,
     Observations
<1> QED
  BY <1>1, <1>2, <1>3, <1>4, <1>5, <1>6, <1>7, <1>8, <1>9, <1>10, <1>11,
     <1>12, <1>13, <1>14, <1>15, <1>16, <1>17, <1>18, <1>19, <1>20, <1>21
     DEF Next

\* A settlement copies what the provider shows, and what it shows stays.
LEMMA TruthStep ==
  ASSUME TypeOK, RowShape, WorkerShape, DeliveryIsTrue, [Next]_vars
  PROVE  DeliveryIsTrue'
<1> USE EffectKinds, Nulls, Bounds
<1>1. ASSUME NEW e \in Effects, Schedule(e) PROVE DeliveryIsTrue'
  BY <1>1 DEF Schedule, EnterDue, row, drain, provider, TypeOK, Statuses,
     Settled, Modes, PCs, Outcomes, RowShape, WorkerShape, DeliveryIsTrue,
     Observations
<1>2. ASSUME NEW e \in Effects, BecomeDue(e) PROVE DeliveryIsTrue'
  BY <1>2 DEF BecomeDue, EnterDue, row, drain, provider, TypeOK, Statuses,
     Settled, Modes, PCs, Outcomes, RowShape, WorkerShape, DeliveryIsTrue,
     Observations
<1>3. ASSUME NEW e \in Effects, LeaseExpires(e) PROVE DeliveryIsTrue'
  BY <1>3 DEF LeaseExpires, row, drain, provider, TypeOK, Statuses, Settled,
     Modes, PCs, Outcomes, RowShape, WorkerShape, DeliveryIsTrue,
     Observations
<1>4. ASSUME NEW e \in Effects, RunEnds(e) PROVE DeliveryIsTrue'
  BY <1>4 DEF RunEnds, row, drain, provider, TypeOK, Statuses, Settled,
     Modes, PCs, Outcomes, RowShape, WorkerShape, DeliveryIsTrue,
     Observations
<1>5. ASSUME NEW e \in Effects, RejectUnknown(e) PROVE DeliveryIsTrue'
  BY <1>5 DEF RejectUnknown, LeaveDue, row, drain, provider, TypeOK,
     Statuses, Settled, Modes, PCs, Outcomes, RowShape, WorkerShape,
     DeliveryIsTrue, Observations
<1>6. ASSUME NEW e \in Effects, TargetAppears(e) PROVE DeliveryIsTrue'
  BY <1>6 DEF TargetAppears, row, drain, provider, TypeOK, Statuses,
     Settled, Modes, PCs, Outcomes, RowShape, WorkerShape, DeliveryIsTrue,
     Observations
<1>7. ASSUME NEW w \in Workers, RecoverOnly(w) PROVE DeliveryIsTrue'
  BY <1>7 DEF RecoverOnly, RecoveredStatus, row, drain, provider, TypeOK,
     Statuses, Settled, Modes, PCs, Outcomes, RowShape, WorkerShape,
     DeliveryIsTrue, Observations
<1>8. ASSUME NEW w \in Workers, NEW l \in Leases, LeaseNextEffect(w, l) PROVE DeliveryIsTrue'
  BY <1>8 DEF LeaseNextEffect, RecoveredStatus, ExecutionMode, NextLeasable,
     Leasable, UsedLeases, row, drain, provider, TypeOK, Statuses, Settled,
     Modes, PCs, Outcomes, RowShape, WorkerShape, DeliveryIsTrue,
     Observations
<1>9. ASSUME NEW w \in Workers, Observe(w) PROVE DeliveryIsTrue'
  BY <1>9 DEF Observe, Conclude, Goto, DispatchNotStarted, row, drain,
     provider, TypeOK, Statuses, Settled, Modes, PCs, Outcomes, RowShape,
     WorkerShape, DeliveryIsTrue, Observations
<1>10. ASSUME NEW w \in Workers, ObserveFails(w) PROVE DeliveryIsTrue'
  BY <1>10 DEF ObserveFails, Conclude, Goto, row, drain, provider, TypeOK,
     Statuses, Settled, Modes, PCs, Outcomes, RowShape, WorkerShape,
     DeliveryIsTrue, Observations
<1>11. ASSUME NEW w \in Workers, PrepareDispatch(w) PROVE DeliveryIsTrue'
  BY <1>11 DEF PrepareDispatch, Goto, row, drain, provider, TypeOK,
     Statuses, Settled, Modes, PCs, Outcomes, RowShape, WorkerShape,
     DeliveryIsTrue, Observations
<1>12. ASSUME NEW w \in Workers, MarkDispatchStarted(w) PROVE DeliveryIsTrue'
  BY <1>12 DEF MarkDispatchStarted, OwnsLease, row, drain, provider, TypeOK,
     Statuses, Settled, Modes, PCs, Outcomes, RowShape, WorkerShape,
     DeliveryIsTrue, Observations
<1>13. ASSUME NEW w \in Workers, Dispatch(w) PROVE DeliveryIsTrue'
  BY <1>13 DEF Dispatch, Goto, row, drain, provider, TypeOK, Statuses,
     Settled, Modes, PCs, Outcomes, RowShape, WorkerShape, DeliveryIsTrue,
     Observations
<1>14. ASSUME NEW w \in Workers, Reobserve(w) PROVE DeliveryIsTrue'
  BY <1>14 DEF Reobserve, Conclude, Goto, row, drain, provider, TypeOK,
     Statuses, Settled, Modes, PCs, Outcomes, RowShape, WorkerShape,
     DeliveryIsTrue, Observations
<1>15. ASSUME NEW w \in Workers, HoldUnknown(w) PROVE DeliveryIsTrue'
  BY <1>15 DEF HoldUnknown, OwnsLease, LeaveDue, Release, row, drain,
     provider, TypeOK, Statuses, Settled, Modes, PCs, Outcomes, RowShape,
     WorkerShape, DeliveryIsTrue, Observations
<1>16. ASSUME NEW w \in Workers, AppendDelivery(w) PROVE DeliveryIsTrue'
  BY <1>16 DEF AppendDelivery, OwnsLease, LeaveDue, Release,
     DeliveredStatus, row, drain, provider, TypeOK, Statuses, Settled,
     Modes, PCs, Outcomes, RowShape, WorkerShape, DeliveryIsTrue,
     Observations
<1>17. ASSUME NEW w \in Workers, LeaseLost(w) PROVE DeliveryIsTrue'
  BY <1>17 DEF LeaseLost, Release, row, drain, provider, TypeOK, Statuses,
     Settled, Modes, PCs, Outcomes, RowShape, WorkerShape, DeliveryIsTrue,
     Observations
<1>18. ASSUME NEW w \in Workers, Crash(w) PROVE DeliveryIsTrue'
  BY <1>18 DEF Crash, Release, row, drain, provider, TypeOK, Statuses,
     Settled, Modes, PCs, Outcomes, RowShape, WorkerShape, DeliveryIsTrue,
     Observations
<1>19. ASSUME NEW e \in Effects, NEW f \in Leases, Execute(e, f) PROVE DeliveryIsTrue'
  BY <1>19 DEF Execute, row, drain, provider, TypeOK, Statuses, Settled,
     Modes, PCs, Outcomes, RowShape, WorkerShape, DeliveryIsTrue,
     Observations
<1>20. ASSUME NEW e \in Effects, NEW f \in Leases, Lose(e, f) PROVE DeliveryIsTrue'
  BY <1>20 DEF Lose, row, drain, provider, TypeOK, Statuses, Settled, Modes,
     PCs, Outcomes, RowShape, WorkerShape, DeliveryIsTrue, Observations
<1>21. CASE UNCHANGED vars
  BY <1>21 DEF vars, row, drain, provider, TypeOK, Statuses, Settled, Modes,
     PCs, Outcomes, RowShape, WorkerShape, DeliveryIsTrue, Observations
<1> QED
  BY <1>1, <1>2, <1>3, <1>4, <1>5, <1>6, <1>7, <1>8, <1>9, <1>10, <1>11,
     <1>12, <1>13, <1>14, <1>15, <1>16, <1>17, <1>18, <1>19, <1>20, <1>21
     DEF Next

\* The initial states satisfy the inductive invariant.
LEMMA InitIInv == Init => IInv
<1> SUFFICES ASSUME Init PROVE IInv
  OBVIOUS
<1> USE EffectKinds, Nulls, Bounds DEF Init, Fresh
<1>1. TypeOK
  BY DEF TypeOK, Statuses, Modes, PCs, Outcomes
<1>2. RowShape /\ WorkerShape
  BY DEF RowShape, WorkerShape
<1>3. OneDispatch /\ WorldShape
  BY DEF OneDispatch, WorldShape
<1>4. DeliveryIsTrue
  BY DEF DeliveryIsTrue
<1> QED
  BY <1>1, <1>2, <1>3, <1>4 DEF IInv

\* Every step preserves it.
LEMMA NextIInv == IInv /\ [Next]_vars => IInv'
BY TypeStep, RowStep, WorkerStep, DispatchStep, WorldStep, TruthStep DEF IInv

\* The inductive invariant holds in every reachable state.
LEMMA Invariance == Spec => []IInv
BY InitIInv, NextIInv, PTL DEF Spec

-----------------------------------------------------------------------------

\* The type invariant, for every value of the constants.
THEOREM TypeCorrect == Spec => []TypeOK
<1>1. IInv => TypeOK
  BY DEF IInv
<1> QED
  BY <1>1, Invariance, PTL

\* No crash, expiry, takeover, lost answer or operator makes the provider's
\* mutation entrypoint run twice for one effect.
THEOREM ExecutedAtMostOnce == Spec => []AtMostOneExecution
<1>1. IInv => AtMostOneExecution
  BY DEF IInv, WorldShape, AtMostOneExecution
<1> QED
  BY <1>1, Invariance, PTL

\* A row still offered for dispatch has reached the provider in no way.
THEOREM OfferedRowsUntouched == Spec => []OfferedIsUntouched
<1>1. IInv => OfferedIsUntouched
  BY EffectKinds, Nulls
     DEF IInv, TypeOK, RowShape, WorldShape, OfferedIsUntouched, Modes
<1> QED
  BY <1>1, Invariance, PTL

\* Every request on its way carries the fence its row retains.
THEOREM FencedRequests == Spec => []RequestsCarryTheFence
<1>1. IInv => RequestsCarryTheFence
  BY DEF IInv, WorldShape, RequestsCarryTheFence
<1> QED
  BY <1>1, Invariance, PTL

\* Deliveries agree with the provider.
THEOREM TrueDeliveries == Spec => []DeliveryIsTrue
<1>1. IInv => DeliveryIsTrue
  BY DEF IInv
<1> QED
  BY <1>1, Invariance, PTL

\* One worker at a time stands before the dispatch of a plain mutation.
THEOREM OneDispatcher == Spec => []SingleDispatcher
<1>1. IInv => SingleDispatcher
  BY DEF IInv, TypeOK, WorkerShape, OneDispatch, SingleDispatcher
<1> QED
  BY <1>1, Invariance, PTL

\* A step keeps every fence and every settlement.
LEMMA PermanentStep ==
  ASSUME IInv, [Next]_vars
  PROVE  \A x \in Effects :
            /\ fence[x] # NoLease => fence'[x] = fence[x]
            /\ status[x] \in Settled => status'[x] = status[x]
<1> DEFINE Kept == \A x \in Effects :
        /\ fence[x] # NoLease => fence'[x] = fence[x]
        /\ status[x] \in Settled => status'[x] = status[x]
<1> USE EffectKinds, Nulls, Bounds
<1>1. ASSUME NEW e \in Effects, Schedule(e) PROVE Kept
  BY <1>1 DEF Schedule, EnterDue, row, drain, provider, TypeOK, Statuses,
     Settled, Modes, PCs, Outcomes, IInv, RowShape, WorkerShape,
     Observations
<1>2. ASSUME NEW e \in Effects, BecomeDue(e) PROVE Kept
  BY <1>2 DEF BecomeDue, EnterDue, row, drain, provider, TypeOK, Statuses,
     Settled, Modes, PCs, Outcomes, IInv, RowShape, WorkerShape,
     Observations
<1>3. ASSUME NEW e \in Effects, LeaseExpires(e) PROVE Kept
  BY <1>3 DEF LeaseExpires, row, drain, provider, TypeOK, Statuses, Settled,
     Modes, PCs, Outcomes, IInv, RowShape, WorkerShape, Observations
<1>4. ASSUME NEW e \in Effects, RunEnds(e) PROVE Kept
  BY <1>4 DEF RunEnds, row, drain, provider, TypeOK, Statuses, Settled,
     Modes, PCs, Outcomes, IInv, RowShape, WorkerShape, Observations
<1>5. ASSUME NEW e \in Effects, RejectUnknown(e) PROVE Kept
  BY <1>5 DEF RejectUnknown, LeaveDue, row, drain, provider, TypeOK,
     Statuses, Settled, Modes, PCs, Outcomes, IInv, RowShape, WorkerShape,
     Observations
<1>6. ASSUME NEW e \in Effects, TargetAppears(e) PROVE Kept
  BY <1>6 DEF TargetAppears, row, drain, provider, TypeOK, Statuses,
     Settled, Modes, PCs, Outcomes, IInv, RowShape, WorkerShape,
     Observations
<1>7. ASSUME NEW w \in Workers, RecoverOnly(w) PROVE Kept
  BY <1>7 DEF RecoverOnly, RecoveredStatus, RecoverableBatch, row, drain,
     provider, TypeOK, Statuses, Settled, Modes, IInv, RowShape
<1>8. ASSUME NEW w \in Workers, NEW l \in Leases, LeaseNextEffect(w, l) PROVE Kept
  BY <1>8 DEF LeaseNextEffect, RecoveredStatus, ExecutionMode, NextLeasable,
     Leasable, UsedLeases, RecoverableBatch, row, drain, provider, TypeOK,
     Statuses, Settled, Modes, IInv, RowShape
<1>9. ASSUME NEW w \in Workers, Observe(w) PROVE Kept
  BY <1>9 DEF Observe, Conclude, Goto, DispatchNotStarted, row, drain,
     provider, TypeOK, Statuses, Settled, Modes, PCs, Outcomes, IInv,
     RowShape, WorkerShape, Observations
<1>10. ASSUME NEW w \in Workers, ObserveFails(w) PROVE Kept
  BY <1>10 DEF ObserveFails, Conclude, Goto, row, drain, provider, TypeOK,
     Statuses, Settled, Modes, PCs, Outcomes, IInv, RowShape, WorkerShape,
     Observations
<1>11. ASSUME NEW w \in Workers, PrepareDispatch(w) PROVE Kept
  BY <1>11 DEF PrepareDispatch, Goto, row, drain, provider, TypeOK,
     Statuses, Settled, Modes, PCs, Outcomes, IInv, RowShape, WorkerShape,
     Observations
<1>12. ASSUME NEW w \in Workers, MarkDispatchStarted(w) PROVE Kept
  BY <1>12 DEF MarkDispatchStarted, OwnsLease, row, drain, provider, TypeOK,
     Statuses, Settled, Modes, PCs, Outcomes, IInv, RowShape, WorkerShape,
     Observations
<1>13. ASSUME NEW w \in Workers, Dispatch(w) PROVE Kept
  BY <1>13 DEF Dispatch, Goto, row, drain, provider, TypeOK, Statuses,
     Settled, Modes, PCs, Outcomes, IInv, RowShape, WorkerShape,
     Observations
<1>14. ASSUME NEW w \in Workers, Reobserve(w) PROVE Kept
  BY <1>14 DEF Reobserve, Conclude, Goto, row, drain, provider, TypeOK,
     Statuses, Settled, Modes, PCs, Outcomes, IInv, RowShape, WorkerShape,
     Observations
<1>15. ASSUME NEW w \in Workers, HoldUnknown(w) PROVE Kept
  BY <1>15 DEF HoldUnknown, OwnsLease, LeaveDue, Release, row, drain,
     provider, TypeOK, Statuses, Settled, Modes, PCs, Outcomes, IInv,
     RowShape, WorkerShape, Observations
<1>16. ASSUME NEW w \in Workers, AppendDelivery(w) PROVE Kept
  BY <1>16 DEF AppendDelivery, OwnsLease, LeaveDue, Release,
     DeliveredStatus, row, drain, provider, TypeOK, Statuses, Settled,
     Modes, PCs, Outcomes, IInv, RowShape, WorkerShape, Observations
<1>17. ASSUME NEW w \in Workers, LeaseLost(w) PROVE Kept
  BY <1>17 DEF LeaseLost, Release, row, drain, provider, TypeOK, Statuses,
     Settled, Modes, PCs, Outcomes, IInv, RowShape, WorkerShape,
     Observations
<1>18. ASSUME NEW w \in Workers, Crash(w) PROVE Kept
  BY <1>18 DEF Crash, Release, row, drain, provider, TypeOK, Statuses,
     Settled, Modes, PCs, Outcomes, IInv, RowShape, WorkerShape,
     Observations
<1>19. ASSUME NEW e \in Effects, NEW f \in Leases, Execute(e, f) PROVE Kept
  BY <1>19 DEF Execute, row, drain, provider, TypeOK, Statuses, Settled,
     Modes, PCs, Outcomes, IInv, RowShape, WorkerShape, Observations
<1>20. ASSUME NEW e \in Effects, NEW f \in Leases, Lose(e, f) PROVE Kept
  BY <1>20 DEF Lose, row, drain, provider, TypeOK, Statuses, Settled, Modes,
     PCs, Outcomes, IInv, RowShape, WorkerShape, Observations
<1>21. CASE UNCHANGED vars
  BY <1>21 DEF vars, row, drain, provider, TypeOK, Statuses, Settled, Modes,
     PCs, Outcomes, IInv, RowShape, WorkerShape, Observations
<1> QED
  BY <1>1, <1>2, <1>3, <1>4, <1>5, <1>6, <1>7, <1>8, <1>9, <1>10, <1>11,
     <1>12, <1>13, <1>14, <1>15, <1>16, <1>17, <1>18, <1>19, <1>20, <1>21
     DEF Next

\* No step clears or replaces a dispatch fence or changes a settled row.
THEOREM PermanentFences == Spec => FenceAndSettlementArePermanent
<1>1. IInv /\ [Next]_vars => [\A e \in Effects :
        /\ fence[e] # NoLease => fence'[e] = fence[e]
        /\ status[e] \in Settled => status'[e] = status[e]]_vars
  BY PermanentStep
<1> QED
  BY <1>1, Invariance, PTL DEF Spec, FenceAndSettlementArePermanent

-----------------------------------------------------------------------------
(* The refinement.                                                         *)

\* Each step of the table, of a worker or of the provider is a step of the
\* contract, or leaves what the contract sees alone.
LEMMA RefinementStep ==
  ASSUME IInv, [Next]_vars
  PROVE  [Contract!Next]_(Contract!vars)
<1> USE EffectKinds, Nulls, Bounds
<1> DEFINE Same == UNCHANGED Contract!vars
<1>1. ASSUME NEW e \in Effects, Schedule(e) PROVE Contract!Promise(e)
  BY <1>1 DEF Schedule, EnterDue, row, provider, IInv, TypeOK, Settled,
     Outcomes, Contract!Promise, OpenStatuses
<1>2. ASSUME NEW e \in Effects, BecomeDue(e) PROVE Same
  BY <1>2 DEF BecomeDue, EnterDue, row, provider, IInv, TypeOK, WorkerShape,
     OpenStatuses, Contract!vars
<1>3. ASSUME NEW e \in Effects, LeaseExpires(e) PROVE Same
  BY <1>3 DEF LeaseExpires, row, provider, IInv, TypeOK, WorkerShape,
     OpenStatuses, Contract!vars
<1>4. ASSUME NEW e \in Effects, RunEnds(e) PROVE Same
  BY <1>4 DEF RunEnds, row, provider, IInv, TypeOK, WorkerShape,
     OpenStatuses, Contract!vars
<1>5. ASSUME NEW e \in Effects, RejectUnknown(e) PROVE Contract!Refuse(e)
  BY <1>5 DEF RejectUnknown, LeaveDue, row, provider, IInv, TypeOK, Settled,
     Outcomes, Contract!Refuse, OpenStatuses
<1>6. ASSUME NEW e \in Effects, TargetAppears(e) PROVE Contract!Appear(e)
  <2>1. executions[e] > 0 => executions[e] = 1
    BY DEF IInv, TypeOK, WorldShape
  <2> QED
    BY <1>6, <2>1 DEF TargetAppears, row, Contract!Appear, Contract!Outcomes, Outcomes
<1>7. ASSUME NEW w \in Workers, RecoverOnly(w) PROVE Same
  BY <1>7 DEF RecoverOnly, RecoveredStatus, RecoverableBatch, provider,
     IInv, TypeOK, Statuses, OpenStatuses, Contract!vars
<1>8. ASSUME NEW w \in Workers, NEW l \in Leases, LeaseNextEffect(w, l) PROVE Same
  BY <1>8 DEF LeaseNextEffect, RecoveredStatus, ExecutionMode, NextLeasable,
     Leasable, UsedLeases, RecoverableBatch, provider, IInv, TypeOK,
     Statuses, OpenStatuses, Contract!vars
<1>9. ASSUME NEW w \in Workers, Observe(w) PROVE Same
  BY <1>9 DEF Observe, Conclude, Goto, DispatchNotStarted, row, provider,
     IInv, TypeOK, WorkerShape, OpenStatuses, Contract!vars
<1>10. ASSUME NEW w \in Workers, ObserveFails(w) PROVE Same
  BY <1>10 DEF ObserveFails, Conclude, Goto, row, provider, IInv, TypeOK,
     WorkerShape, OpenStatuses, Contract!vars
<1>11. ASSUME NEW w \in Workers, PrepareDispatch(w) PROVE Same
  BY <1>11 DEF PrepareDispatch, Goto, row, provider, IInv, TypeOK,
     WorkerShape, OpenStatuses, Contract!vars
<1>12. ASSUME NEW w \in Workers, MarkDispatchStarted(w) PROVE Same
  BY <1>12 DEF MarkDispatchStarted, OwnsLease, row, provider, IInv, TypeOK,
     WorkerShape, OpenStatuses, Contract!vars
<1>13. ASSUME NEW w \in Workers, Dispatch(w) PROVE Same
  BY <1>13 DEF Dispatch, Goto, row, provider, IInv, TypeOK, WorkerShape,
     OpenStatuses, Contract!vars
<1>14. ASSUME NEW w \in Workers, Reobserve(w) PROVE Same
  BY <1>14 DEF Reobserve, Conclude, Goto, row, provider, IInv, TypeOK,
     WorkerShape, OpenStatuses, Contract!vars
<1>15. ASSUME NEW w \in Workers, HoldUnknown(w) PROVE Same
  BY <1>15 DEF HoldUnknown, OwnsLease, LeaveDue, Release, row, provider,
     IInv, TypeOK, WorkerShape, OpenStatuses, Contract!vars
<1>16. ASSUME NEW w \in Workers, AppendDelivery(w)
      PROVE \E e \in Effects : Contract!Settle(e)
  <2>1. /\ job[w] \in Effects /\ seen[w] \in Outcomes
        /\ target[job[w]] = seen[w] /\ status[job[w]] = "processing"
    BY <1>16 DEF AppendDelivery, OwnsLease, IInv, WorkerShape
  <2>2. /\ status' = [status EXCEPT ![job[w]] = DeliveredStatus(seen[w])]
        /\ UNCHANGED <<executions, target>>
    BY <1>16 DEF AppendDelivery, provider
  <2>3. Contract!Settle(job[w])
    BY <2>1, <2>2 DEF Contract!Settle, DeliveredStatus, OpenStatuses, Outcomes, IInv, TypeOK
  <2> QED
    BY <2>1, <2>3 DEF Contract!Settle
<1>17. ASSUME NEW w \in Workers, LeaseLost(w) PROVE Same
  BY <1>17 DEF LeaseLost, Release, row, provider, IInv, TypeOK, WorkerShape,
     OpenStatuses, Contract!vars
<1>18. ASSUME NEW w \in Workers, Crash(w) PROVE Same
  BY <1>18 DEF Crash, Release, row, provider, IInv, TypeOK, WorkerShape,
     OpenStatuses, Contract!vars
<1>19. ASSUME NEW e \in Effects, NEW f \in Leases, Execute(e, f)
      PROVE Contract!Perform(e) \/ Same
  <2>1. e \in Mutations /\ fence[e] # NoLease
    BY <1>19 DEF Execute, IInv, WorldShape
  <2>2. status[e] # "none"
    BY <2>1 DEF IInv, RowShape
  <2>4. CASE e \in Prepared /\ (executions[e] > 0 \/ target[e] # "absent")
    BY <2>4, <1>19 DEF Execute, row, Contract!vars
  <2>5. CASE ~(e \in Prepared /\ (executions[e] > 0 \/ target[e] # "absent"))
    <3>1. executions[e] = 0
      BY <2>5, <1>19 DEF Execute, IInv, TypeOK, OneDispatch
    <3>2. executions' = [executions EXCEPT ![e] = 1]
      BY <2>5, <3>1, <1>19 DEF Execute, IInv, TypeOK
    <3>3. \/ UNCHANGED target
          \/ /\ target[e] = "absent"
             /\ \E o \in Outcomes : target' = [target EXCEPT ![e] = o]
      BY <2>5, <1>19 DEF Execute
    <3>4. UNCHANGED status
      BY <1>19 DEF Execute, row
    <3> QED
      BY <2>1, <2>2, <3>1, <3>2, <3>3, <3>4
         DEF Contract!Perform, Contract!Outcomes, Outcomes, OpenStatuses
  <2> QED
    BY <2>4, <2>5
<1>20. ASSUME NEW e \in Effects, NEW f \in Leases, Lose(e, f) PROVE Same
  BY <1>20 DEF Lose, row, provider, IInv, TypeOK, WorkerShape, OpenStatuses,
     Contract!vars
<1>21. CASE UNCHANGED vars
  BY <1>21 DEF vars, row, provider, Contract!vars
<1> QED
  BY <1>1, <1>2, <1>3, <1>4, <1>5, <1>6, <1>7, <1>8, <1>9, <1>10, <1>11,
     <1>12, <1>13, <1>14, <1>15, <1>16, <1>17, <1>18, <1>19, <1>20, <1>21
     DEF Next, Contract!Next

\* EffectDelivery implements EffectContract.
THEOREM Implementation == Spec => ImplementsContract
<1>1. Init => Contract!Init
  BY DEF Init, Fresh, Contract!Init, OpenStatuses
<1>2. IInv /\ [Next]_vars => [Contract!Next]_(Contract!vars)
  BY RefinementStep
<1> QED
  BY <1>1, <1>2, Invariance, PTL DEF Spec, ImplementsContract, Contract!Spec

\* What the rows of effects say of the provider is so, whoever died between the
\* request and the row.
THEOREM DeliveriesSafe == Spec => []DeliverySafe
BY OneDispatcher, FencedRequests, OfferedRowsUntouched, TrueDeliveries, PTL DEF DeliverySafe
=============================================================================
