----------------------- MODULE ExecutionKernelProofs -----------------------
(***************************************************************************)
(* The safety of ExecutionKernel for every frontier, every set of          *)
(* executions and every limit.  RowMoves sorts the steps by what they do   *)
(* to the run and attempt rows: most do nothing, four end the run, and     *)
(* nine write one attempt.  Each part of IInv is then preserved by a lemma *)
(* with one step per kind of move, and the theorems read the properties    *)
(* off IInv.                                                               *)
(***************************************************************************)
EXTENDS ExecutionKernel, FiniteSetTheorems, TLAPS

\* What a commit knows once its view has proved fresh: the view is the run,
\* the run is in the wave and the attempt is an active one.
LEMMA LoadedIsLive ==
  ASSUME IInv, NEW w \in Executions, pc[w] # "idle", Loaded(w)
  PROVE  /\ job[w] \in Attempts /\ job[w] \in active
         /\ run = "wave"
         /\ status[job[w]] \in Statuses \ TerminalStatuses
         /\ seenActive[w] = active /\ seenDone[w] = done
BY DEF IInv, Loaded, ViewShape, FrontierIsUnsettled, TypeOK

\* What it knows of its lease on top of that.
LEMMA ClaimedIsLeased ==
  ASSUME IInv, NEW w \in Executions, pc[w] # "idle", Claimed(w)
  PROVE  /\ holder[job[w]] = w /\ w # None
         /\ status[job[w]] \in {"pending", "running", "result_pending"}
BY LoadedIsLive, NoneAssumption DEF Claimed, OwnsClaim, IInv, RowShape

-----------------------------------------------------------------------------
(* The kinds of moves.                                                     *)

Quiet == UNCHANGED <<runRow, rows, holder>>

\* The run ends, and every active attempt with it.
Ended(attemptStatus, end) ==
    /\ run = "wave"
    /\ EndRun(active, attemptStatus, end)

FatalStatuses == {"failed", "needs_human", "canceled", "superseded"}

\* The steps of an execution that write nothing but its lease's expiry.
LEMMA QuietStep ==
  ASSUME NEW w \in Executions,
         \/ \E a \in Attempts : ResumeReady(w, a)
         \/ \E o \in WorkOutcomes \cup CorrectionOutcomes : Answer(w, o)
         \/ Load(w) \/ Launch(w) \/ Throw(w) \/ DecideRecovery(w)
         \/ RecoveryStale(w) \/ RecoveryRefused(w) \/ Abandon(w)
         \/ GiveUp(w) \/ Renew(w) \/ Crash(w)
  PROVE  Quiet
BY DEF Quiet, ResumeReady, Answer, Load, Launch, Throw, DecideRecovery,
   RecoveryStale, RecoveryRefused, Abandon, GiveUp, Renew, Crash, runRow,
   rows, leaseColumns

\* Every way to end the run ends all that is active in it.
LEMMA EndStep ==
  ASSUME IInv, NEW w \in Executions,
         ReplacePool(w) \/ Terminate(w) \/ Quarantine(w)
  PROVE  \E s \in FatalStatuses, e \in Ends \ {"successor"} : Ended(s, e)
<1>1. CASE ReplacePool(w)
  <2>1. pc[w] # "idle" /\ Loaded(w) /\ EndRun(seenActive[w], "failed", "recovery")
    BY <1>1 DEF ReplacePool, Claimed
  <2> QED
    BY <2>1, LoadedIsLive DEF Ended, Ends, FatalStatuses
<1>2. CASE Quarantine(w)
  <2>1. /\ pc[w] # "idle" /\ Loaded(w)
        /\ EndRun(seenActive[w], "needs_human", "quarantined")
    BY <1>2 DEF Quarantine, Claimed
  <2> QED
    BY <2>1, LoadedIsLive DEF Ended, Ends, FatalStatuses
<1>3. CASE Terminate(w)
  <2>1. pc[w] # "idle" /\ Loaded(w)
    BY <1>3 DEF Terminate, MustFail, MustAsk, Claimed
  <2>2. \/ EndRun(seenActive[w], "failed", "failed")
        \/ EndRun(seenActive[w], "needs_human", "needs_human")
    BY <1>3 DEF Terminate
  <2> QED
    BY <2>1, <2>2, LoadedIsLive DEF Ended, Ends, FatalStatuses
<1> QED
  BY <1>1, <1>2, <1>3

LEMMA RowMoves ==
  ASSUME IInv, [Next]_vars
  PROVE  \/ Quiet
         \/ \E s \in FatalStatuses, e \in Ends \ {"successor"} : Ended(s, e)
         \/ \E w \in Executions :
              \/ \E a \in Attempts : Lease(w, a) \/ Recover(w, a)
              \/ Start(w) \/ BindSession(w) \/ CompleteWork(w)
              \/ ResultPending(w) \/ Record(w) \/ Settle(w) \/ Retry(w)
<1>1. CASE UNCHANGED vars
  BY <1>1 DEF vars, Quiet, leaseColumns
<1>2. ASSUME NEW a \in Attempts, LeaseExpires(a) PROVE Quiet
  BY <1>2 DEF LeaseExpires, Quiet, runRow, rows
<1>3. CASE RunControl
  <2> PICK end \in {"canceled", "superseded"} : EndRun(active, end, end)
    BY <1>3 DEF RunControl
  <2> QED
    BY <1>3 DEF RunControl, Ended, Ends, FatalStatuses
<1> QED
  BY <1>1, <1>2, <1>3, QuietStep, EndStep DEF Next

-----------------------------------------------------------------------------
(* The parts of IInv that speak of the run and attempt rows.               *)

\* The fan-in.  A commit writes back the run's columns it has seen, which are
\* the run's own as its view is fresh.
LEMMA FrontierStep ==
  ASSUME IInv, [Next]_vars
  PROVE  FrontierIsUnsettled'
<1> USE DEF IInv, FrontierIsUnsettled
<1>1. CASE Quiet
  BY <1>1 DEF Quiet, runRow, rows
<1>2. ASSUME NEW s \in FatalStatuses, NEW e \in Ends \ {"successor"}, Ended(s, e)
      PROVE  FrontierIsUnsettled'
  BY <1>2 DEF Ended, EndRun, ClearLease, TypeOK, FatalStatuses, Ends,
     TerminalStatuses, RowShape
<1>3. ASSUME NEW w \in Executions, NEW a \in Attempts, Lease(w, a)
      PROVE  FrontierIsUnsettled'
  BY <1>3 DEF Lease, runRow
<1>4. ASSUME NEW w \in Executions, NEW a \in Attempts, Recover(w, a)
      PROVE  FrontierIsUnsettled'
  BY <1>4 DEF Recover, runRow, rows
<1>5. ASSUME NEW w \in Executions, Start(w) PROVE FrontierIsUnsettled'
  BY <1>5, LoadedIsLive, ClaimedIsLeased DEF Start, Claimed, StartedStatus,
     ReplaceAttempt, TypeOK, TerminalStatuses
<1>6. ASSUME NEW w \in Executions, BindSession(w) PROVE FrontierIsUnsettled'
  BY <1>6, LoadedIsLive DEF BindSession, Claimed, ReplaceAttempt, leaseColumns
<1>7. ASSUME NEW w \in Executions, CompleteWork(w) PROVE FrontierIsUnsettled'
  BY <1>7, LoadedIsLive DEF CompleteWork, Claimed, ReplaceAttempt, TypeOK,
     TerminalStatuses
<1>8. ASSUME NEW w \in Executions, ResultPending(w) PROVE FrontierIsUnsettled'
  BY <1>8, LoadedIsLive DEF ResultPending, Claimed, ReplaceAttempt, TypeOK,
     TerminalStatuses
<1>9. ASSUME NEW w \in Executions, Record(w) PROVE FrontierIsUnsettled'
  BY <1>9, LoadedIsLive DEF Record, ReplaceAttempt, TypeOK, TerminalStatuses
<1>10. ASSUME NEW w \in Executions, Settle(w) PROVE FrontierIsUnsettled'
  <2>1. /\ job[w] \in active /\ run = "wave"
        /\ status' = [status EXCEPT ![job[w]] = "settled"]
        /\ holder' = [a \in Attempts |-> IF a = job[w] THEN None ELSE holder[a]]
        /\ done' = done \cup {job[w]}
        /\ IF done' = Attempts
           THEN run' = "successor" /\ active' = {}
           ELSE run' = "wave" /\ active' = active \ {job[w]}
    BY <1>10, LoadedIsLive DEF Settle, Claimed, Advance, ClearLease
  <2>2. done' = {a \in Attempts : status'[a] = "settled"}
    BY <2>1 DEF TypeOK
  <2>3. \A a \in Attempts : status[a] = "settled" => holder[a] = None
    BY DEF RowShape
  <2> QED
    BY <2>1, <2>2, <2>3 DEF TypeOK, TerminalStatuses
<1>11. ASSUME NEW w \in Executions, Retry(w) PROVE FrontierIsUnsettled'
  BY <1>11, LoadedIsLive DEF Retry, Claimed, ReplaceAttempt, TypeOK,
     TerminalStatuses
<1> QED
  BY <1>1, <1>2, <1>3, <1>4, <1>5, <1>6, <1>7, <1>8, <1>9, <1>10, <1>11,
     RowMoves

\* Status and columns keep agreeing; a commit that moves a leased attempt past
\* its lease clears it.
LEMMA RowStep ==
  ASSUME IInv, [Next]_vars
  PROVE  RowShape'
<1> USE LimitAssumption, NoneAssumption
        DEF IInv, RowShape, CorrectionCap, TypeOK
<1>1. CASE Quiet
  BY <1>1 DEF Quiet, rows
<1>2. ASSUME NEW s \in FatalStatuses, NEW e \in Ends \ {"successor"}, Ended(s, e)
      PROVE  RowShape'
  BY <1>2 DEF Ended, EndRun, ClearLease, FatalStatuses
<1>3. ASSUME NEW w \in Executions, NEW a \in Attempts, Lease(w, a)
      PROVE  RowShape'
  BY <1>3 DEF Lease
<1>4. ASSUME NEW w \in Executions, NEW a \in Attempts, Recover(w, a)
      PROVE  RowShape'
  BY <1>4 DEF Recover, rows
<1>5. ASSUME NEW w \in Executions, Start(w) PROVE RowShape'
  BY <1>5, LoadedIsLive, ClaimedIsLeased DEF Start, Claimed, StartedStatus
<1>6. ASSUME NEW w \in Executions, BindSession(w) PROVE RowShape'
  BY <1>6 DEF BindSession, leaseColumns
<1>7. ASSUME NEW w \in Executions, CompleteWork(w) PROVE RowShape'
  BY <1>7, LoadedIsLive DEF CompleteWork, Claimed, ClearLease
<1>8. ASSUME NEW w \in Executions, ResultPending(w) PROVE RowShape'
  <2>1. /\ job[w] \in Attempts
        /\ status' = [status EXCEPT ![job[w]] = "result_pending"]
        /\ holder' = [a \in Attempts |-> IF a = job[w] THEN None ELSE holder[a]]
        /\ UNCHANGED <<checkpoint, corrections>>
    BY <1>8, LoadedIsLive DEF ResultPending, Claimed, ClearLease
  <2>2. corrections[job[w]] = 0 \/ corrections[job[w]] < CorrectionLimit
    BY <1>8, <2>1 DEF ResultPending
  <2>3. corrections[job[w]] < CorrectionCap
    BY <2>1, <2>2
  <2> QED
    BY <2>1, <2>3
<1>9. ASSUME NEW w \in Executions, Record(w) PROVE RowShape'
  BY <1>9, LoadedIsLive DEF Record, leaseColumns
<1>10. ASSUME NEW w \in Executions, Settle(w) PROVE RowShape'
  BY <1>10, LoadedIsLive DEF Settle, Claimed, ClearLease
<1>11. ASSUME NEW w \in Executions, Retry(w) PROVE RowShape'
  BY <1>11, LoadedIsLive, ClaimedIsLeased DEF Retry, Claimed, Correcting,
     ClearLease
<1> QED
  BY <1>1, <1>2, <1>3, <1>4, <1>5, <1>6, <1>7, <1>8, <1>9, <1>10, <1>11,
     RowMoves

\* A lease that counts a correction is given below the cap only.
LEMMA BudgetStep ==
  ASSUME IInv, [Next]_vars
  PROVE  CorrectionBudget'
<1> USE LimitAssumption DEF IInv, CorrectionBudget, CorrectionCap, TypeOK
<1>1. CASE UNCHANGED corrections
  BY <1>1
<1>2. ASSUME NEW w \in Executions, NEW a \in Attempts, Lease(w, a)
      PROVE  CorrectionBudget'
  BY <1>2 DEF Lease, RowShape
<1> QED
  BY <1>1, <1>2, RowMoves DEF Quiet, rows, Ended, EndRun, Recover, Start,
     BindSession, CompleteWork, ResultPending, Record, Settle, Retry

\* Only a retry forgets a session, and the work that it belongs to with it.
LEMMA SessionStep ==
  ASSUME IInv, [Next]_vars
  PROVE  SessionOfThisWork'
<1> USE NoneAssumption DEF IInv, SessionOfThisWork, TypeOK, Completed
<1>1. CASE Quiet
  BY <1>1 DEF Quiet, rows
<1>2. ASSUME NEW s \in FatalStatuses, NEW e \in Ends \ {"successor"}, Ended(s, e)
      PROVE  SessionOfThisWork'
  BY <1>2 DEF Ended, EndRun, FatalStatuses
<1>3. ASSUME NEW w \in Executions, NEW a \in Attempts, Lease(w, a)
      PROVE  SessionOfThisWork'
  BY <1>3 DEF Lease
<1>4. ASSUME NEW w \in Executions, NEW a \in Attempts, Recover(w, a)
      PROVE  SessionOfThisWork'
  BY <1>4 DEF Recover, rows
<1>5. ASSUME NEW w \in Executions, Start(w) PROVE SessionOfThisWork'
  BY <1>5, LoadedIsLive, ClaimedIsLeased DEF Start, Claimed, StartedStatus
<1>6. ASSUME NEW w \in Executions, BindSession(w) PROVE SessionOfThisWork'
  BY <1>6, LoadedIsLive DEF BindSession, Claimed
<1>7. ASSUME NEW w \in Executions, CompleteWork(w) PROVE SessionOfThisWork'
  BY <1>7, LoadedIsLive DEF CompleteWork, Claimed, AnswerShape
<1>8. ASSUME NEW w \in Executions, ResultPending(w) PROVE SessionOfThisWork'
  BY <1>8, LoadedIsLive DEF ResultPending, Claimed, Correcting
<1>9. ASSUME NEW w \in Executions, Record(w) PROVE SessionOfThisWork'
  BY <1>9, LoadedIsLive DEF Record
<1>10. ASSUME NEW w \in Executions, Settle(w) PROVE SessionOfThisWork'
  BY <1>10, LoadedIsLive DEF Settle, Claimed, Correcting
<1>11. ASSUME NEW w \in Executions, Retry(w) PROVE SessionOfThisWork'
  BY <1>11, LoadedIsLive DEF Retry, Claimed
<1> QED
  BY <1>1, <1>2, <1>3, <1>4, <1>5, <1>6, <1>7, <1>8, <1>9, <1>10, <1>11,
     RowMoves

-----------------------------------------------------------------------------
(* The parts of IInv that speak of executions and their views.             *)

\* Every variable keeps its type.
LEMMA TypeStep ==
  ASSUME IInv, [Next]_vars
  PROVE  TypeOK'
<1> USE LimitAssumption DEF IInv, TypeOK, PCs, Statuses, Completed,
        TerminalStatuses, Ends, WorkOutcomes, CorrectionOutcomes
<1>1. CASE UNCHANGED vars
  BY <1>1 DEF vars, runRow, rows, leaseColumns, views, local
<1>2. ASSUME NEW w \in Executions, NEW a \in Attempts, Lease(w, a)
      PROVE  TypeOK'
  BY <1>2 DEF Lease, Begin, MoveVersion, runRow
<1>3. ASSUME NEW w \in Executions, NEW a \in Attempts, Recover(w, a)
      PROVE  TypeOK'
  BY <1>3 DEF Recover, Begin, MoveVersion, runRow, rows
<1>4. ASSUME NEW w \in Executions, NEW a \in Attempts, ResumeReady(w, a)
      PROVE  TypeOK'
  BY <1>4 DEF ResumeReady, Begin, runRow, rows, leaseColumns, views
<1>5. ASSUME NEW w \in Executions,
             NEW o \in WorkOutcomes \cup CorrectionOutcomes, Answer(w, o)
      PROVE  TypeOK'
  BY <1>5 DEF Answer, Forget, runRow, rows, leaseColumns
<1>6. ASSUME NEW w \in Executions, Load(w) PROVE TypeOK'
  BY <1>6 DEF Load, Goto, local, runRow, rows, leaseColumns
<1>7. ASSUME NEW w \in Executions, Start(w) PROVE TypeOK'
  BY <1>7, LoadedIsLive DEF Start, Claimed, StartedStatus, ReplaceAttempt,
     MoveVersion, local
<1>8. ASSUME NEW w \in Executions, Launch(w) PROVE TypeOK'
  BY <1>8 DEF Launch, Goto, Forget, runRow, rows, leaseColumns
<1>9. ASSUME NEW w \in Executions, BindSession(w) PROVE TypeOK'
  BY <1>9, LoadedIsLive DEF BindSession, Claimed, ReplaceAttempt,
     MoveVersion, leaseColumns, local
<1>10. ASSUME NEW w \in Executions, Throw(w) PROVE TypeOK'
  BY <1>10 DEF Throw, Goto, Forget, runRow, rows, leaseColumns
<1>11. ASSUME NEW w \in Executions, CompleteWork(w) PROVE TypeOK'
  BY <1>11, LoadedIsLive DEF CompleteWork, Claimed, ClearLease,
     ReplaceAttempt, MoveVersion, Goto
<1>12. ASSUME NEW w \in Executions, ResultPending(w) PROVE TypeOK'
  BY <1>12, LoadedIsLive DEF ResultPending, Claimed, ClearLease,
     ReplaceAttempt, MoveVersion, Finish
<1>13. ASSUME NEW w \in Executions, Record(w) PROVE TypeOK'
  BY <1>13, LoadedIsLive DEF Record, ReplaceAttempt, MoveVersion, Goto,
     leaseColumns
<1>14. ASSUME NEW w \in Executions, Settle(w) PROVE TypeOK'
  BY <1>14, LoadedIsLive DEF Settle, Claimed, ClearLease, Advance,
     MoveVersion, Finish
<1>15. ASSUME NEW w \in Executions, Retry(w) PROVE TypeOK'
  BY <1>15, LoadedIsLive DEF Retry, Claimed, ClearLease, ReplaceAttempt,
     MoveVersion, Finish
<1>16. ASSUME NEW w \in Executions, DecideRecovery(w) PROVE TypeOK'
  BY <1>16 DEF DecideRecovery, Forget, runRow, rows, leaseColumns
<1>17. ASSUME NEW w \in Executions, RecoveryStale(w) PROVE TypeOK'
  BY <1>17 DEF RecoveryStale, runRow, rows, leaseColumns, views
<1>18. ASSUME NEW w \in Executions, RecoveryRefused(w) PROVE TypeOK'
  BY <1>18 DEF RecoveryRefused, Goto, runRow, rows, leaseColumns, views
<1>19. ASSUME NEW w \in Executions, ReplacePool(w) PROVE TypeOK'
  BY <1>19 DEF ReplacePool, Claimed, EndRun, ClearLease, MoveVersion,
     Finish
<1>20. ASSUME NEW w \in Executions, Terminate(w) PROVE TypeOK'
  <2>1. CASE EndRun(seenActive[w], "failed", "failed")
    BY <1>20, <2>1 DEF Terminate, EndRun, ClearLease, MoveVersion, Finish
  <2>2. CASE EndRun(seenActive[w], "needs_human", "needs_human")
    BY <1>20, <2>2 DEF Terminate, EndRun, ClearLease, MoveVersion, Finish
  <2> QED
    BY <1>20, <2>1, <2>2 DEF Terminate
<1>21. ASSUME NEW w \in Executions, Abandon(w) PROVE TypeOK'
  BY <1>21 DEF Abandon, Forget, Finish, runRow, rows, leaseColumns
<1>22. ASSUME NEW w \in Executions, Quarantine(w) PROVE TypeOK'
  BY <1>22 DEF Quarantine, EndRun, ClearLease, MoveVersion, Finish
<1>23. ASSUME NEW w \in Executions, GiveUp(w) PROVE TypeOK'
  BY <1>23 DEF GiveUp, Forget, Finish, runRow, rows, leaseColumns
<1>24. ASSUME NEW w \in Executions, Renew(w) PROVE TypeOK'
  BY <1>24 DEF Renew, MoveVersion, runRow, rows, local
<1>25. ASSUME NEW w \in Executions, Crash(w) PROVE TypeOK'
  BY <1>25 DEF Crash, Forget, Finish, runRow, rows, leaseColumns
<1>26. ASSUME NEW a \in Attempts, LeaseExpires(a) PROVE TypeOK'
  BY <1>26 DEF LeaseExpires, runRow, rows, views, local
<1>27. CASE RunControl
  BY <1>27 DEF RunControl, EndRun, ClearLease, MoveVersion, local
<1> QED
  BY <1>1, <1>2, <1>3, <1>4, <1>5, <1>6, <1>7, <1>8, <1>9, <1>10, <1>11,
     <1>12, <1>13, <1>14, <1>15, <1>16, <1>17, <1>18, <1>19, <1>20, <1>21,
     <1>22, <1>23, <1>24, <1>25, <1>26, <1>27 DEF Next

\* A view is fresh until the next write, and no execution is busy without an
\* attempt.
LEMMA ViewStep ==
  ASSUME IInv, [Next]_vars
  PROVE  ViewShape'
<1> USE DEF IInv, TypeOK, ViewShape
<1>1. CASE UNCHANGED vars
  BY <1>1 DEF vars, runRow, rows, leaseColumns, views, local
<1>2. ASSUME NEW w \in Executions, NEW a \in Attempts, Lease(w, a)
      PROVE  ViewShape'
  BY <1>2 DEF Lease, Begin, MoveVersion, runRow
<1>3. ASSUME NEW w \in Executions, NEW a \in Attempts, Recover(w, a)
      PROVE  ViewShape'
  BY <1>3 DEF Recover, Begin, MoveVersion, runRow, rows
<1>4. ASSUME NEW w \in Executions, NEW a \in Attempts, ResumeReady(w, a)
      PROVE  ViewShape'
  BY <1>4 DEF ResumeReady, Begin, runRow, rows, leaseColumns, views
<1>5. ASSUME NEW w \in Executions,
             NEW o \in WorkOutcomes \cup CorrectionOutcomes, Answer(w, o)
      PROVE  ViewShape'
  BY <1>5 DEF Answer, Forget, runRow, rows, leaseColumns
<1>6. ASSUME NEW w \in Executions, Load(w) PROVE ViewShape'
  BY <1>6 DEF Load, Goto, local, runRow, rows, leaseColumns
<1>7. ASSUME NEW w \in Executions, Start(w) PROVE ViewShape'
  BY <1>7, LoadedIsLive DEF Start, Claimed, StartedStatus, ReplaceAttempt,
     MoveVersion, local
<1>8. ASSUME NEW w \in Executions, Launch(w) PROVE ViewShape'
  BY <1>8 DEF Launch, Goto, Forget, runRow, rows, leaseColumns
<1>9. ASSUME NEW w \in Executions, BindSession(w) PROVE ViewShape'
  BY <1>9, LoadedIsLive DEF BindSession, Claimed, ReplaceAttempt,
     MoveVersion, leaseColumns, local
<1>10. ASSUME NEW w \in Executions, Throw(w) PROVE ViewShape'
  BY <1>10 DEF Throw, Goto, Forget, runRow, rows, leaseColumns
<1>11. ASSUME NEW w \in Executions, CompleteWork(w) PROVE ViewShape'
  BY <1>11, LoadedIsLive DEF CompleteWork, Claimed, ClearLease,
     ReplaceAttempt, MoveVersion, Goto
<1>12. ASSUME NEW w \in Executions, ResultPending(w) PROVE ViewShape'
  BY <1>12, LoadedIsLive DEF ResultPending, Claimed, ClearLease,
     ReplaceAttempt, MoveVersion, Finish
<1>13. ASSUME NEW w \in Executions, Record(w) PROVE ViewShape'
  BY <1>13, LoadedIsLive DEF Record, ReplaceAttempt, MoveVersion, Goto,
     leaseColumns
<1>14. ASSUME NEW w \in Executions, Settle(w) PROVE ViewShape'
  BY <1>14, LoadedIsLive DEF Settle, Claimed, ClearLease, Advance,
     MoveVersion, Finish
<1>15. ASSUME NEW w \in Executions, Retry(w) PROVE ViewShape'
  BY <1>15, LoadedIsLive DEF Retry, Claimed, ClearLease, ReplaceAttempt,
     MoveVersion, Finish
<1>16. ASSUME NEW w \in Executions, DecideRecovery(w) PROVE ViewShape'
  BY <1>16 DEF DecideRecovery, Forget, runRow, rows, leaseColumns
<1>17. ASSUME NEW w \in Executions, RecoveryStale(w) PROVE ViewShape'
  BY <1>17 DEF RecoveryStale, runRow, rows, leaseColumns, views
<1>18. ASSUME NEW w \in Executions, RecoveryRefused(w) PROVE ViewShape'
  BY <1>18 DEF RecoveryRefused, Goto, runRow, rows, leaseColumns, views
<1>19. ASSUME NEW w \in Executions, ReplacePool(w) PROVE ViewShape'
  BY <1>19 DEF ReplacePool, Claimed, EndRun, ClearLease, MoveVersion,
     Finish
<1>20. ASSUME NEW w \in Executions, Terminate(w) PROVE ViewShape'
  BY <1>20 DEF Terminate, EndRun, ClearLease, MoveVersion, Finish
<1>21. ASSUME NEW w \in Executions, Abandon(w) PROVE ViewShape'
  BY <1>21 DEF Abandon, Forget, Finish, runRow, rows, leaseColumns
<1>22. ASSUME NEW w \in Executions, Quarantine(w) PROVE ViewShape'
  BY <1>22 DEF Quarantine, EndRun, ClearLease, MoveVersion, Finish
<1>23. ASSUME NEW w \in Executions, GiveUp(w) PROVE ViewShape'
  BY <1>23 DEF GiveUp, Forget, Finish, runRow, rows, leaseColumns
<1>24. ASSUME NEW w \in Executions, Renew(w) PROVE ViewShape'
  BY <1>24 DEF Renew, MoveVersion, runRow, rows, local
<1>25. ASSUME NEW w \in Executions, Crash(w) PROVE ViewShape'
  BY <1>25 DEF Crash, Forget, Finish, runRow, rows, leaseColumns
<1>26. ASSUME NEW a \in Attempts, LeaseExpires(a) PROVE ViewShape'
  BY <1>26 DEF LeaseExpires, runRow, rows, views, local
<1>27. CASE RunControl
  BY <1>27 DEF RunControl, EndRun, ClearLease, MoveVersion, local
<1> QED
  BY <1>1, <1>2, <1>3, <1>4, <1>5, <1>6, <1>7, <1>8, <1>9, <1>10, <1>11,
     <1>12, <1>13, <1>14, <1>15, <1>16, <1>17, <1>18, <1>19, <1>20, <1>21,
     <1>22, <1>23, <1>24, <1>25, <1>26, <1>27 DEF Next

\* While an execution owns the claim of its attempt, no other one can take the
\* session away that its answer relies on.
LEMMA AnswerStep ==
  ASSUME IInv, [Next]_vars
  PROVE  AnswerShape'
<1> USE NoneAssumption DEF IInv, TypeOK, AnswerShape, OwnsClaim, PCs
<1>1. CASE UNCHANGED vars
  BY <1>1 DEF vars, runRow, rows, leaseColumns, views, local
<1>2. ASSUME NEW w \in Executions, NEW a \in Attempts, Lease(w, a)
      PROVE  AnswerShape'
  BY <1>2 DEF Lease, Begin, MoveVersion, runRow, ViewShape
<1>3. ASSUME NEW w \in Executions, NEW a \in Attempts, Recover(w, a)
      PROVE  AnswerShape'
  BY <1>3 DEF Recover, Begin, MoveVersion, runRow, rows, ViewShape
<1>4. ASSUME NEW w \in Executions, NEW a \in Attempts, ResumeReady(w, a)
      PROVE  AnswerShape'
  BY <1>4 DEF ResumeReady, Begin, runRow, rows, leaseColumns, views,
     ViewShape
<1>5. ASSUME NEW w \in Executions,
             NEW o \in WorkOutcomes \cup CorrectionOutcomes, Answer(w, o)
      PROVE  AnswerShape'
  BY <1>5 DEF Answer, Forget, runRow, rows, leaseColumns, ViewShape
<1>6. ASSUME NEW w \in Executions, Load(w) PROVE AnswerShape'
  BY <1>6 DEF Load, Goto, local, runRow, rows, leaseColumns, ViewShape
<1>7. ASSUME NEW w \in Executions, Start(w) PROVE AnswerShape'
  BY <1>7, LoadedIsLive, ClaimedIsLeased DEF Start, Claimed, StartedStatus,
     ReplaceAttempt, MoveVersion, local, ViewShape
<1>8. ASSUME NEW w \in Executions, Launch(w) PROVE AnswerShape'
  BY <1>8 DEF Launch, Goto, Forget, runRow, rows, leaseColumns, ViewShape
<1>9. ASSUME NEW w \in Executions, BindSession(w) PROVE AnswerShape'
  BY <1>9, LoadedIsLive, ClaimedIsLeased DEF BindSession, Claimed,
     ReplaceAttempt, MoveVersion, leaseColumns, local, ViewShape
<1>10. ASSUME NEW w \in Executions, Throw(w) PROVE AnswerShape'
  BY <1>10 DEF Throw, Goto, Forget, runRow, rows, leaseColumns, ViewShape
<1>11. ASSUME NEW w \in Executions, CompleteWork(w) PROVE AnswerShape'
  BY <1>11, LoadedIsLive, ClaimedIsLeased DEF CompleteWork, Claimed,
     ClearLease, ReplaceAttempt, MoveVersion, Goto, ViewShape
<1>12. ASSUME NEW w \in Executions, ResultPending(w) PROVE AnswerShape'
  BY <1>12, LoadedIsLive, ClaimedIsLeased DEF ResultPending, Claimed,
     ClearLease, ReplaceAttempt, MoveVersion, Finish, ViewShape
<1>13. ASSUME NEW w \in Executions, Record(w) PROVE AnswerShape'
  BY <1>13, LoadedIsLive, ClaimedIsLeased DEF Record, ReplaceAttempt,
     MoveVersion, Goto, leaseColumns, ViewShape
<1>14. ASSUME NEW w \in Executions, Settle(w) PROVE AnswerShape'
  BY <1>14, LoadedIsLive, ClaimedIsLeased DEF Settle, Claimed, ClearLease,
     Advance, MoveVersion, Finish, ViewShape
<1>15. ASSUME NEW w \in Executions, Retry(w) PROVE AnswerShape'
  BY <1>15, LoadedIsLive, ClaimedIsLeased DEF Retry, Claimed, ClearLease,
     ReplaceAttempt, MoveVersion, Finish, ViewShape
<1>16. ASSUME NEW w \in Executions, DecideRecovery(w) PROVE AnswerShape'
  BY <1>16 DEF DecideRecovery, Forget, runRow, rows, leaseColumns,
     ViewShape
<1>17. ASSUME NEW w \in Executions, RecoveryStale(w) PROVE AnswerShape'
  BY <1>17 DEF RecoveryStale, runRow, rows, leaseColumns, views, ViewShape
<1>18. ASSUME NEW w \in Executions, RecoveryRefused(w) PROVE AnswerShape'
  BY <1>18 DEF RecoveryRefused, Goto, runRow, rows, leaseColumns, views,
     ViewShape
<1>19. ASSUME NEW w \in Executions, ReplacePool(w) PROVE AnswerShape'
  BY <1>19 DEF ReplacePool, Claimed, EndRun, ClearLease, MoveVersion,
     Finish, ViewShape
<1>20. ASSUME NEW w \in Executions, Terminate(w) PROVE AnswerShape'
  BY <1>20 DEF Terminate, EndRun, ClearLease, MoveVersion, Finish,
     ViewShape
<1>21. ASSUME NEW w \in Executions, Abandon(w) PROVE AnswerShape'
  BY <1>21 DEF Abandon, Forget, Finish, runRow, rows, leaseColumns,
     ViewShape
<1>22. ASSUME NEW w \in Executions, Quarantine(w) PROVE AnswerShape'
  BY <1>22 DEF Quarantine, EndRun, ClearLease, MoveVersion, Finish,
     ViewShape
<1>23. ASSUME NEW w \in Executions, GiveUp(w) PROVE AnswerShape'
  BY <1>23 DEF GiveUp, Forget, Finish, runRow, rows, leaseColumns,
     ViewShape
<1>24. ASSUME NEW w \in Executions, Renew(w) PROVE AnswerShape'
  BY <1>24 DEF Renew, MoveVersion, runRow, rows, local, ViewShape
<1>25. ASSUME NEW w \in Executions, Crash(w) PROVE AnswerShape'
  BY <1>25 DEF Crash, Forget, Finish, runRow, rows, leaseColumns, ViewShape
<1>26. ASSUME NEW a \in Attempts, LeaseExpires(a) PROVE AnswerShape'
  BY <1>26 DEF LeaseExpires, runRow, rows, views, local, ViewShape
<1>27. CASE RunControl
  BY <1>27 DEF RunControl, EndRun, ClearLease, MoveVersion, local,
     ViewShape
<1> QED
  BY <1>1, <1>2, <1>3, <1>4, <1>5, <1>6, <1>7, <1>8, <1>9, <1>10, <1>11,
     <1>12, <1>13, <1>14, <1>15, <1>16, <1>17, <1>18, <1>19, <1>20, <1>21,
     <1>22, <1>23, <1>24, <1>25, <1>26, <1>27 DEF Next

-----------------------------------------------------------------------------
(* The invariant.                                                          *)

LEMMA InitIInv == Init => IInv
BY FrontierAssumption, LimitAssumption, NoneAssumption
   DEF Init, IInv, TypeOK, ViewShape, RowShape, AnswerShape,
   FrontierIsUnsettled, SessionOfThisWork, CorrectionBudget, CorrectionCap,
   PCs, Statuses, Completed, TerminalStatuses, Ends

LEMMA NextIInv == IInv /\ [Next]_vars => IInv'
BY TypeStep, ViewStep, AnswerStep, RowStep, FrontierStep, SessionStep,
   BudgetStep DEF IInv

LEMMA Invariance == Spec => []IInv
<1>1. Init => IInv
  BY InitIInv
<1>2. IInv /\ [Next]_vars => IInv'
  BY NextIInv
<1> QED
  BY <1>1, <1>2, PTL DEF Spec

\* The run and attempt rows, the leases and the executions of the coordinator
\* keep their types.
THEOREM TypeCorrect == Spec => []TypeOK
<1>1. IInv => TypeOK
  BY DEF IInv
<1> QED
  BY <1>1, Invariance, PTL

\* The fan-in of any number of members under any number of racing executions:
\* active_attempt_versions and completed_scope_keys part the frontier, and the
\* run leaves the stage only with all members settled or ended together.
THEOREM FanIn == Spec => []FrontierIsUnsettled
<1>1. IInv => FrontierIsUnsettled
  BY DEF IInv
<1> QED
  BY <1>1, Invariance, PTL

\* Completed work has the session in which its result can be corrected, and no
\* attempt carries the session of an earlier work retry.
THEOREM SessionsBelong == Spec => []SessionOfThisWork
<1>1. IInv => SessionOfThisWork
  BY DEF IInv
<1> QED
  BY <1>1, Invariance, PTL

\* result_correction_count stays in the budget of the run.
THEOREM CorrectionsBounded == Spec => []CorrectionBudget
<1>1. IInv => CorrectionBudget
  BY DEF IInv
<1> QED
  BY <1>1, Invariance, PTL

\* Whatever part of the frontier is settled, the rest has a member without
\* unsettled dependencies: the dependencies are acyclic.  It is the attempt
\* requestRunControl names.
LEMMA ControlInIInv ==
  ASSUME IInv
  PROVE  ControlFindsAttempt
<1> SUFFICES ASSUME run = "wave"
             PROVE  \E a \in active : Deps[a] \subseteq done
  BY DEF ControlFindsAttempt
<1>1. active = Attempts \ done /\ active # {} /\ done \subseteq Attempts
  BY DEF IInv, FrontierIsUnsettled, TypeOK
<1>2. PICK a \in active : Deps[a] \cap active = {}
  BY <1>1, AcyclicAssumption
<1>3. Deps[a] \subseteq Attempts
  BY <1>1, FrontierAssumption
<1> QED
  BY <1>1, <1>2, <1>3

\* For any frontier and limits: while the wave runs, some attempt of it is active
\* whose dependencies are done, which is the one that requestRunControl looks for.
THEOREM ControlAlwaysFinds == Spec => []ControlFindsAttempt
<1>1. IInv => ControlFindsAttempt
  BY ControlInIInv
<1> QED
  BY <1>1, Invariance, PTL

-----------------------------------------------------------------------------
(* The claims on the sandboxes of a run.                                   *)

\* A subset of claims that may share may share.
LEMMA FewerClaims ==
  ASSUME ClaimsShareOnlyInCohort, Claims' \subseteq Claims
  PROVE  ClaimsShareOnlyInCohort'
<1> SUFFICES ASSUME NEW a \in Claims'
             PROVE  \/ Claims' = {a}
                    \/ /\ Claims' \subseteq Cohort
                       /\ Cardinality(Claims') <= CohortWidth
  BY DEF ClaimsShareOnlyInCohort
<1>1. CASE Claims = {a}
  BY <1>1
<1>2. CASE Claims \subseteq Cohort /\ Cardinality(Claims) <= CohortWidth
  <2>1. IsFiniteSet(Claims)
    BY FiniteAssumption, FS_Subset DEF Claims, Leased
  <2>2. /\ IsFiniteSet(Claims') /\ Cardinality(Claims') <= Cardinality(Claims)
    BY <2>1, FS_Subset
  <2>3. Cardinality(Claims) \in Nat /\ Cardinality(Claims') \in Nat
    BY <2>1, <2>2, FS_CardinalityType
  <2> QED
    BY <1>2, <2>2, <2>3, LimitAssumption
<1> QED
  BY <1>1, <1>2 DEF ClaimsShareOnlyInCohort

\* Only a lease adds a claim, and it asks first.  A commit of completed work
\* trades the lease for a claim without one.
LEMMA ClaimsStep ==
  ASSUME IInv, ClaimsShareOnlyInCohort, [Next]_vars
  PROVE  ClaimsShareOnlyInCohort'
<1> USE NoneAssumption DEF IInv, TypeOK, Claims, Leased
<1>1. CASE Quiet
  <2>1. Claims' \subseteq Claims
    BY <1>1 DEF Quiet, rows
  <2> QED
    BY <2>1, FewerClaims
<1>2. ASSUME NEW s \in FatalStatuses, NEW e \in Ends \ {"successor"}, Ended(s, e)
      PROVE  ClaimsShareOnlyInCohort'
  <2>1. Claims' \subseteq Claims
    BY <1>2 DEF Ended, EndRun, ClearLease, FatalStatuses
  <2> QED
    BY <2>1, FewerClaims
<1>3. ASSUME NEW w \in Executions, NEW a \in Attempts, Lease(w, a)
      PROVE  ClaimsShareOnlyInCohort'
  <2>1. Claims' = Claims \cup {a}
    BY <1>3 DEF Lease
  <2>2. CASE Claims \subseteq {a}
    BY <2>1, <2>2 DEF ClaimsShareOnlyInCohort
  <2>3. CASE /\ Claims \cup {a} \subseteq Cohort
             /\ Cardinality(Claims \cup {a}) <= CohortWidth
    BY <2>1, <2>3 DEF ClaimsShareOnlyInCohort
  <2> QED
    BY <1>3, <2>2, <2>3 DEF Lease, CanShareItsRun
<1>4. ASSUME NEW w \in Executions, NEW a \in Attempts, Recover(w, a)
      PROVE  ClaimsShareOnlyInCohort'
  <2>1. Claims' \subseteq Claims
    BY <1>4 DEF Recover, rows
  <2> QED
    BY <2>1, FewerClaims
<1>5. ASSUME NEW w \in Executions, Start(w) PROVE ClaimsShareOnlyInCohort'
  <2>1. Claims' \subseteq Claims
    BY <1>5, LoadedIsLive, ClaimedIsLeased DEF Start, Claimed, StartedStatus
  <2> QED
    BY <2>1, FewerClaims
<1>6. ASSUME NEW w \in Executions, BindSession(w)
      PROVE  ClaimsShareOnlyInCohort'
  <2>1. Claims' \subseteq Claims
    BY <1>6 DEF BindSession, leaseColumns
  <2> QED
    BY <2>1, FewerClaims
<1>7. ASSUME NEW w \in Executions, CompleteWork(w)
      PROVE  ClaimsShareOnlyInCohort'
  <2>1. Claims' \subseteq Claims
    BY <1>7, LoadedIsLive, ClaimedIsLeased DEF CompleteWork, Claimed, ClearLease
  <2> QED
    BY <2>1, FewerClaims
<1>8. ASSUME NEW w \in Executions, ResultPending(w)
      PROVE  ClaimsShareOnlyInCohort'
  <2>1. Claims' \subseteq Claims
    BY <1>8, LoadedIsLive DEF ResultPending, Claimed, Correcting, ClearLease
  <2> QED
    BY <2>1, FewerClaims
<1>9. ASSUME NEW w \in Executions, Record(w) PROVE ClaimsShareOnlyInCohort'
  <2>1. Claims' \subseteq Claims
    BY <1>9, LoadedIsLive DEF Record, leaseColumns
  <2> QED
    BY <2>1, FewerClaims
<1>10. ASSUME NEW w \in Executions, Settle(w) PROVE ClaimsShareOnlyInCohort'
  <2>1. Claims' \subseteq Claims
    BY <1>10, LoadedIsLive DEF Settle, Claimed, ClearLease
  <2> QED
    BY <2>1, FewerClaims
<1>11. ASSUME NEW w \in Executions, Retry(w) PROVE ClaimsShareOnlyInCohort'
  <2>1. Claims' \subseteq Claims
    BY <1>11, LoadedIsLive DEF Retry, Claimed, ClearLease
  <2> QED
    BY <2>1, FewerClaims
<1> QED
  BY <1>1, <1>2, <1>3, <1>4, <1>5, <1>6, <1>7, <1>8, <1>9, <1>10, <1>11,
     RowMoves

\* Attempts are in progress side by side only as members of one parallel
\* inspect cohort and within its width, for any frontier and any width.
THEOREM ClaimsShared == Spec => []ClaimsShareOnlyInCohort
<1>1. Init => ClaimsShareOnlyInCohort
  BY NoneAssumption DEF Init, ClaimsShareOnlyInCohort, Claims, Leased
<1>2. IInv /\ ClaimsShareOnlyInCohort /\ [Next]_vars => ClaimsShareOnlyInCohort'
  BY ClaimsStep
<1> QED
  BY <1>1, <1>2, Invariance, PTL DEF Spec

-----------------------------------------------------------------------------
(* What a step may never do.                                               *)

\* A lease is held while the attempt has no checkpoint yet, and its holder is
\* the one to write it.
LEMMA CheckpointStep ==
  ASSUME IInv, [Next]_vars
  PROVE  \A a \in Attempts :
           checkpoint'[a] # checkpoint[a]
             => checkpoint[a] = None /\ checkpoint'[a] = holder[a]
<1>1. CASE UNCHANGED checkpoint
  BY <1>1
<1>2. ASSUME NEW w \in Executions, CompleteWork(w)
      PROVE  \A a \in Attempts :
               checkpoint'[a] # checkpoint[a]
                 => checkpoint[a] = None /\ checkpoint'[a] = holder[a]
  BY <1>2, LoadedIsLive, ClaimedIsLeased
     DEF CompleteWork, Claimed, IInv, TypeOK, RowShape
<1> QED
  BY <1>1, <1>2, RowMoves DEF Quiet, rows, Ended, EndRun, Lease, Recover,
     Start, BindSession, ResultPending, Record, Settle, Retry

\* No execution publishes a checkpoint after a recovery took its lease, and
\* none replaces a checkpoint.
THEOREM CheckpointsFenced == Spec => CheckpointIsTheHolders
<1>1. IInv /\ [Next]_vars
      => [\A a \in Attempts :
            checkpoint'[a] # checkpoint[a]
              => checkpoint[a] = None /\ checkpoint'[a] = holder[a]]_vars
  BY CheckpointStep
<1> QED
  BY <1>1, Invariance, PTL DEF Spec, CheckpointIsTheHolders

\* Of the commits that change a status, those that lead back to work start
\* from work.
LEMMA ProgressStep ==
  ASSUME IInv, [Next]_vars, NEW a \in Attempts
  PROVE  /\ status[a] \in Completed
             => status'[a] \in Completed \cup TerminalStatuses
         /\ status[a] = "recorded"
             => status'[a] \in {"recorded"} \cup TerminalStatuses
         /\ status[a] = "settled" => status'[a] = "settled"
<1> USE DEF IInv, TypeOK, Completed, TerminalStatuses
<1>1. CASE UNCHANGED status
  BY <1>1
<1>2. ASSUME NEW s \in FatalStatuses, NEW e \in Ends \ {"successor"}, Ended(s, e)
      PROVE  /\ status'[a] \in {status[a], s}
             /\ status[a] = "settled" => status'[a] = "settled"
  BY <1>2 DEF Ended, EndRun, FrontierIsUnsettled
<1>3. ASSUME NEW w \in Executions, Start(w)
      PROVE  \/ status'[a] = status[a]
             \/ status[a] \in {"pending", "running"}
  BY <1>3, LoadedIsLive, ClaimedIsLeased DEF Start, Claimed, StartedStatus
<1>4. ASSUME NEW w \in Executions, CompleteWork(w)
      PROVE  \/ status'[a] = status[a]
             \/ status[a] = "running"
  BY <1>4, LoadedIsLive DEF CompleteWork, Claimed
<1>5. ASSUME NEW w \in Executions, ResultPending(w)
      PROVE  \/ status'[a] = status[a]
             \/ status[a] = "work_complete" /\ status'[a] = "result_pending"
  BY <1>5, LoadedIsLive DEF ResultPending, Claimed, Correcting
<1>6. ASSUME NEW w \in Executions, Record(w)
      PROVE  \/ status'[a] = status[a]
             \/ status[a] = "work_complete" /\ status'[a] = "recorded"
  BY <1>6, LoadedIsLive DEF Record
<1>7. ASSUME NEW w \in Executions, Settle(w)
      PROVE  status'[a] \in {status[a], "settled"}
  BY <1>7, LoadedIsLive DEF Settle, Claimed
<1>8. ASSUME NEW w \in Executions, Retry(w)
      PROVE  \/ status'[a] = status[a]
             \/ status[a] \in {"pending", "running"}
  BY <1>8, LoadedIsLive, ClaimedIsLeased DEF Retry, Claimed, Correcting
<1> QED
  BY <1>1, <1>2, <1>3, <1>4, <1>5, <1>6, <1>7, <1>8, RowMoves
     DEF Quiet, rows, FatalStatuses, Lease, Recover, BindSession

\* Completed work is settled, corrected or ended with its run, and never
\* started again.
THEOREM WorkNotRedone == Spec => CompletedWorkIsNotRedone
<1>1. IInv /\ [Next]_vars
      => [\A a \in Attempts :
            /\ status[a] \in Completed
                => status'[a] \in Completed \cup TerminalStatuses
            /\ status[a] = "recorded"
                => status'[a] \in {"recorded"} \cup TerminalStatuses]_vars
  BY ProgressStep
<1> QED
  BY <1>1, Invariance, PTL DEF Spec, CompletedWorkIsNotRedone

\* A run that has ended has no active attempt and no lease, so no view of it
\* allows a commit.
LEMMA FinalStep ==
  ASSUME IInv, [Next]_vars, run # "wave"
  PROVE  UNCHANGED <<runRow, rows, holder>>
<1> USE NoneAssumption
<1>1. \A w \in Executions : pc[w] # "idle" => ~Loaded(w)
  BY LoadedIsLive
<1>2. \A a \in Attempts : holder[a] = None
  BY DEF IInv, FrontierIsUnsettled
<1>3. CASE Quiet
  BY <1>2, <1>3 DEF Quiet
<1>4. ASSUME NEW s \in FatalStatuses, NEW e \in Ends \ {"successor"}, Ended(s, e)
      PROVE  UNCHANGED <<runRow, rows, holder>>
  BY <1>1, <1>4 DEF Ended
<1>5. ASSUME NEW w \in Executions, NEW a \in Attempts, Lease(w, a) \/ Recover(w, a)
      PROVE  UNCHANGED <<runRow, rows, holder>>
  BY <1>2, <1>5 DEF Lease, Recover
<1>6. ASSUME NEW w \in Executions, Start(w) \/ BindSession(w) \/ CompleteWork(w)
      PROVE  UNCHANGED <<runRow, rows, holder>>
  BY <1>1, <1>6 DEF Start, BindSession, CompleteWork, Claimed
<1>7. ASSUME NEW w \in Executions,
             ResultPending(w) \/ Record(w) \/ Settle(w) \/ Retry(w)
      PROVE  UNCHANGED <<runRow, rows, holder>>
  BY <1>1, <1>7 DEF ResultPending, Record, Settle, Retry, Claimed
<1> QED
  BY <1>3, <1>4, <1>5, <1>6, <1>7, RowMoves

\* No late execution changes a run that has left the stage, or an attempt that
\* was settled in it.
THEOREM OutcomesFinal == Spec => OutcomeIsFinal
<1>1. IInv /\ [Next]_vars
      => [/\ run # "wave" => UNCHANGED <<runRow, rows, holder>>
          /\ \A a \in Attempts :
               status[a] = "settled" => status'[a] = "settled"]_vars
  BY FinalStep, ProgressStep
<1> QED
  BY <1>1, Invariance, PTL DEF Spec, OutcomeIsFinal

\* The frontier of a stage under any number of racing executions.
THEOREM FrontiersSafe == Spec => []FrontierSafe
BY FanIn, ControlAlwaysFinds, ClaimsShared, CorrectionsBounded, PTL DEF FrontierSafe

\* reduce and the rows it writes: what was done is not done again or undone.
THEOREM DoneWorkStands == Spec => WorkStands
BY WorkNotRedone, OutcomesFinal, PTL DEF WorkStands

\* bindSession and commitWork: sessions and checkpoints are those of the claim.
THEOREM SessionsAreTheHolders == Spec => SessionIsTheHolders
BY SessionsBelong, CheckpointsFenced, PTL DEF SessionIsTheHolders
=============================================================================
