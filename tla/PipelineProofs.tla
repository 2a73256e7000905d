--------------------------- MODULE PipelineProofs ---------------------------
(***************************************************************************)
(* Proofs about what brings work into the system, the session that a       *)
(* notice starts and the plan that is admitted and promoted; about the     *)
(* life of a pipeline; and about the composition of the modules that it    *)
(* goes on beside.                                                         *)
(***************************************************************************)
EXTENDS MCPipelines, WorkerProofs, FiniteSetTheorems, TLAPS

(***************************************************************************)
(* For any notices and slots: a session is started once, and first.  The   *)
(* worker is the only one that queues, so the line is empty or holds the   *)
(* event that is handled; the slots are the number of tasks at work, which *)
(* a release that hands its slot on does not change.                       *)
(***************************************************************************)

AtWork == {e \in Notices : task[e] \in Busy}

SlotsHold ==
  /\ IsFiniteSet(AtWork) /\ slots = Cardinality(AtWork)
  /\ line # <<>> => slots = StartWidth

\* The line: nobody, or the event that the worker is at.
LineHolds ==
  /\ line = <<>> => \A e \in Notices : task[e] # "queued"
  /\ line # <<>> =>
       /\ handled \in Notices /\ ~answered /\ line = <<handled>>
       /\ \A e \in Notices : task[e] = "queued" <=> e = handled

\* The worker is told that a session is started when Linear shows it.
AnswerIsTrue == handled # NoNotice /\ answered => thoughts[handled] > 0

StartIInv ==
  /\ StartTypeOK /\ SlotsHold /\ LineHolds
  /\ AnswerIsTrue /\ OneThought /\ AcknowledgedFirst

LEMMA StartInitially == StartInit => StartIInv
<1> SUFFICES ASSUME StartInit PROVE StartIInv
  OBVIOUS
<1>1. AtWork = {}
  BY DEF StartInit, AtWork, Busy
<1>2. SlotsHold
  BY <1>1, FS_EmptySet DEF StartInit, SlotsHold
<1>3. slots \in 0..StartWidth /\ refusals \in 0..MaxRefusals /\ restarts \in 0..MaxRestarts
  BY StartAssumption DEF StartInit
<1>4. line \in Seq(Notices)
  BY DEF StartInit
<1>5. StartTypeOK
  BY <1>3, <1>4 DEF StartInit, StartTypeOK
<1>6. LineHolds /\ AnswerIsTrue /\ OneThought /\ AcknowledgedFirst
  BY DEF StartInit, LineHolds, AnswerIsTrue, OneThought, AcknowledgedFirst
<1> QED
  BY <1>2, <1>5, <1>6 DEF StartIInv

-----------------------------------------------------------------------------
\* The slots.

LEMMA TakeKeeps ==
  ASSUME StartTypeOK, SlotsHold, NEW e \in Notices, task[e] \notin Busy,
         slots < StartWidth, TakeSlot(e), line' = line
  PROVE  SlotsHold' /\ slots' \in 0..StartWidth
<1>1. AtWork' = AtWork \cup {e} /\ e \notin AtWork
  BY DEF TakeSlot, AtWork, Busy, StartTypeOK
<1>2. IsFiniteSet(AtWork') /\ Cardinality(AtWork') = Cardinality(AtWork) + 1
  BY <1>1, FS_AddElement DEF SlotsHold
<1>3. line = <<>>
  BY StartAssumption DEF SlotsHold
<1> QED
  BY <1>2, <1>3, StartAssumption DEF SlotsHold, TakeSlot, StartTypeOK

\* A task that goes on keeps its slot.
LEMMA GoOnKeeps ==
  ASSUME StartTypeOK, SlotsHold, NEW e \in Notices, task[e] \in Busy,
         NEW to \in Busy, task' = [task EXCEPT ![e] = to], UNCHANGED <<slots, line>>
  PROVE  SlotsHold'
<1>1. AtWork' = AtWork
  BY DEF AtWork, StartTypeOK
<1> QED
  BY <1>1 DEF SlotsHold

\* A release gives the slot back, or to the event in line.
LEMMA ReleaseKeeps ==
  ASSUME StartTypeOK, SlotsHold, LineHolds, NEW e \in Notices, task[e] \in Busy, Release(e)
  PROVE  /\ SlotsHold' /\ slots' \in 0..StartWidth
         /\ line' = <<>> /\ task'[e] = "none"
         /\ task' \in [Notices -> {"none", "queued"} \cup Busy]
         /\ \A d \in Notices : task'[d] # "queued"
<1>1. e \in AtWork
  BY DEF AtWork
<1>2. /\ IsFiniteSet(AtWork \ {e})
      /\ Cardinality(AtWork \ {e}) = Cardinality(AtWork) - 1
      /\ Cardinality(AtWork) \in Nat /\ Cardinality(AtWork \ {e}) \in Nat
  BY <1>1, FS_RemoveElement, FS_CardinalityType DEF SlotsHold
<1>3. CASE line = <<>>
  <2>1. AtWork' = AtWork \ {e}
    BY <1>3 DEF Release, AtWork, Busy, StartTypeOK
  <2>2. slots' = slots - 1 /\ line' = <<>>
    BY <1>3 DEF Release
  <2>3. SlotsHold' /\ slots' \in 0..StartWidth
    BY <1>2, <2>1, <2>2, StartAssumption DEF SlotsHold, StartTypeOK
  <2>4. task' = [task EXCEPT ![e] = "none"]
    BY <1>3 DEF Release
  <2> QED
    BY <1>3, <2>2, <2>3, <2>4 DEF LineHolds, StartTypeOK
<1>4. CASE line # <<>>
  <2>1. line = <<handled>> /\ handled \in Notices /\ task[handled] = "queued"
    BY <1>4 DEF LineHolds
  <2>2. Head(line) = handled /\ Tail(line) = <<>>
    BY <2>1
  <2>3. /\ task' = [task EXCEPT ![e] = "none", ![handled] = "lookup"]
        /\ line' = <<>> /\ slots' = slots
    BY <1>4, <2>2 DEF Release
  <2>4. handled # e /\ handled \notin AtWork \ {e}
    BY <2>1 DEF Busy, AtWork
  <2>5. AtWork' = (AtWork \ {e}) \cup {handled}
    BY <2>1, <2>3, <2>4 DEF AtWork, Busy, StartTypeOK
  <2>6. IsFiniteSet(AtWork') /\ Cardinality(AtWork') = Cardinality(AtWork \ {e}) + 1
    BY <1>2, <2>4, <2>5, FS_AddElement
  <2>7. SlotsHold' /\ slots' \in 0..StartWidth
    BY <1>2, <2>3, <2>6 DEF SlotsHold, StartTypeOK
  <2>8. /\ task'[e] = "none" /\ task' \in [Notices -> {"none", "queued"} \cup Busy]
        /\ \A d \in Notices : task'[d] # "queued"
    BY <1>4, <2>1, <2>3, <2>4 DEF LineHolds, StartTypeOK, Busy
  <2> QED
    BY <2>3, <2>7, <2>8
<1> QED
  BY <1>3, <1>4

-----------------------------------------------------------------------------
\* The steps.

\* A task ends: what the worker is told is true if Linear shows the thought.
LEMMA ConcludeKeeps ==
  ASSUME StartIInv, NEW e \in Notices, task[e] \in Busy, NEW started \in BOOLEAN,
         Conclude(e, started), started => thoughts'[e] > 0,
         thoughts' \in [Notices -> Nat], OneThought',
         \A d \in Notices : thoughts'[d] >= thoughts[d],
         adrift' \subseteq Notices, refusals' \in 0..MaxRefusals
  PROVE  StartIInv'
<1>1. /\ SlotsHold' /\ slots' \in 0..StartWidth
      /\ line' = <<>> /\ task' \in [Notices -> {"none", "queued"} \cup Busy]
      /\ \A d \in Notices : task'[d] # "queued"
  BY ReleaseKeeps DEF StartIInv, Conclude
<1>2. handled' \in Notices \cup {NoNotice} /\ answered' \in BOOLEAN
  BY DEF StartIInv, StartTypeOK, Conclude
<1>3. line' \in Seq(Notices)
  BY <1>1
<1>4. StartTypeOK'
  BY <1>1, <1>2, <1>3 DEF StartIInv, StartTypeOK, Conclude
<1>5. LineHolds'
  BY <1>1 DEF LineHolds
<1>6. AnswerIsTrue'
  <2>1. CASE handled = e /\ ~answered
    BY <2>1 DEF AnswerIsTrue, Conclude
  <2>2. CASE ~(handled = e /\ ~answered)
    <3>1. UNCHANGED <<handled, answered>>
      BY <2>2 DEF Conclude
    <3>2. ASSUME handled # NoNotice, answered PROVE thoughts'[handled] > 0
      <4>1. /\ handled \in Notices /\ thoughts[handled] > 0
            /\ thoughts[handled] \in Nat /\ thoughts'[handled] \in Nat
        BY <3>2 DEF StartIInv, StartTypeOK, AnswerIsTrue
      <4> QED
        BY <4>1
    <3> QED
      BY <3>1, <3>2 DEF AnswerIsTrue
  <2> QED
    BY <2>1, <2>2
<1>7. AcknowledgedFirst'
  BY DEF StartIInv, StartTypeOK, AcknowledgedFirst, Conclude
<1> QED
  BY <1>1, <1>4, <1>5, <1>6, <1>7 DEF StartIInv

\* A task goes on to its next call.
LEMMA GoesOn ==
  ASSUME StartIInv, NEW e \in Notices, task[e] \in Busy, NEW to \in Busy,
         task' = [task EXCEPT ![e] = to],
         UNCHANGED <<notice, slots, line, handled, answered, restarts>>,
         thoughts' \in [Notices -> Nat], OneThought',
         \A d \in Notices : thoughts'[d] >= thoughts[d],
         adrift' \subseteq Notices, refusals' \in 0..MaxRefusals
  PROVE  StartIInv'
<1>1. SlotsHold'
  BY GoOnKeeps DEF StartIInv
<1>2. StartTypeOK'
  BY DEF StartIInv, StartTypeOK
<1>3. LineHolds'
  BY DEF StartIInv, StartTypeOK, LineHolds, Busy
<1>4. AnswerIsTrue'
  <2>1. ASSUME handled # NoNotice, answered PROVE thoughts'[handled] > 0
    <3>1. /\ handled \in Notices /\ thoughts[handled] > 0
          /\ thoughts[handled] \in Nat /\ thoughts'[handled] \in Nat
      BY <2>1 DEF StartIInv, StartTypeOK, AnswerIsTrue
    <3> QED
      BY <3>1
  <2> QED
    BY <2>1 DEF AnswerIsTrue
<1>5. AcknowledgedFirst'
  <2>1. ASSUME NEW d \in Notices, notice[d] = "admitted" PROVE thoughts'[d] > 0
    <3>1. thoughts[d] > 0 /\ thoughts[d] \in Nat /\ thoughts'[d] \in Nat
      BY <2>1 DEF StartIInv, StartTypeOK, AcknowledgedFirst
    <3> QED
      BY <3>1
  <2> QED
    BY <2>1 DEF AcknowledgedFirst
<1> QED
  BY <1>1, <1>2, <1>3, <1>4, <1>5 DEF StartIInv

\* Linear takes an identity once.
LEMMA RecordedOnce ==
  ASSUME StartTypeOK, OneThought, NEW e \in Notices, thoughts' = Recorded(e)
  PROVE  /\ thoughts' \in [Notices -> Nat] /\ OneThought'
         /\ \A d \in Notices : thoughts'[d] >= thoughts[d]
         /\ thoughts'[e] > 0
BY DEF StartTypeOK, OneThought, Recorded

LEMMA TaskKeeps ==
  ASSUME StartIInv, NEW e \in Notices,
         TaskStep(e) \/ LookUpFails(e) \/ CreateCutOff(e) \/ FinalLookFails(e)
  PROVE  StartIInv'
<1>1. /\ thoughts \in [Notices -> Nat] /\ \A d \in Notices : thoughts[d] >= thoughts[d]
      /\ adrift \subseteq Notices /\ refusals \in 0..MaxRefusals
      /\ OneThought
  BY DEF StartIInv, StartTypeOK
<1>2. {"lookup", "create", "final"} = Busy
  BY DEF Busy
<1>3. UNCHANGED thoughts => OneThought'
  BY <1>1 DEF OneThought
<1>4. Refuse => refusals' \in 0..MaxRefusals
  BY StartAssumption DEF Refuse, StartIInv, StartTypeOK
<1>5. CASE LookUp(e)
  BY <1>1, <1>2, <1>3, <1>5, ConcludeKeeps, GoesOn DEF LookUp
<1>6. CASE CreateThought(e)
  <2>1. thoughts' = Recorded(e) /\ UNCHANGED <<adrift, refusals>> /\ task[e] \in Busy
    BY <1>2, <1>6 DEF CreateThought
  <2>2. /\ thoughts' \in [Notices -> Nat] /\ OneThought' /\ thoughts'[e] > 0
        /\ \A d \in Notices : thoughts'[d] >= thoughts[d]
    BY <2>1, RecordedOnce DEF StartIInv
  <2> QED
    BY <1>1, <1>2, <1>6, <2>1, <2>2, ConcludeKeeps, GoesOn DEF CreateThought
<1>7. CASE LookAgain(e)
  <2>1. UNCHANGED <<thoughts, adrift, refusals>> /\ task[e] \in Busy
    BY <1>2, <1>7 DEF LookAgain
  <2>2. CASE thoughts[e] > 0
    <3>1. Conclude(e, TRUE)
      BY <1>7, <2>2 DEF LookAgain, FinalLook, Conclude
    <3> QED
      BY <1>1, <1>3, <2>1, <2>2, <3>1, ConcludeKeeps
  <2>3. CASE ~(thoughts[e] > 0)
    <3>0. FinalLook(e) = FALSE
      BY <2>3 DEF FinalLook
    <3>1. Conclude(e, FALSE)
      BY <1>7, <3>0 DEF LookAgain
    <3> QED
      BY <1>1, <1>3, <2>1, <3>1, ConcludeKeeps
  <2> QED
    BY <2>2, <2>3
<1>8. CASE LookUpFails(e) \/ FinalLookFails(e)
  BY <1>1, <1>2, <1>3, <1>4, <1>8, ConcludeKeeps DEF LookUpFails, FinalLookFails
<1>9. CASE CreateCutOff(e)
  BY <1>1, <1>2, <1>3, <1>4, <1>9, GoesOn DEF CreateCutOff
<1> QED
  BY <1>5, <1>6, <1>7, <1>8, <1>9 DEF TaskStep

LEMMA WebhookKeeps ==
  ASSUME StartIInv, NEW e \in Notices, Webhook(e) PROVE StartIInv'
<1>1. CASE task[e] = "none" /\ slots < StartWidth
  <2>1. TakeSlot(e) /\ UNCHANGED <<line, handled, answered, thoughts, adrift, refusals, restarts>>
    BY <1>1 DEF Webhook
  <2>2. SlotsHold' /\ slots' \in 0..StartWidth
    BY <1>1, <2>1, TakeKeeps DEF StartIInv, Busy
  <2>3. StartTypeOK'
    BY <2>1, <2>2 DEF Webhook, TakeSlot, StartIInv, StartTypeOK, Busy
  <2>4. LineHolds'
    BY <1>1, <2>1 DEF TakeSlot, StartIInv, StartTypeOK, LineHolds
  <2>5. AnswerIsTrue' /\ OneThought' /\ AcknowledgedFirst'
    BY <2>1 DEF Webhook, StartIInv, StartTypeOK, AnswerIsTrue, OneThought, AcknowledgedFirst
  <2> QED
    BY <2>2, <2>3, <2>4, <2>5 DEF StartIInv
<1>2. CASE ~(task[e] = "none" /\ slots < StartWidth)
  <2>1. UNCHANGED <<task, slots, line, handled, answered, thoughts, adrift, refusals, restarts>>
    BY <1>2 DEF Webhook
  <2> QED
    BY <2>1
    DEF Webhook, StartIInv, StartTypeOK, SlotsHold, AtWork, LineHolds, AnswerIsTrue, OneThought,
        AcknowledgedFirst
<1> QED
  BY <1>1, <1>2

LEMMA HandlingKeeps ==
  ASSUME StartIInv, NEW e \in Notices, StartHandling(e) PROVE StartIInv'
<1>1. /\ handled = NoNotice /\ handled' = e /\ answered' = FALSE /\ e # NoNotice
      /\ UNCHANGED <<notice, thoughts, adrift, refusals, restarts>>
  BY StartAssumption DEF StartHandling
<1>2. line = <<>> /\ \A d \in Notices : task[d] # "queued"
  BY <1>1, StartAssumption DEF StartIInv, LineHolds
<1>3. AnswerIsTrue' /\ OneThought' /\ AcknowledgedFirst'
  BY <1>1 DEF StartIInv, AnswerIsTrue, OneThought, AcknowledgedFirst
<1>4. CASE MayJoin(e)
  <2>1. UNCHANGED <<task, slots, line>>
    BY <1>4 DEF StartHandling
  <2> QED
    BY <1>1, <1>2, <1>3, <2>1 DEF StartIInv, StartTypeOK, SlotsHold, AtWork, LineHolds
<1>5. CASE ~MayJoin(e) /\ slots < StartWidth
  <2>1. TakeSlot(e) /\ line' = line /\ task[e] = "none"
    BY <1>5 DEF StartHandling, MayJoin
  <2>2. SlotsHold' /\ slots' \in 0..StartWidth
    BY <1>5, <2>1, TakeKeeps DEF StartIInv, Busy
  <2>3. StartTypeOK'
    BY <1>1, <2>1, <2>2 DEF TakeSlot, StartIInv, StartTypeOK, Busy
  <2>4. LineHolds'
    BY <1>2, <2>1 DEF TakeSlot, StartIInv, StartTypeOK, LineHolds
  <2> QED
    BY <1>3, <2>2, <2>3, <2>4 DEF StartIInv
<1>6. CASE ~MayJoin(e) /\ ~(slots < StartWidth)
  <2>1. /\ task[e] = "none" /\ task' = [task EXCEPT ![e] = "queued"]
        /\ line' = Append(line, e) /\ slots' = slots
    BY <1>6 DEF StartHandling, MayJoin
  <2>2. line' = <<e>>
    BY <1>2, <2>1
  <2>3. AtWork' = AtWork
    BY <2>1 DEF AtWork, Busy, StartIInv, StartTypeOK
  <2>4. SlotsHold'
    BY <1>6, <2>1, <2>3, StartAssumption DEF StartIInv, StartTypeOK, SlotsHold
  <2>5. line' \in Seq(Notices)
    BY <2>2
  <2>6. StartTypeOK'
    BY <1>1, <2>1, <2>5 DEF StartIInv, StartTypeOK
  <2>7. LineHolds'
    BY <1>1, <1>2, <2>1, <2>2 DEF StartIInv, StartTypeOK, LineHolds
  <2> QED
    BY <1>3, <2>4, <2>6, <2>7 DEF StartIInv
<1> QED
  BY <1>4, <1>5, <1>6

LEMMA AdmissionKeeps ==
  ASSUME StartIInv, AdmitNotice \/ AdmissionFails PROVE StartIInv'
<1>1. /\ handled # NoNotice /\ answered /\ handled' = NoNotice /\ answered' = FALSE
      /\ UNCHANGED <<task, slots, line, thoughts, adrift, restarts>>
  BY DEF AdmitNotice, AdmissionFails
<1>2. refusals' \in 0..MaxRefusals
  BY StartAssumption DEF AdmitNotice, AdmissionFails, Refuse, StartIInv, StartTypeOK
<1>3. line = <<>>
  BY <1>1 DEF StartIInv, LineHolds
<1>4. StartTypeOK'
  BY <1>1, <1>2 DEF AdmitNotice, AdmissionFails, StartIInv, StartTypeOK
<1>5. AcknowledgedFirst'
  BY <1>1 DEF AdmitNotice, AdmissionFails, StartIInv, StartTypeOK, AcknowledgedFirst, AnswerIsTrue
<1> QED
  BY <1>1, <1>3, <1>4, <1>5
  DEF StartIInv, SlotsHold, AtWork, LineHolds, AnswerIsTrue, OneThought

LEMMA OutsideKeeps ==
  ASSUME StartIInv, Perish \/ \E e \in Notices : ArriveLate(e) PROVE StartIInv'
<1>1. CASE Perish
  <2>1. AtWork' = {}
    BY <1>1 DEF Perish, AtWork, Busy
  <2>2. SlotsHold'
    BY <1>1, <2>1, FS_EmptySet DEF Perish, SlotsHold
  <2>3. slots' \in 0..StartWidth /\ restarts' \in 0..MaxRestarts
    BY <1>1, StartAssumption DEF Perish, StartIInv, StartTypeOK
  <2>4. line' \in Seq(Notices) /\ adrift' \subseteq Notices
    BY <1>1 DEF Perish, StartIInv, StartTypeOK
  <2>5. StartTypeOK'
    BY <1>1, <2>3, <2>4 DEF Perish, StartIInv, StartTypeOK
  <2>6. LineHolds' /\ AnswerIsTrue' /\ OneThought' /\ AcknowledgedFirst'
    BY <1>1 DEF Perish, StartIInv, LineHolds, AnswerIsTrue, OneThought, AcknowledgedFirst
  <2> QED
    BY <2>2, <2>5, <2>6 DEF StartIInv
<1>2. ASSUME NEW e \in Notices, ArriveLate(e) PROVE StartIInv'
  <2>1. /\ thoughts' \in [Notices -> Nat] /\ OneThought'
        /\ \A d \in Notices : thoughts'[d] >= thoughts[d]
    BY <1>2, RecordedOnce DEF ArriveLate, StartIInv
  <2> QED
    BY <1>2, <2>1
    DEF ArriveLate, StartIInv, StartTypeOK, SlotsHold, AtWork, LineHolds, AnswerIsTrue,
        AcknowledgedFirst
<1> QED
  BY <1>1, <1>2

LEMMA StartInductive == StartIInv /\ [StartNext]_startVars => StartIInv'
<1>1. StartIInv /\ UNCHANGED startVars => StartIInv'
  BY DEF startVars, StartIInv, StartTypeOK, SlotsHold, AtWork, LineHolds, AnswerIsTrue,
         OneThought, AcknowledgedFirst
<1> QED
  BY <1>1, TaskKeeps, WebhookKeeps, HandlingKeeps, AdmissionKeeps, OutsideKeeps
  DEF StartNext

LEMMA StartSafeFollows == StartIInv => StartSafe
BY DEF StartIInv, StartSafe, SlotsHold, SlotsAreAccounted, AtWork

LEMMA StartInvariance == StartSpec => []StartIInv
BY StartInitially, StartInductive, PTL DEF StartSpec

\* The events, the tasks and the line keep their types.
THEOREM StartTypeCorrect == StartSpec => []StartTypeOK
<1>1. StartIInv => StartTypeOK
  BY DEF StartIInv
<1> QED
  BY <1>1, StartInvariance, PTL

\* acknowledgeLinearSession and the worker that waits for it: one thought, which
\* comes before the admission, by one of a bounded number of tasks.
THEOREM StartIsSafe == StartSpec => []StartSafe
BY StartInvariance, StartSafeFollows, PTL

-----------------------------------------------------------------------------
(***************************************************************************)
(* For any number of re-entries: what is promoted is the newest plan and   *)
(* the one that its approval was given, and a stop that was handled has    *)
(* reached the work.  An attempt is given one result, so a reviewer who is *)
(* given a plan is given the newest; from the sealing on neither plans nor *)
(* results come anew.                                                      *)
(***************************************************************************)

Approved == \E r \in given : r.says = "approved" /\ r.nr = plans
NewestGiven == \A r \in PlanGiven : r.nr = plans

\* What the roles are given and say.
RolesHold ==
  /\ role = "plan" /\ answer # Nil =>
       answer.by = "plan" /\ answer.nr = plans /\ answer.says \in Verdicts("plan")
  /\ role = "review" => NewestGiven
  /\ role = "review" /\ answer # Nil =>
       /\ answer.by = "review" /\ answer.says \in Verdicts("review")
       /\ PlanGiven # {} => answer.nr = plans
  /\ role = "promote" => NewestGiven /\ Approved

\* What is sealed, sent and attached.
SendingHolds ==
  /\ role \in Roles => sending = "none"
  /\ sending # "none" => intent \in Results /\ intent.nr = plans /\ Approved
  /\ dispatch # "idle" => sending = "sent" /\ target = Nil
  /\ target # Nil => sending # "none" /\ target.plan.nr = plans
  /\ sending = "confirmed" => target # Nil
  /\ role = "over" => sending \in {"none", "confirmed"}
  /\ finished = "completed" => sending = "confirmed"

\* A stop that was handled found the promoted run, or an admission that ended
\* without a promotion.
StopHolds ==
  stopAsked = "done" =>
    /\ dispatch = "idle"
    /\ \/ target # Nil /\ target.stopped
       \/ target = Nil /\ role = "over" /\ sending = "none"

PromotionIInv == PromotionTypeOK /\ RolesHold /\ SendingHolds /\ StopHolds

LEMMA PromotionInitially == PromotionInit => PromotionIInv
<1> SUFFICES ASSUME PromotionInit PROVE PromotionIInv
  OBVIOUS
<1>1. PromotionTypeOK
  BY PromotionAssumption DEF PromotionInit, PromotionTypeOK, Roles
<1>2. RolesHold
  BY DEF PromotionInit, RolesHold
<1>3. SendingHolds /\ StopHolds
  BY NilAssumption DEF PromotionInit, SendingHolds, StopHolds, AdmissionEndings
<1> QED
  BY <1>1, <1>2, <1>3 DEF PromotionIInv

-----------------------------------------------------------------------------
(* The roles                                                               *)

\* A review is of the plan it was given, if it was given one.
LEMMA ProposeKeeps ==
  ASSUME PromotionIInv, NEW says, Propose(says) PROVE PromotionIInv'
<1>1. /\ role \in Roles /\ answer = Nil /\ says \in Verdicts(role) /\ sending = "none"
      /\ UNCHANGED <<role, given, taken, intent, sending, dispatch, target, finished,
                     stopAsked, outages>>
  BY DEF Propose, PromotionIInv, SendingHolds
<1>2. target = Nil /\ dispatch = "idle"
  BY <1>1 DEF PromotionIInv, SendingHolds, PromotionTypeOK
<1>3. CASE role = "plan"
  <2>1. answer' = [by |-> "plan", says |-> says, nr |-> plans + 1] /\ plans' = plans + 1
    BY <1>3 DEF Propose
  <2>2. answer' \in Results /\ plans' \in Nat
    BY <1>1, <1>3, <2>1 DEF PromotionIInv, PromotionTypeOK, Results, Roles
  <2>3. PromotionTypeOK'
    BY <1>1, <2>2 DEF PromotionIInv, PromotionTypeOK
  <2>4. RolesHold'
    BY <1>1, <1>3, <2>1 DEF RolesHold
  <2>5. SendingHolds' /\ StopHolds'
    BY <1>1, <1>2, <1>3 DEF PromotionIInv, SendingHolds, StopHolds, Roles
  <2> QED
    BY <2>3, <2>4, <2>5 DEF PromotionIInv
<1>4. CASE role = "review"
  <2> DEFINE n == IF PlanGiven = {} THEN 0 ELSE (CHOOSE r \in PlanGiven : TRUE).nr
  <2>1. answer' = [by |-> "review", says |-> says, nr |-> n] /\ plans' = plans
    BY <1>4 DEF Propose
  <2>2. PlanGiven # {} => n = plans
    BY <1>4 DEF PromotionIInv, RolesHold, NewestGiven
  <2>3. n \in Nat
    BY <2>2 DEF PromotionIInv, PromotionTypeOK
  <2>4. answer' \in Results
    BY <1>1, <1>4, <2>1, <2>3 DEF Results, Roles
  <2>5. PromotionTypeOK'
    BY <1>1, <2>1, <2>4 DEF PromotionIInv, PromotionTypeOK
  <2>6. PlanGiven' = PlanGiven
    BY <1>1 DEF PlanGiven, Executable
  <2>7. answer'.by = "review" /\ answer'.says = says /\ answer'.nr = n
    BY <2>1
  <2>8. RolesHold'
    BY <1>1, <1>4, <2>1, <2>2, <2>6, <2>7 DEF PromotionIInv, RolesHold, NewestGiven
  <2>9. SendingHolds' /\ StopHolds'
    BY <1>1, <1>2, <1>4, <2>1 DEF PromotionIInv, SendingHolds, StopHolds, Roles
  <2> QED
    BY <2>5, <2>8, <2>9 DEF PromotionIInv
<1> QED
  BY <1>1, <1>3, <1>4 DEF Roles

\* An end other than by a promotion.
LEMMA EndKeeps ==
  ASSUME PromotionIInv, NEW outcome \in {"needs_human", "canceled"}, EndAdmission(outcome),
         sending = "none", taken' \in [Edges -> 0..ReentryLimit],
         stopAsked' \in {"none", "asked", "done"}, stopAsked' = stopAsked \/ target = Nil,
         UNCHANGED <<intent, sending, dispatch, target, outages>>
  PROVE  PromotionIInv'
<1>1. dispatch = "idle" /\ target = Nil
  BY DEF PromotionIInv, SendingHolds, PromotionTypeOK
<1>2. PromotionTypeOK'
  BY DEF EndAdmission, PromotionIInv, PromotionTypeOK, AdmissionEndings
<1>3. RolesHold'
  BY DEF EndAdmission, RolesHold
<1>4. SendingHolds' /\ StopHolds'
  BY <1>1 DEF EndAdmission, PromotionIInv, SendingHolds, StopHolds, Roles
<1> QED
  BY <1>2, <1>3, <1>4 DEF PromotionIInv

\* The next attempt, with results that are in order for it.
LEMMA SuccessorKeeps ==
  ASSUME PromotionIInv, NEW s \in Roles \cup {"promote"}, NEW records, Successor(s, records),
         records \subseteq Results, role \in Roles,
         s # "plan" => \A r \in records : Executable(r) => r.nr = plans,
         s = "promote" => \E r \in records : r.says = "approved" /\ r.nr = plans,
         taken' \in [Edges -> 0..ReentryLimit],
         UNCHANGED <<intent, sending, dispatch, target, stopAsked, outages>>
  PROVE  PromotionIInv'
<1>1. sending = "none" /\ dispatch = "idle" /\ target = Nil
  BY DEF PromotionIInv, SendingHolds, PromotionTypeOK
<1>2. PromotionTypeOK'
  BY DEF Successor, PromotionIInv, PromotionTypeOK
<1>3. given' = records /\ plans' = plans /\ role' = s /\ answer' = Nil
  BY DEF Successor
<1>4. s # "plan" => NewestGiven'
  BY <1>3 DEF NewestGiven, PlanGiven, Executable
<1>5. s = "promote" => Approved'
  BY <1>3 DEF Approved
<1>6. RolesHold'
  BY <1>3, <1>4, <1>5 DEF RolesHold
<1>7. role # "over"
  BY DEF Roles
<1>8. SendingHolds' /\ StopHolds'
  BY <1>1, <1>3, <1>7 DEF Successor, PromotionIInv, SendingHolds, StopHolds, Roles
<1> QED
  BY <1>2, <1>6, <1>8 DEF PromotionIInv

LEMMA SettleKeeps ==
  ASSUME PromotionIInv, SettleRole PROVE PromotionIInv'
<1>1. /\ role \in Roles /\ answer # Nil /\ answer \in Results /\ sending = "none"
      /\ UNCHANGED <<intent, sending, dispatch, target, stopAsked, outages>>
      /\ stopAsked \in {"none", "asked", "done"} /\ given \subseteq Results
      /\ taken \in [Edges -> 0..ReentryLimit]
  BY DEF SettleRole, PromotionIInv, PromotionTypeOK, SendingHolds
<1>2. ASSUME NEW e \in Edges, TakeAgain(e) PROVE taken' \in [Edges -> 0..ReentryLimit]
  BY <1>1, <1>2, PromotionAssumption DEF TakeAgain
<1>3. CASE \/ EndAdmission("needs_human") /\ UNCHANGED taken
  BY <1>1, <1>3, EndKeeps
<1>4. Executable(answer) => role = "plan" /\ answer.nr = plans
  BY <1>1 DEF PromotionIInv, RolesHold, Roles, Executable
<1>5. ASSUME NEW e \in Edges, NEW s \in Roles, Back(e, s), s = role \/ s = "plan",
             ~Executable(answer)
      PROVE  PromotionIInv'
  <2>1. CASE TakeAgain(e) /\ Successor(s, {answer})
    <3>1. {answer} \subseteq Results /\ \A r \in {answer} : ~Executable(r)
      BY <1>1, <1>5
    <3>2. s # "promote" /\ taken' \in [Edges -> 0..ReentryLimit]
      BY <1>2, <2>1 DEF Roles
    <3> QED
      BY <1>1, <2>1, <3>1, <3>2, SuccessorKeeps
  <2>2. CASE EndAdmission("needs_human") /\ UNCHANGED taken
    BY <1>3, <2>2
  <2> QED
    BY <1>5, <2>1, <2>2 DEF Back
<1>6. CASE answer.says = "repair" /\ Back(<<role, "repair">>, role)
  BY <1>1, <1>5, <1>6 DEF Executable, Roles, Edges
<1>7. CASE answer.says = "rejected" /\ Back(<<"review", "rejected">>, "plan")
  BY <1>1, <1>5, <1>7 DEF Executable, Roles, Edges
<1>8. CASE Executable(answer) /\ Successor("review", {answer}) /\ UNCHANGED taken
  BY <1>1, <1>4, <1>8, SuccessorKeeps DEF Roles
<1>9. CASE /\ answer.says = "approved" /\ Cardinality(PlanUnderReview) = 1
           /\ Successor("promote", PlanUnderReview \cup {answer}) /\ UNCHANGED taken
  <2>1. PlanGiven # {}
    BY <1>9, FS_EmptySet DEF PlanUnderReview
  <2>2. role = "review"
    BY <1>1, <1>9 DEF PromotionIInv, RolesHold, Roles, Verdicts
  <2>3. answer.nr = plans /\ \A r \in PlanGiven : r.nr = plans
    BY <1>1, <2>1, <2>2 DEF PromotionIInv, RolesHold, NewestGiven
  <2>4. PlanGiven \cup {answer} \subseteq Results
    BY <1>1 DEF PlanGiven
  <2> QED
    BY <1>1, <1>9, <2>3, <2>4, SuccessorKeeps DEF PlanUnderReview
<1> QED
  BY <1>3, <1>6, <1>7, <1>8, <1>9 DEF SettleRole

-----------------------------------------------------------------------------
(* The promotion                                                           *)

LEMMA SealKeeps ==
  ASSUME PromotionIInv, Seal PROVE PromotionIInv'
<1>1. /\ role = "promote" /\ sending = "none" /\ sending' = "pending"
      /\ UNCHANGED <<role, answer, given, plans, taken, dispatch, target, finished,
                     stopAsked, outages>>
  BY DEF Seal
<1>2. PICK p \in PlanGiven : intent' = p
  BY DEF Seal
<1>3. p \in Results /\ p.nr = plans /\ Approved
  BY <1>1, <1>2 DEF PromotionIInv, PromotionTypeOK, RolesHold, NewestGiven, PlanGiven
<1>4. Approved' /\ PlanGiven' = PlanGiven
  BY <1>1, <1>3 DEF Approved, PlanGiven, Executable
<1>5. target = Nil /\ dispatch = "idle" /\ role # "over" /\ stopAsked # "done"
      /\ finished # "completed"
  BY <1>1 DEF PromotionIInv, SendingHolds, StopHolds, PromotionTypeOK
<1>6. PromotionTypeOK'
  BY <1>1, <1>2, <1>3 DEF PromotionIInv, PromotionTypeOK
<1>7. RolesHold'
  BY <1>1, <1>3, <1>4 DEF PromotionIInv, RolesHold, NewestGiven
<1>8. SendingHolds' /\ StopHolds'
  BY <1>1, <1>2, <1>3, <1>4, <1>5 DEF SendingHolds, StopHolds, Roles
<1> QED
  BY <1>6, <1>7, <1>8 DEF PromotionIInv

\* What the promotion leaves alone, the roles and what was sealed.
LEMMA RolesStay ==
  ASSUME PromotionIInv, UNCHANGED <<role, answer, given, plans>>
  PROVE  RolesHold' /\ (Approved => Approved')
BY DEF PromotionIInv, RolesHold, NewestGiven, PlanGiven, Executable, Approved

LEMMA DeliveryKeeps ==
  ASSUME PromotionIInv, Send \/ CompileChosen \/ PromotionFails \/ Observe PROVE PromotionIInv'
<1>1. UNCHANGED <<role, answer, given, plans, taken, intent, target, finished, stopAsked>>
  BY DEF Send, CompileChosen, PromotionFails, Observe
<1>2. RolesHold' /\ (Approved => Approved')
  BY <1>1, RolesStay
<1>3. PromotionTypeOK'
  BY <1>1, PromotionAssumption
  DEF PromotionIInv, PromotionTypeOK, Send, CompileChosen, PromotionFails, Observe, LookedUp
<1>4. sending # "none" /\ sending' # "none" /\ role \notin Roles /\ role # "over"
  BY DEF PromotionIInv, SendingHolds, PromotionTypeOK, Send, CompileChosen, PromotionFails, Observe,
         LookedUp, Roles
<1>5. stopAsked = "done" => target # Nil /\ target.stopped /\ dispatch = "idle"
  BY <1>4 DEF PromotionIInv, StopHolds
<1>6. StopHolds'
  BY <1>1, <1>5, <1>4 DEF StopHolds, Send, CompileChosen, PromotionFails, Observe, PromotionIInv,
                     SendingHolds
<1>7. ASSUME Send PROVE SendingHolds'
  BY <1>1, <1>2, <1>4, <1>7 DEF Send, PromotionIInv, SendingHolds
<1>8. ASSUME CompileChosen \/ PromotionFails PROVE SendingHolds'
  BY <1>1, <1>2, <1>4, <1>8 DEF CompileChosen, PromotionFails, PromotionIInv, SendingHolds, PromotionTypeOK
<1>9. ASSUME Observe PROVE SendingHolds'
  BY <1>1, <1>2, <1>4, <1>9 DEF Observe, LookedUp, PromotionIInv, SendingHolds
<1> QED
  BY <1>2, <1>3, <1>6, <1>7, <1>8, <1>9 DEF PromotionIInv

\* The run is attached with the plan that was sealed.
LEMMA AttachKeeps ==
  ASSUME PromotionIInv, Attach PROVE PromotionIInv'
<1>1. /\ UNCHANGED <<role, answer, given, plans, taken, intent, sending, finished,
                     stopAsked, outages>>
      /\ dispatch = "attach" /\ dispatch' = "idle" /\ target = Nil
      /\ target' = [plan |-> intent, stopped |-> FALSE]
  BY DEF Attach
<1>2. sending = "sent" /\ intent \in Results /\ intent.nr = plans /\ Approved
  BY <1>1 DEF PromotionIInv, SendingHolds
<1>3. target' \in [plan : Results, stopped : BOOLEAN] /\ target'.plan.nr = plans
  BY <1>1, <1>2
<1>4. target' # Nil
  BY <1>3, NilAssumption
<1>5. RolesHold' /\ Approved'
  BY <1>1, <1>2, RolesStay
<1>6. PromotionTypeOK'
  BY <1>1, <1>3 DEF PromotionIInv, PromotionTypeOK
<1>7. SendingHolds' /\ StopHolds'
  BY <1>1, <1>2, <1>3, <1>4, <1>5 DEF PromotionIInv, SendingHolds, StopHolds
<1> QED
  BY <1>5, <1>6, <1>7 DEF PromotionIInv

\* The admission completes: its effect is confirmed.
LEMMA PromotedKeeps ==
  ASSUME PromotionIInv, Promoted PROVE PromotionIInv'
<1>1. /\ sending = "confirmed" /\ role' = "over" /\ finished' = "completed" /\ answer' = Nil
      /\ UNCHANGED <<given, plans, taken, intent, sending, dispatch, target, stopAsked,
                     outages>>
  BY DEF Promoted, EndAdmission
<1>2. target # Nil
  BY <1>1 DEF PromotionIInv, SendingHolds
<1>3. Approved => Approved'
  BY <1>1 DEF Approved
<1>4. PromotionTypeOK'
  BY <1>1 DEF PromotionIInv, PromotionTypeOK, AdmissionEndings
<1>5. RolesHold'
  BY <1>1 DEF RolesHold
<1>6. SendingHolds' /\ StopHolds'
  BY <1>1, <1>2, <1>3 DEF PromotionIInv, SendingHolds, StopHolds, Roles
<1> QED
  BY <1>4, <1>5, <1>6 DEF PromotionIInv

LEMMA HaltKeeps ==
  ASSUME PromotionIInv, HandleHalt PROVE PromotionIInv'
<1>1. /\ stopAsked' = "done" /\ dispatch = "idle"
      /\ UNCHANGED <<taken, intent, sending, dispatch, outages>>
  BY DEF HandleHalt
<1>2. ASSUME Meant = "target" PROVE PromotionIInv'
  <2>1. /\ target # Nil /\ target \in [plan : Results, stopped : BOOLEAN]
        /\ target' = [target EXCEPT !.stopped = TRUE]
        /\ UNCHANGED <<role, answer, given, plans, finished>>
    BY <1>2 DEF HandleHalt, Meant, PromotionIInv, PromotionTypeOK
  <2>2. /\ target' \in [plan : Results, stopped : BOOLEAN]
        /\ target'.plan = target.plan /\ target'.stopped
    BY <2>1
  <2>3. target' # Nil
    BY <2>2, NilAssumption
  <2>4. RolesHold' /\ (Approved => Approved')
    BY <2>1, RolesStay
  <2>5. PromotionTypeOK'
    BY <1>1, <2>1, <2>2 DEF PromotionIInv, PromotionTypeOK
  <2>6. SendingHolds' /\ StopHolds'
    BY <1>1, <2>1, <2>2, <2>3, <2>4 DEF PromotionIInv, SendingHolds, StopHolds
  <2> QED
    BY <2>4, <2>5, <2>6 DEF PromotionIInv
<1>3. ASSUME Meant # "target", role = "over" PROVE PromotionIInv'
  <2>1. Meant = "admission" /\ target = Nil
    BY <1>3 DEF Meant
  <2>2. UNCHANGED <<role, answer, given, plans, finished, target>>
    BY <1>3, <2>1 DEF HandleHalt
  <2>3. RolesHold' /\ (Approved => Approved')
    BY <2>2, RolesStay
  <2>4. PromotionTypeOK'
    BY <1>1, <2>2 DEF PromotionIInv, PromotionTypeOK
  <2>5. sending = "none"
    BY <1>3, <2>1 DEF PromotionIInv, SendingHolds
  <2>6. SendingHolds' /\ StopHolds'
    BY <1>1, <1>3, <2>1, <2>2, <2>3, <2>5 DEF PromotionIInv, SendingHolds, StopHolds
  <2> QED
    BY <2>3, <2>4, <2>6 DEF PromotionIInv
<1>4. ASSUME Meant # "target", role # "over" PROVE PromotionIInv'
  <2>1. Meant = "admission" /\ target = Nil
    BY <1>4 DEF Meant
  <2>2. sending = "none" /\ EndAdmission("canceled") /\ UNCHANGED target
    BY <1>4, <2>1 DEF HandleHalt
  <2>3. taken' \in [Edges -> 0..ReentryLimit]
    BY <1>1 DEF PromotionIInv, PromotionTypeOK
  <2> QED
    BY <1>1, <2>1, <2>2, <2>3, EndKeeps
<1> QED
  BY <1>2, <1>3, <1>4

-----------------------------------------------------------------------------
(* The theorems                                                            *)

LEMMA PromotionInductive == PromotionIInv /\ [PromotionNext]_promotionVars => PromotionIInv'
<1> SUFFICES ASSUME PromotionIInv, [PromotionNext]_promotionVars PROVE PromotionIInv'
  OBVIOUS
<1>1. CASE \E says \in Verdicts("plan") \cup Verdicts("review") : Propose(says)
  BY <1>1, ProposeKeeps
<1>2. CASE GiveUpRole
  <2>1. sending = "none" /\ target = Nil
    BY <1>2 DEF GiveUpRole, PromotionIInv, SendingHolds
  <2>2. /\ EndAdmission("needs_human")
        /\ UNCHANGED <<taken, intent, sending, dispatch, target, stopAsked, outages>>
    BY <1>2 DEF GiveUpRole
  <2>3. taken' \in [Edges -> 0..ReentryLimit] /\ stopAsked' \in {"none", "asked", "done"}
    BY <2>2 DEF PromotionIInv, PromotionTypeOK
  <2> QED
    BY <2>1, <2>2, <2>3, EndKeeps
<1>3. CASE SettleRole
  BY <1>3, SettleKeeps
<1>4. CASE Seal
  BY <1>4, SealKeeps
<1>5. CASE Send \/ CompileChosen \/ PromotionFails \/ Observe
  BY <1>5, DeliveryKeeps
<1>6. CASE Attach
  BY <1>6, AttachKeeps
<1>7. CASE Promoted
  BY <1>7, PromotedKeeps
<1>8. CASE AskStop
  <2>1. /\ UNCHANGED <<role, answer, given, plans, taken, intent, sending, dispatch,
                       target, finished, outages>>
        /\ stopAsked' = "asked"
    BY <1>8 DEF AskStop
  <2>2. RolesHold' /\ (Approved => Approved')
    BY <2>1, RolesStay
  <2>3. PromotionTypeOK'
    BY <2>1 DEF PromotionIInv, PromotionTypeOK
  <2>4. SendingHolds' /\ StopHolds'
    BY <2>1, <2>2 DEF PromotionIInv, SendingHolds, StopHolds
  <2> QED
    BY <2>2, <2>3, <2>4 DEF PromotionIInv
<1>9. CASE HandleHalt
  BY <1>9, HaltKeeps
<1>10. CASE UNCHANGED promotionVars
  <2>1. RolesHold' /\ (Approved => Approved')
    BY <1>10, RolesStay DEF promotionVars
  <2>2. PromotionTypeOK'
    BY <1>10 DEF promotionVars, PromotionIInv, PromotionTypeOK
  <2>3. SendingHolds' /\ StopHolds'
    BY <1>10, <2>1 DEF promotionVars, PromotionIInv, SendingHolds, StopHolds
  <2> QED
    BY <2>1, <2>2, <2>3 DEF PromotionIInv
<1> QED
  BY <1>1, <1>2, <1>3, <1>4, <1>5, <1>6, <1>7, <1>8, <1>9, <1>10
  DEF PromotionNext, Admission

LEMMA PromotionSafeFollows == PromotionIInv => PromotionSafe
<1> SUFFICES ASSUME PromotionIInv PROVE PromotionSafe
  OBVIOUS
<1>1. target # Nil => sending # "none" /\ target.plan.nr = plans /\ Approved
  BY DEF PromotionIInv, SendingHolds
<1>2. PromotedWasReviewed
  BY <1>1 DEF PromotedWasReviewed, Approved
<1>3. CompletedIsPromoted
  BY DEF PromotionIInv, SendingHolds, CompletedIsPromoted
<1>4. StopReachesTheWork
  BY DEF PromotionIInv, StopHolds, StopReachesTheWork
<1> QED
  BY <1>2, <1>3, <1>4 DEF PromotionSafe

LEMMA PromotionInvariance == PromotionSpec => []PromotionIInv
BY PromotionInitially, PromotionInductive, PTL DEF PromotionSpec

\* The variables of the admission stay in their sets, and no edge is taken
\* more often than its limit.
THEOREM PromotionTypeCorrect == PromotionSpec => []PromotionTypeOK
<1>1. PromotionIInv => PromotionTypeOK
  BY DEF PromotionIInv
<1> QED
  BY PromotionInvariance, <1>1, PTL

\* What is promoted is the newest plan and the one its approval was given; an
\* admission that completed has promoted; a stop that was handled has reached
\* the work, whatever was under way.
THEOREM PromotionIsSafe == PromotionSpec => []PromotionSafe
BY PromotionInvariance, PromotionSafeFollows, PTL

-----------------------------------------------------------------------------
(***************************************************************************)
(* For any pools, slots and limits: the runtime of a run is created once,  *)
(* reclaimed and accounted for.  StagesHold says of every stage of a       *)
(* pipeline what the earlier ones have left at the provider and in the     *)
(* run's record; EndHolds says what a run that is over has left behind.    *)
(***************************************************************************)

\* A provisioning run was told of no sandbox; those of its pool are the ones whose
\* create is confirmed, and the start of all of them follows.
ProvisionHolds ==
  stage = "provision" =>
    /\ context.pool = None /\ context.targets = {} /\ phase <= 2
    /\ phase = 0 => \A p \in Pools, s \in Slots : box[p][s] = "absent"
    /\ phase > 0 => \A s \in Slots : delivery[s] \in {"pending", "confirmed", "rejected"}
    /\ phase = 1 => \A s \in Slots :
         box[Pool][s] = IF delivery[s] = "confirmed" THEN "created" ELSE "absent"
    /\ phase = 2 => \A s \in Slots :
         box[Pool][s] = IF delivery[s] = "confirmed" THEN "started" ELSE "created"

\* A run that works or publishes was told of its whole pool, which was started.
WorkHolds ==
  stage \in {"work", "publish"} =>
    /\ context.pool \in Pools /\ context.targets = Slots
    /\ \A s \in Slots : box[context.pool][s] \in {"started", "lost"}

\* A run that is reclaimed addresses the sandboxes that it was told of, and those
\* whose cleanup is confirmed are gone.
ReclaimHolds ==
  stage \in Reclaim =>
    /\ context.pool \in Pools /\ phase <= 1
    /\ \A s \in Slots \ context.targets : delivery[s] = "none"
    /\ stage = "cleanup" /\ phase = 1 => \A s \in context.targets :
         /\ delivery[s] \in {"pending", "confirmed", "rejected"}
         /\ delivery[s] = "confirmed" => box[context.pool][s] = "absent"
         /\ delivery[s] = "rejected" => "cleanup" \in Rejects

\* NothingForgotten, sandbox by sandbox.
Known ==
  \A p \in Pools, s \in Slots :
    box[p][s] # "absent" =>
      \/ stage = "provision" /\ p = Pool /\ phase > 0
      \/ p = context.pool /\ s \in context.targets

\* Deliveries belong to a phase, a recovery to an attempt, an ending to a
\* reclamation, and a shipped subject to a commit that was verified.
StagesHold ==
  /\ phase = 0 => \A s \in Slots : delivery[s] = "none"
  /\ context.recovery > 0 => context.trigger \in Triggers
  /\ ending # None <=> stage \in Reclaim
  /\ advanced \/ "shipped" \in {ending, ended} => subject > 0

EndHolds ==
  /\ ended # None <=> stage = "none"
  /\ ended # None => /\ ~Unanswered
                     /\ "cleanup" \notin Rejects =>
                          \A p \in Pools, s \in Slots : box[p][s] = "absent"

LifecycleHolds == /\ ProvisionHolds /\ WorkHolds /\ ReclaimHolds /\ Known
                  /\ StagesHold /\ EndHolds

LifecycleIInv == LifecycleTypeOK /\ LifecycleHolds

-----------------------------------------------------------------------------
LEMMA PhasesOfStages ==
  /\ Len(Phases("provision")) = 2 /\ Len(Phases("publish")) = 3
  /\ Len(Phases("stop")) = 1 /\ Len(Phases("cleanup")) = 1
  /\ Phases("provision")[1] = "create" /\ Phases("provision")[2] = "start"
  /\ Phases("publish")[1] = "integrate" /\ Phases("publish")[2] = "push"
  /\ Phases("publish")[3] = "pull_request"
  /\ Phases("stop")[1] = "stop" /\ Phases("cleanup")[1] = "cleanup"
BY DEF Phases

LEMMA PoolOfStage ==
  ASSUME LifecycleIInv
  PROVE  /\ stage = "provision" => Pool \in Pools
         /\ stage \in {"work", "publish", "stop", "cleanup"} =>
              Pool = context.pool /\ Pool \in Pools
BY DEF LifecycleIInv, LifecycleTypeOK, Contexts, LifecycleHolds, WorkHolds,
       ReclaimHolds, Pool, Pools, Reclaim

LEMMA LifecycleInitially == LifecycleInit => LifecycleIInv
<1> SUFFICES ASSUME LifecycleInit PROVE LifecycleIInv
  OBVIOUS
<1> USE LifecycleSetsAssumption, LifecycleBoundsAssumption DEF LifecycleInit
<1>1. /\ status \in [Members -> {"none", "pending", "running", "complete",
                                "settled", "work_complete", "recorded"}]
      /\ tries \in [Members -> Nat] /\ ordinal \in [Members -> Nat]
  OBVIOUS
<1>2. context \in Contexts
  BY DEF Contexts, NoContext
<1>3. /\ delivery \in [Slots -> {"none", "pending", "confirmed", "rejected",
                                 "retryable", "fatal"}]
      /\ box \in [Pools -> [Slots -> {"absent", "created", "started", "stopped", "lost"}]]
  OBVIOUS
<1>5. /\ stage \in External \cup {"work", "none"} /\ members \in SUBSET Members
      /\ subject \in 0 .. MaxSubject /\ recoveries \in 0 .. MaxRecoveries
      /\ usedKeys \in SUBSET (Kinds \X Pools)
  BY DEF External, Members
<1>4. LifecycleHolds
  BY DEF LifecycleHolds, ProvisionHolds, WorkHolds, ReclaimHolds, Known, StagesHold,
         EndHolds, NoContext, Reclaim, Pool, Unanswered
<1> QED
  <2>1. LifecycleTypeOK
    <3>1. ending \in Endings \cup {None} /\ ended \in Endings \cup {None}
      OBVIOUS
    <3>2. phase \in 0 .. 3 /\ advanced \in BOOLEAN
      <4>1. phase = 0 /\ advanced = FALSE
        OBVIOUS
      <4>2. advanced \in BOOLEAN
        BY <4>1, Zenon
      <4> HIDE DEF LifecycleInit
      <4> QED
        BY <4>1, <4>2
    <3> QED
      BY <1>1, <1>2, <1>3, <1>5, <3>1, <3>2 DEF LifecycleTypeOK
  <2> QED
    BY <2>1, <1>4 DEF LifecycleIInv

-----------------------------------------------------------------------------
\* The ways a run goes from stage to stage.

\* Nothing but the attempts of the stage changes.
LEMMA StatusOnly ==
  ASSUME LifecycleHolds,
         UNCHANGED <<stage, ending, ended, subject, phase, advanced, delivery, context, box>>
  PROVE  LifecycleHolds'
BY DEF LifecycleHolds, ProvisionHolds, WorkHolds, ReclaimHolds, Known, StagesHold,
       EndHolds, Unanswered, Pool, Pools, Triggers, Members

Fresh ==
  /\ status' \in [Members -> {"none", "pending", "running", "complete",
                              "settled", "work_complete", "recorded"}]
  /\ tries' \in [Members -> Nat] /\ ordinal' \in [Members -> Nat]
  /\ delivery' \in [Slots -> {"none", "pending", "confirmed", "rejected",
                                 "retryable", "fatal"}]
  /\ members' \in SUBSET Members
  /\ phase' = 0 /\ advanced' = FALSE
  /\ \A s \in Slots : delivery'[s] = "none"

LEMMA EnteringIsFresh ==
  /\ \A st, end, ctx : EnterSolo(st, end, ctx) => Fresh
  /\ \A ctx : EnterWork(ctx) => Fresh
BY DEF EnterSolo, EnterWork, Unscheduled, Members, Fresh

LEMMA EnteringTypes ==
  ASSUME LifecycleTypeOK, Fresh, context' \in Contexts,
         stage' \in External \cup {"work"}, ending' \in Endings \cup {None},
         UNCHANGED <<ended, subject, usedKeys, box>>, recoveries' \in 0 .. MaxRecoveries
  PROVE  LifecycleTypeOK'
<1>1. phase' \in 0 .. 3
  BY DEF Fresh
<1>2. advanced' \in BOOLEAN
  BY Zenon DEF Fresh
<1>3. /\ ended' \in Endings \cup {None} /\ subject' \in 0 .. MaxSubject
      /\ usedKeys' \in SUBSET (Kinds \X Pools)
      /\ box' \in [Pools -> [Slots -> {"absent", "created", "started", "stopped", "lost"}]]
  BY DEF LifecycleTypeOK
<1> QED
  BY <1>1, <1>2, <1>3 DEF LifecycleTypeOK, Fresh

LEMMA EndingTypes ==
  ASSUME LifecycleTypeOK, NEW outcome \in Endings, End(outcome),
         UNCHANGED <<subject, usedKeys, box, recoveries>>
  PROVE  LifecycleTypeOK'
BY DEF LifecycleTypeOK, End, attemptVars

\* A run whose sandboxes are told on goes to a stage that keeps them.
LEMMA ToldOn ==
  ASSUME LifecycleHolds, ended = None,
         UNCHANGED <<ended, subject, box>>, Fresh,
         context'.pool = context.pool, context'.targets = context.targets,
         context'.recovery > 0 => context'.trigger \in Triggers,
         stage \in {"work", "publish"} \cup Reclaim,
         \/ stage' \in Reclaim /\ ending' \in Endings
         \/ stage' \in {"work", "publish"} /\ ending' = None /\ stage \in {"work", "publish"},
         ending' = "shipped" => subject > 0
  PROVE  LifecycleHolds'
BY LifecycleBoundsAssumption
   DEF LifecycleHolds, ProvisionHolds, WorkHolds, ReclaimHolds, Known, StagesHold,
       EndHolds, Unanswered, Pool, Pools, Triggers, Members, Reclaim, Endings, Fresh

\* A run ends that has no sandbox.
LEMMA EndsClean ==
  ASSUME LifecycleHolds, NEW outcome \in Endings, End(outcome), UNCHANGED <<subject, box>>,
         ~Unanswered, ended = None,
         \/ \A p \in Pools, s \in Slots : box[p][s] = "absent"
         \/ "cleanup" \in Rejects /\ stage = "cleanup",
         outcome = "shipped" => subject > 0
  PROVE  LifecycleHolds'
BY LifecycleBoundsAssumption
   DEF LifecycleHolds, ProvisionHolds, WorkHolds, ReclaimHolds, Known, StagesHold,
       EndHolds, Unanswered, Pool, Pools, Triggers, Members, Reclaim, Endings, End, attemptVars

\* What a terminal command or transition leaves behind.
LEMMA TerminatingTypes ==
  ASSUME LifecycleTypeOK, NEW outcome \in {"failed", "needs_human", "canceled"},
         Terminate(outcome)
  PROVE  LifecycleTypeOK'
<1>1. CASE HasCleanup
  <2>1. EnterSolo("stop", outcome,
               [NoContext EXCEPT !.pool = context.pool,
                                 !.targets = context.targets]) /\ UNCHANGED ended
    BY <1>1 DEF Terminate
  <2>2. context' \in Contexts
    <3>1. NoContext \in Contexts
      BY LifecycleBoundsAssumption DEF NoContext, Contexts
    <3>2. context.pool \in Pools \cup {None} /\ context.targets \in SUBSET Slots
      BY DEF LifecycleTypeOK, Contexts
    <3>3. context' = [NoContext EXCEPT !.pool = context.pool, !.targets = context.targets]
      BY <2>1 DEF EnterSolo
    <3> QED
      BY <3>1, <3>2, <3>3 DEF Contexts
  <2>3. stage' = "stop" /\ ending' = outcome /\ Fresh
    BY <2>1, EnteringIsFresh DEF EnterSolo
  <2>4. UNCHANGED <<ended, subject, usedKeys, box>> /\ recoveries' \in 0 .. MaxRecoveries
    BY <2>1 DEF Terminate, LifecycleTypeOK
  <2> QED
    BY <2>2, <2>3, <2>4, EnteringTypes DEF External, Endings
<1>2. CASE ~HasCleanup
  <2>1. End(outcome)
    BY <1>2 DEF Terminate
  <2> QED
    BY <2>1, EndingTypes DEF Terminate, Endings
<1> QED
  BY <1>1, <1>2

LEMMA TerminatingHolds ==
  ASSUME LifecycleIInv, NEW outcome \in {"failed", "needs_human", "canceled"},
         Terminate(outcome), ended = None
  PROVE  LifecycleHolds'
<1> USE DEF LifecycleIInv
<1>1. CASE HasCleanup
  <2>1. EnterSolo("stop", outcome,
               [NoContext EXCEPT !.pool = context.pool,
                                 !.targets = context.targets]) /\ UNCHANGED <<ended, subject, box>>
    BY <1>1 DEF Terminate
  <2>2. stage \in {"work", "publish"} \cup Reclaim
    <3>1. stage # "provision" /\ stage # "none"
      BY <1>1 DEF HasCleanup, LifecycleHolds, ProvisionHolds, EndHolds
    <3> QED
      BY <3>1 DEF LifecycleTypeOK, External, Reclaim
  <2>3. /\ context'.pool = context.pool /\ context'.targets = context.targets
        /\ ~(context'.recovery > 0) /\ stage' = "stop" /\ ending' = outcome
    BY <2>1 DEF EnterSolo, NoContext
  <2>4. Fresh
    BY <2>1, EnteringIsFresh
  <2> QED
    BY <2>1, <2>2, <2>3, <2>4, ToldOn DEF Reclaim, Endings
<1>2. CASE ~HasCleanup
  <2>1. End(outcome) /\ UNCHANGED <<subject, box>> /\ ~Unanswered /\ PreProvision
    BY <1>2 DEF Terminate, CanTerminate
  <2>2. \A p \in Pools, s \in Slots : box[p][s] = "absent"
    BY <2>1 DEF PreProvision, LifecycleHolds, ProvisionHolds
  <2> QED
    BY <2>1, <2>2, EndsClean DEF Endings
<1> QED
  BY <1>1, <1>2

LEMMA RecoveringHolds ==
  ASSUME LifecycleIInv, NEW trigger \in Members, NEW active \in SUBSET Members,
         Recover(trigger, active), stage \in {"work", "publish"}
  PROVE  LifecycleIInv'
<1> DEFINE ctx == [pool |-> context.pool, targets |-> context.targets,
                   recovery |-> recoveries + 1, frontier |-> active,
                   trigger |-> [stage |-> stage, attempt |-> trigger,
                                ordinal |-> ordinal]]
<1>1. EnterSolo("stop", "failed", ctx) /\ UNCHANGED <<ended, subject, usedKeys, box>>
  BY DEF Recover
<1>2. recoveries \in Nat /\ recoveries < MaxRecoveries /\ MaxRecoveries \in Nat
      /\ recoveries' = recoveries + 1
  BY LifecycleBoundsAssumption DEF LifecycleIInv, LifecycleTypeOK, Recover
<1>3. recoveries + 1 \in 0 .. MaxRecoveries /\ recoveries + 1 > 0
  BY <1>2
<1>4. ctx.trigger \in Triggers
  BY DEF Triggers, LifecycleIInv, LifecycleTypeOK
<1>5. ctx \in Contexts /\ ctx.pool = context.pool /\ ctx.targets = context.targets
  <2>1. context.pool \in Pools \cup {None} /\ context.targets \in SUBSET Slots
    BY DEF LifecycleIInv, LifecycleTypeOK, Contexts
  <2> QED
    BY <1>3, <1>4, <2>1 DEF Contexts
<1>6. context' = ctx /\ Fresh /\ stage' = "stop" /\ ending' = "failed"
  BY <1>1, EnteringIsFresh DEF EnterSolo
<1>7. ended = None
  BY DEF LifecycleIInv, LifecycleHolds, EndHolds
<1> HIDE DEF ctx
<1>8. LifecycleTypeOK'
  BY <1>1, <1>2, <1>3, <1>5, <1>6, EnteringTypes DEF LifecycleIInv, External, Endings
<1>9. LifecycleHolds'
  BY <1>1, <1>4, <1>5, <1>6, <1>7, ToldOn DEF LifecycleIInv, Reclaim, Endings
<1> QED
  BY <1>8, <1>9 DEF LifecycleIInv

LEMMA TerminatingKeeps ==
  ASSUME LifecycleIInv, NEW outcome \in {"failed", "needs_human", "canceled"},
         Terminate(outcome), ended = None
  PROVE  LifecycleIInv'
BY TerminatingTypes, TerminatingHolds DEF LifecycleIInv

\* A settlement that tells its sandboxes on, with the records that are inherited.
LEMMA InheritedKeeps ==
  ASSUME LifecycleIInv, context' = Inherited, Fresh,
         UNCHANGED <<ended, subject, usedKeys, box, recoveries>>,
         stage \in {"work", "publish"} \cup Reclaim,
         \/ stage' \in Reclaim /\ ending' \in Endings
         \/ stage' \in {"work", "publish"} /\ ending' = None /\ stage \in {"work", "publish"},
         ending' = "shipped" => subject > 0
  PROVE  LifecycleIInv'
<1>1. /\ context' \in Contexts /\ context'.pool = context.pool
      /\ context'.targets = context.targets /\ context'.recovery = context.recovery
      /\ context'.trigger = context.trigger
  BY DEF Inherited, LifecycleIInv, LifecycleTypeOK, Contexts
<1>2. context.recovery > 0 => context.trigger \in Triggers
  BY DEF LifecycleIInv, LifecycleHolds, StagesHold
<1>3. ended = None
  BY DEF LifecycleIInv, LifecycleHolds, EndHolds, Reclaim
<1>4. context'.recovery > 0 => context'.trigger \in Triggers
  BY <1>1, <1>2
<1>5. LifecycleTypeOK'
  BY <1>1, EnteringTypes DEF LifecycleIInv, LifecycleTypeOK, External, Reclaim
<1>6. LifecycleHolds'
  BY <1>1, <1>3, <1>4, ToldOn DEF LifecycleIInv
<1> QED
  BY <1>5, <1>6 DEF LifecycleIInv

-----------------------------------------------------------------------------
\* The actions of work attempts.

LEMMA StatusSteps ==
  ASSUME LifecycleIInv, NEW m \in Members, NEW st \in {"pending", "running", "complete",
           "settled", "recorded"},
         status' = [status EXCEPT ![m] = st],
         tries' = tries \/ tries' = [tries EXCEPT ![m] = @ + 1],
         UNCHANGED <<stage, ending, ended, subject, members, ordinal, phase, advanced,
                     delivery, context, usedKeys, recoveries, box>>
  PROVE  LifecycleIInv'
<1>1. /\ status' \in [Members -> {"none", "pending", "running", "complete",
                                 "settled", "work_complete", "recorded"}]
      /\ tries' \in [Members -> Nat]
  BY DEF LifecycleIInv, LifecycleTypeOK
<1>2. LifecycleTypeOK'
  BY <1>1 DEF LifecycleIInv, LifecycleTypeOK
<1> QED
  BY <1>2, StatusOnly DEF LifecycleIInv

LEMMA WorkKeeps ==
  ASSUME LifecycleIInv, NEW u \in Units, WorkStep(u) \/ FatalWork(u)
  PROVE  LifecycleIInv'
<1>0. u \in Members
  BY DEF Members
<1>1. CASE StartWork(u)
  BY <1>0, <1>1, StatusSteps DEF StartWork, runVars, recordVars
<1>2. CASE FinishWork(u)
  BY <1>0, <1>2, StatusSteps DEF FinishWork, runVars, recordVars
<1>3. CASE SettleSibling(u)
  BY <1>0, <1>3, StatusSteps DEF SettleSibling, runVars, recordVars
<1>4. CASE SettleBarrier(u)
  <2>1. stage = "work" /\ UNCHANGED <<ended, subject, usedKeys, box, recoveries>>
    BY <1>4 DEF SettleBarrier
  <2>2. ASSUME NEW st, NEW end, EnterSolo(st, end, Inherited),
               <<st, end>> \in {<<"publish", None>>, <<"stop", "failed">>, <<"stop", "needs_human">>}
        PROVE  LifecycleIInv'
    <3>1. Fresh /\ context' = Inherited /\ stage' = st /\ ending' = end
      BY <2>2, EnteringIsFresh DEF EnterSolo
    <3>2. \/ st = "publish" /\ end = None
          \/ st = "stop" /\ end \in {"failed", "needs_human"}
      BY <2>2
    <3>3. None # "shipped"
      BY LifecycleBoundsAssumption
    <3> QED
      BY <2>1, <3>1, <3>2, <3>3, InheritedKeeps DEF Reclaim, Endings
  <2>3. ASSUME EnterWork(Inherited) PROVE LifecycleIInv'
    <3>1. Fresh /\ context' = Inherited /\ stage' = "work" /\ ending' = None
      BY <2>3, EnteringIsFresh DEF EnterWork
    <3>2. None # "shipped"
      BY LifecycleBoundsAssumption
    <3> QED
      BY <2>1, <3>1, <3>2, InheritedKeeps
  <2>4. CASE EnterSolo("publish", None, Inherited)
    BY <2>2, <2>4
  <2>5. CASE EnterSolo("stop", "failed", Inherited)
    BY <2>2, <2>5
  <2>6. CASE EnterSolo("stop", "needs_human", Inherited)
    BY <2>2, <2>6
  <2> QED
    BY <1>4, <2>3, <2>4, <2>5, <2>6 DEF SettleBarrier
<1>5. CASE FatalWork(u)
  <2>1. stage = "work" /\ ended = None
    BY <1>5 DEF FatalWork, LifecycleIInv, LifecycleHolds, EndHolds
  <2>2. CASE ordinal[u] >= WorkRetryLimit
    BY <1>5, <2>1, <2>2, TerminatingKeeps DEF FatalWork
  <2>3. CASE ~(ordinal[u] >= WorkRetryLimit) /\ \E v \in members \ {u} : status[v] = "complete"
    <3>1. ordinal[u] < WorkRetryLimit
      BY <1>0, <2>3, LifecycleBoundsAssumption DEF LifecycleIInv, LifecycleTypeOK
    <3> QED
      BY <1>5, <2>1, <2>3, <3>1, TerminatingKeeps DEF FatalWork
  <2>4. CASE ~(ordinal[u] >= WorkRetryLimit) /\ ~\E v \in members \ {u} : status[v] = "complete"
    <3>1. Recover(u, Active)
      BY <1>5, <2>4 DEF FatalWork
    <3>2. Active \in SUBSET Members
      BY DEF Active, LifecycleIInv, LifecycleTypeOK
    <3> QED
      BY <1>0, <2>1, <3>1, <3>2, RecoveringHolds
  <2> QED
    BY <2>2, <2>3, <2>4
<1> QED
  BY <1>1, <1>2, <1>3, <1>4, <1>5 DEF WorkStep

LEMMA LosingKeeps ==
  ASSUME LifecycleIInv, NEW m \in Members, LoseLease(m)
  PROVE  LifecycleIInv'
<1>1. CASE Retry(m)
  BY <1>1, StatusSteps DEF Retry, runVars, recordVars
<1>2. CASE Terminate("needs_human")
  BY <1>2, TerminatingKeeps DEF LoseLease
<1> QED
  BY <1>1, <1>2 DEF LoseLease

-----------------------------------------------------------------------------
\* The actions of external attempts.

LEMMA NextPhase ==
  ASSUME NEW n \in 0 .. 3, NEW l \in 1 .. 3, n < l
  PROVE  /\ n \in Nat /\ n + 1 \in 0 .. 3 /\ n + 1 > 0 /\ n + 1 <= l
         /\ l = 2 => n \in {0, 1}
OBVIOUS

LEMMA ScheduleKeeps ==
  ASSUME LifecycleIInv, SchedulePhase
  PROVE  LifecycleIInv'
<1> USE DEF LifecycleIInv
<1>1. /\ stage \in External /\ phase < Len(Phases(stage)) /\ ~Unanswered /\ ~Refused
      /\ phase' = phase + 1
      /\ delivery' = [s \in Slots |-> IF s \in Targets THEN "pending" ELSE "none"]
      /\ status' = [status EXCEPT ![Solo] = "work_complete"]
      /\ UNCHANGED <<stage, ending, ended, subject, members, tries, ordinal, advanced, context,
                     recoveries, box>>
  BY DEF SchedulePhase, runVars
<1>2. phase \in Nat /\ phase' \in 0 .. 3 /\ phase' > 0 /\ phase' <= Len(Phases(stage))
  <2>1. Len(Phases(stage)) \in 1 .. 3
    BY <1>1, PhasesOfStages DEF External
  <2>2. phase \in 0 .. 3
    BY DEF LifecycleTypeOK
  <2> QED
    BY <1>1, <2>1, <2>2, NextPhase
<1>3. LifecycleTypeOK'
  <2>1. usedKeys' \in SUBSET (Kinds \X Pools)
    <3>1. Pool \in Pools
      BY <1>1, PoolOfStage DEF External
    <3> QED
      BY <3>1 DEF SchedulePhase, LifecycleTypeOK
  <2>2. delivery' \in [Slots -> {"none", "pending", "confirmed", "rejected",
                                 "retryable", "fatal"}]
    BY <1>1
  <2>3. status' \in [Members -> {"none", "pending", "running", "complete",
                                 "settled", "work_complete", "recorded"}]
    BY <1>1 DEF LifecycleTypeOK
  <2> QED
    BY <1>1, <1>2, <2>1, <2>2, <2>3 DEF LifecycleTypeOK
<1>4. Pool' = Pool
  BY <1>1 DEF Pool
<1>5. ProvisionHolds'
  <2> SUFFICES ASSUME stage = "provision" PROVE ProvisionHolds'
    BY <1>1 DEF ProvisionHolds
  <2>1. \A s \in Slots : delivery'[s] = "pending"
    BY <1>1 DEF Targets
  <2>2. Pool \in Pools
    BY PoolOfStage
  <2>3. CASE phase = 0
    BY <1>1, <1>4, <2>1, <2>2, <2>3 DEF ProvisionHolds, LifecycleHolds
  <2>4. CASE phase = 1
    <3>1. \A s \in Slots : delivery[s] = "confirmed"
      BY <1>1, <2>4 DEF ProvisionHolds, LifecycleHolds, Unanswered, Refused
    <3> QED
      BY <1>1, <1>4, <2>1, <2>4, <3>1 DEF ProvisionHolds, LifecycleHolds
  <2>5. Len(Phases(stage)) = 2
    BY PhasesOfStages
  <2>6. phase \in {0, 1}
    <3>1. phase \in 0 .. 3 /\ phase < 2
      BY <1>1, <2>5 DEF LifecycleTypeOK
    <3> QED
      BY <3>1, NextPhase
  <2> QED
    BY <2>3, <2>4, <2>6
<1>6. WorkHolds'
  BY <1>1 DEF WorkHolds, LifecycleHolds, Pools
<1>7. ReclaimHolds'
  <2> SUFFICES ASSUME stage \in Reclaim PROVE ReclaimHolds'
    BY <1>1 DEF ReclaimHolds
  <2>1. Targets = context.targets
    BY DEF Targets, Reclaim
  <2>2. phase' <= 1
    BY <1>2, PhasesOfStages DEF Reclaim
  <2>3. context.targets \in SUBSET Slots
    BY DEF LifecycleTypeOK, Contexts
  <2> QED
    BY <1>1, <2>1, <2>2, <2>3 DEF ReclaimHolds, LifecycleHolds, Pools
<1>8. Known'
  BY <1>1, <1>2, <1>4 DEF Known, LifecycleHolds, Pools
<1>9. StagesHold' /\ EndHolds'
  BY <1>1, <1>2 DEF StagesHold, EndHolds, LifecycleHolds, Triggers, Members, External
<1> QED
  BY <1>3, <1>5, <1>6, <1>7, <1>8, <1>9 DEF LifecycleHolds

\* What the answers of the providers have in common.
LEMMA AnsweringTypes ==
  ASSUME LifecycleIInv, NEW s \in Slots,
         NEW reply \in {"confirmed", "rejected", "retryable", "fatal"},
         NEW state \in {"absent", "created", "started", "stopped", "lost"},
         Answer(s, reply, state)
  PROVE  /\ LifecycleTypeOK'
         /\ UNCHANGED <<stage, ending, ended, subject, phase, advanced, context>>
         /\ Pool' = Pool
         /\ \A q \in Slots : delivery'[q] = IF q = s THEN reply ELSE delivery[q]
         /\ \A p \in Pools, q \in Slots :
              box'[p][q] = IF p = Pool /\ q = s THEN state ELSE box[p][q]
<1>1. /\ UNCHANGED <<stage, ending, ended, subject, members, status, tries, ordinal, phase,
                     advanced, context, usedKeys, recoveries>>
      /\ delivery' = [delivery EXCEPT ![s] = reply]
      /\ box' = [box EXCEPT ![Pool][s] = state]
  BY DEF Answer, runVars, recordVars
<1>2. delivery' \in [Slots -> {"none", "pending", "confirmed", "rejected",
                                 "retryable", "fatal"}]
  BY <1>1 DEF LifecycleIInv, LifecycleTypeOK
<1>3. box' \in [Pools -> [Slots -> {"absent", "created", "started", "stopped", "lost"}]]
  BY <1>1 DEF LifecycleIInv, LifecycleTypeOK
<1>4. LifecycleTypeOK'
  BY <1>1, <1>2, <1>3 DEF LifecycleIInv, LifecycleTypeOK
<1>5. Pool' = Pool
  BY <1>1 DEF Pool
<1>6. \A p \in Pools, q \in Slots :
        box'[p][q] = IF p = Pool /\ q = s THEN state ELSE box[p][q]
  BY <1>1 DEF LifecycleIInv, LifecycleTypeOK
<1>7. \A q \in Slots : delivery'[q] = IF q = s THEN reply ELSE delivery[q]
  BY <1>1 DEF LifecycleIInv, LifecycleTypeOK
<1> QED
  BY <1>1, <1>4, <1>5, <1>6, <1>7

\* A reply fits what the stage expects of the sandbox it is about.
Fitting(s, reply, state) ==
  /\ stage = "provision" =>
       \/ phase = 1 /\ reply = "confirmed" /\ state = "created"
       \/ phase = 2 /\ reply = "confirmed" /\ state = "started"
       \/ reply = "rejected" /\ state = box[Pool][s]
  /\ stage = "publish" => state \in {"started", "lost"}
  /\ stage = "cleanup" =>
       \/ reply = "confirmed" /\ state = "absent"
       \/ reply = "rejected" /\ state = box[Pool][s] /\ "cleanup" \in Rejects

LEMMA AnsweringHolds ==
  ASSUME LifecycleIInv, NEW s \in Slots, stage \in External, delivery[s] = "pending",
         NEW reply \in {"confirmed", "rejected", "retryable", "fatal"},
         NEW state \in {"absent", "created", "started", "stopped", "lost"},
         Answer(s, reply, state), Fitting(s, reply, state)
  PROVE  LifecycleIInv'
<1> USE DEF LifecycleIInv
<1>1. /\ LifecycleTypeOK'
      /\ UNCHANGED <<stage, ending, ended, subject, phase, advanced, context>>
      /\ Pool' = Pool
      /\ \A q \in Slots : delivery'[q] = IF q = s THEN reply ELSE delivery[q]
      /\ \A p \in Pools, q \in Slots :
           box'[p][q] = IF p = Pool /\ q = s THEN state ELSE box[p][q]
  BY AnsweringTypes
<1>2. phase > 0
  BY DEF LifecycleHolds, StagesHold, LifecycleTypeOK
<1>3. /\ stage = "provision" => Pool \in Pools
      /\ stage \in {"work", "publish", "stop", "cleanup"} => Pool = context.pool /\ Pool \in Pools
  BY PoolOfStage
<1>4. ProvisionHolds'
  <2> SUFFICES ASSUME stage = "provision" PROVE ProvisionHolds'
    BY <1>1 DEF ProvisionHolds
  <2>1. phase \in {1, 2}
    BY <1>2 DEF LifecycleHolds, ProvisionHolds, LifecycleTypeOK
  <2> QED
    BY <1>1, <1>3, <2>1 DEF LifecycleHolds, ProvisionHolds, Fitting
<1>5. WorkHolds'
  BY <1>1, <1>3 DEF LifecycleHolds, WorkHolds, Fitting, External, Pools
<1>6. stage \in Reclaim => s \in context.targets
  BY DEF LifecycleHolds, ReclaimHolds
<1>7. ReclaimHolds'
  <2> SUFFICES ASSUME stage \in Reclaim PROVE ReclaimHolds'
    BY <1>1 DEF ReclaimHolds
  <2>1. context.targets \in SUBSET Slots
    BY DEF LifecycleTypeOK, Contexts
  <2>2. context'.pool \in Pools' /\ phase' <= 1 /\ \A q \in Slots \ context.targets : delivery'[q] = "none"
    BY <1>1, <1>6, <2>1 DEF LifecycleHolds, ReclaimHolds, Pools
  <2>3. ASSUME stage = "cleanup", NEW q \in context.targets
        PROVE  /\ delivery'[q] \in {"pending", "confirmed", "rejected"}
               /\ delivery'[q] = "confirmed" => box'[context.pool][q] = "absent"
               /\ delivery'[q] = "rejected" => "cleanup" \in Rejects
    <3>1. q \in Slots /\ context.pool \in Pools /\ Pool = context.pool /\ phase = 1
      BY <1>2, <1>3, <2>1, <2>3 DEF LifecycleHolds, ReclaimHolds, LifecycleTypeOK, Reclaim
    <3>2. /\ delivery[q] \in {"pending", "confirmed", "rejected"}
          /\ delivery[q] = "confirmed" => box[context.pool][q] = "absent"
          /\ delivery[q] = "rejected" => "cleanup" \in Rejects
      BY <2>3, <3>1 DEF LifecycleHolds, ReclaimHolds, Reclaim
    <3> QED
      BY <1>1, <2>3, <3>1, <3>2 DEF Fitting
  <2> QED
    BY <1>1, <2>2, <2>3 DEF ReclaimHolds
<1>8. Known'
  <2> SUFFICES ASSUME NEW p \in Pools, NEW q \in Slots, box'[p][q] # "absent"
               PROVE  \/ stage = "provision" /\ p = Pool /\ phase > 0
                      \/ p = context.pool /\ q \in context.targets
    BY <1>1 DEF Known, Pools
  <2>1. CASE p = Pool /\ q = s
    BY <1>2, <1>3, <1>6, <2>1 DEF LifecycleHolds, WorkHolds, External, Reclaim
  <2>2. CASE ~(p = Pool /\ q = s)
    BY <1>1, <2>2 DEF LifecycleHolds, Known
  <2> QED
    BY <2>1, <2>2
<1>9. StagesHold'
  BY <1>1, <1>2 DEF LifecycleHolds, StagesHold, Triggers, Members
<1>10. EndHolds'
  BY <1>1 DEF LifecycleHolds, EndHolds, External
<1> QED
  BY <1>1, <1>4, <1>5, <1>7, <1>8, <1>9, <1>10 DEF LifecycleHolds

\* The stage and phase that a kind of delivery belongs to.
LEMMA KindOfStage ==
  ASSUME LifecycleIInv, NEW s \in Slots, NEW kinds, Pending(s, kinds)
  PROVE  /\ stage \in External /\ delivery[s] = "pending" /\ Kind \in kinds
         /\ stage = "provision" => \/ phase = 1 /\ Kind = "create"
                                   \/ phase = 2 /\ Kind = "start"
         /\ stage = "publish" => phase \in 1 .. 3 /\ Kind \in {"integrate", "push", "pull_request"}
         /\ stage = "stop" => Kind = "stop"
         /\ stage = "cleanup" => Kind = "cleanup"
<1>1. stage \in External /\ delivery[s] = "pending" /\ Kind \in kinds
  BY DEF Pending
<1>2. phase \in 1 .. 3
  BY <1>1 DEF LifecycleIInv, LifecycleTypeOK, LifecycleHolds, StagesHold
<1>3. stage \in Reclaim => phase = 1
  BY <1>2 DEF LifecycleIInv, LifecycleHolds, ReclaimHolds
<1>4. stage = "provision" => phase \in {1, 2}
  BY <1>2 DEF LifecycleIInv, LifecycleHolds, ProvisionHolds
<1> QED
  BY <1>1, <1>2, <1>3, <1>4, PhasesOfStages DEF Kind, Reclaim

LEMMA ConfirmingKeeps ==
  ASSUME LifecycleIInv, NEW s \in Slots,
         Confirm(s) \/ RejectEffect(s) \/ FailIntegrate(s)
  PROVE  LifecycleIInv'
<1>0. \A p \in Pools : box[p][s] \in {"absent", "created", "started", "stopped", "lost"}
  BY DEF LifecycleIInv, LifecycleTypeOK
<1>a. ASSUME NEW kinds, NEW reply \in {"confirmed", "rejected", "retryable", "fatal"},
             NEW state \in {"absent", "created", "started", "stopped", "lost"},
             Pending(s, kinds), Answer(s, reply, state), Fitting(s, reply, state)
      PROVE  LifecycleIInv'
  BY <1>a, AnsweringHolds DEF Pending
<1>1. CASE ConfirmCreate(s)
  <2>1. Pending(s, {"create"}) /\ Answer(s, "confirmed", "created")
    BY <1>1 DEF ConfirmCreate
  <2>2. Fitting(s, "confirmed", "created")
    BY <2>1, KindOfStage DEF Fitting
  <2> QED
    BY <1>a, <2>1, <2>2
<1>2. CASE ConfirmStart(s)
  <2>1. Pending(s, {"start"}) /\ Answer(s, "confirmed", "started")
    BY <1>2 DEF ConfirmStart
  <2>2. Fitting(s, "confirmed", "started")
    BY <2>1, KindOfStage DEF Fitting
  <2> QED
    BY <1>a, <2>1, <2>2
<1>3. CASE ConfirmStop(s)
  <2> DEFINE state == IF box[Pool][s] = "lost" THEN "lost" ELSE "stopped"
  <2>1. Pending(s, {"stop"}) /\ Answer(s, "confirmed", state)
    BY <1>3 DEF ConfirmStop
  <2>2. Fitting(s, "confirmed", state)
    BY <2>1, KindOfStage DEF Fitting
  <2> QED
    BY <1>a, <2>1, <2>2
<1>4. CASE ConfirmCleanup(s)
  <2>1. Pending(s, {"cleanup"}) /\ Answer(s, "confirmed", "absent")
    BY <1>4 DEF ConfirmCleanup
  <2>2. Fitting(s, "confirmed", "absent")
    BY <2>1, KindOfStage DEF Fitting
  <2> QED
    BY <1>a, <2>1, <2>2
<1>5. CASE ConfirmIntegrate(s)
  <2>1. Pending(s, {"integrate"}) /\ Answer(s, "confirmed", "started")
    BY <1>5 DEF ConfirmIntegrate
  <2>2. Fitting(s, "confirmed", "started")
    BY <2>1, KindOfStage DEF Fitting
  <2> QED
    BY <1>a, <2>1, <2>2
<1>6. CASE FatalIntegrate(s)
  <2>1. Pending(s, {"integrate"}) /\ Answer(s, "fatal", "lost")
    BY <1>6 DEF FatalIntegrate
  <2>2. Fitting(s, "fatal", "lost")
    BY <2>1, KindOfStage DEF Fitting
  <2> QED
    BY <1>a, <2>1, <2>2
<1>7. CASE ConfirmPublication(s)
  <2>1. Pending(s, {"push", "pull_request"}) /\ Answer(s, "confirmed", box[Pool][s])
    BY <1>7 DEF ConfirmPublication
  <2>2. stage = "publish"
    BY <2>1, KindOfStage DEF External
  <2>3. Pool \in Pools /\ box[Pool][s] \in {"started", "lost"}
    BY <2>2, PoolOfStage DEF LifecycleIInv, LifecycleHolds, WorkHolds
  <2>4. Fitting(s, "confirmed", box[Pool][s])
    BY <2>2, <2>3 DEF Fitting
  <2> QED
    BY <1>0, <1>a, <2>1, <2>3, <2>4
<1>8. CASE RejectEffect(s)
  <2>1. Pending(s, Rejects) /\ Answer(s, "rejected", box[Pool][s])
    BY <1>8 DEF RejectEffect
  <2>2. Pool \in Pools
    BY <2>1, PoolOfStage, KindOfStage DEF External
  <2>3. stage = "publish" => box[Pool][s] \in {"started", "lost"}
    BY PoolOfStage DEF LifecycleIInv, LifecycleHolds, WorkHolds
  <2>4. Fitting(s, "rejected", box[Pool][s])
    BY <2>1, <2>3, KindOfStage DEF Fitting
  <2> QED
    BY <1>0, <1>a, <2>1, <2>2, <2>4
<1>9. CASE FailIntegrate(s)
  <2>1. Pending(s, Rejects \cap {"integrate"}) /\ Answer(s, "retryable", "started")
    BY <1>9 DEF FailIntegrate
  <2>2. Fitting(s, "retryable", "started")
    BY <2>1, KindOfStage DEF Fitting
  <2> QED
    BY <1>a, <2>1, <2>2
<1> QED
  BY <1>1, <1>2, <1>3, <1>4, <1>5, <1>6, <1>7, <1>8, <1>9 DEF Confirm

LEMMA LosingSandboxKeeps ==
  ASSUME LifecycleIInv, NEW s \in Slots, LoseSandbox(s)
  PROVE  LifecycleIInv'
<1> USE DEF LifecycleIInv
<1>1. /\ ended = None /\ context.pool # None /\ box[context.pool][s] = "started"
      /\ box' = [box EXCEPT ![context.pool][s] = "lost"]
      /\ UNCHANGED <<stage, ending, ended, subject, members, status, tries, ordinal, phase,
                     advanced, delivery, context, usedKeys, recoveries>>
  BY DEF LoseSandbox, runVars, attemptVars, recordVars
<1>2. context.pool \in Pools /\ stage # "provision" /\ stage # "none"
  BY <1>1 DEF LifecycleTypeOK, Contexts, LifecycleHolds, ProvisionHolds, EndHolds
<1>3. \A p \in Pools, q \in Slots :
        box'[p][q] = IF p = context.pool /\ q = s THEN "lost" ELSE box[p][q]
  BY <1>1 DEF LifecycleTypeOK
<1>4. LifecycleTypeOK'
  <2>1. box' \in [Pools -> [Slots -> {"absent", "created", "started", "stopped", "lost"}]]
    BY <1>1 DEF LifecycleTypeOK
  <2> QED
    BY <1>1, <2>1 DEF LifecycleTypeOK
<1>5. ProvisionHolds' /\ WorkHolds'
  BY <1>1, <1>2, <1>3 DEF LifecycleHolds, ProvisionHolds, WorkHolds, Pools
<1>6. ReclaimHolds'
  <2>1. context.targets \in SUBSET Slots
    BY DEF LifecycleTypeOK, Contexts
  <2> QED
    BY <1>1, <1>2, <1>3, <2>1 DEF LifecycleHolds, ReclaimHolds, Pools, Reclaim
<1>7. Known'
  <2>1. Pool' = Pool
    BY <1>1 DEF Pool
  <2> QED
    BY <1>1, <1>2, <1>3, <2>1 DEF LifecycleHolds, Known, Pools
<1>8. StagesHold' /\ EndHolds'
  BY <1>1 DEF LifecycleHolds, StagesHold, EndHolds, Triggers, Members
<1> QED
  BY <1>4, <1>5, <1>6, <1>7, <1>8 DEF LifecycleHolds

LEMMA PromotingKeeps ==
  ASSUME LifecycleIInv, PromoteSubject
  PROVE  LifecycleIInv'
<1> USE DEF LifecycleIInv
<1>1. /\ stage = "publish" /\ subject < MaxSubject /\ subject' = subject + 1 /\ advanced' = TRUE
      /\ UNCHANGED <<stage, ending, ended, members, status, tries, ordinal, phase,
                     delivery, context, usedKeys, recoveries, box>>
  BY DEF PromoteSubject, recordVars
<1>2. subject \in Nat /\ subject' \in 0 .. MaxSubject /\ subject' > 0
  BY <1>1, LifecycleBoundsAssumption DEF LifecycleTypeOK
<1>3. advanced' \in BOOLEAN
  BY <1>1, Zenon
<1>4. LifecycleTypeOK'
  BY <1>1, <1>2, <1>3 DEF LifecycleTypeOK
<1>5. Pool' = Pool
  BY <1>1 DEF Pool
<1>6. ProvisionHolds' /\ WorkHolds' /\ ReclaimHolds' /\ Known'
  BY <1>1, <1>5 DEF LifecycleHolds, ProvisionHolds, WorkHolds, ReclaimHolds, Known, Reclaim, Pools
<1>7. StagesHold' /\ EndHolds'
  BY <1>1, <1>2 DEF LifecycleHolds, StagesHold, EndHolds, Unanswered, Triggers, Members
<1> QED
  BY <1>4, <1>6, <1>7 DEF LifecycleHolds

-----------------------------------------------------------------------------
\* The settlements.

\* A plan that is not refused is confirmed to its end.
LEMMA OutcomeOfPlan ==
  ASSUME LifecycleIInv, PlanDone
  PROVE  /\ stage \in External /\ ~Unanswered /\ ended = None
         /\ PlanOutcome = "success" => ~Refused
         /\ ~Refused => phase = Len(Phases(stage)) /\ (stage = "publish" => advanced)
         /\ PlanOutcome = "no_resource" =>
              stage = "provision" /\ phase = 1 /\ \A s \in Slots : delivery[s] = "rejected"
         /\ PlanOutcome = "failure" =>
              /\ Refused
              /\ stage = "provision" /\ phase = 1 =>
                   ~ \A s \in Slots : delivery[s] = "rejected"
<1>1. stage \in External /\ ~Unanswered /\ (Refused \/ (phase = Len(Phases(stage)) /\ (stage = "publish" => advanced)))
  BY DEF PlanDone
<1>2. ended = None
  BY <1>1 DEF LifecycleIInv, LifecycleHolds, EndHolds, External
<1>3. (\A s \in Slots : delivery[s] = "rejected") => Refused
  BY LifecycleSetsAssumption DEF Refused
<1>4. \/ ~Refused /\ PlanOutcome = "success"
      \/ /\ PlanOutcome = "no_resource" /\ stage = "provision" /\ phase = 1
         /\ \A s \in Slots : delivery[s] = "rejected"
         /\ Refused
      \/ PlanOutcome = "retryable" /\ Refused
      \/ /\ PlanOutcome = "failure" /\ Refused
         /\ ~(stage = "provision" /\ phase = 1 /\ \A s \in Slots : delivery[s] = "rejected")
  BY <1>3 DEF PlanOutcome
<1> QED
  BY <1>1, <1>2, <1>4

\* What a provision leaves behind is told to the stage that follows it.
LEMMA ProvisionedContext ==
  ASSUME LifecycleIInv, stage = "provision"
  PROVE  /\ Provisioned \in Contexts /\ Provisioned.pool = Pool /\ Pool \in Pools
         /\ Provisioned.targets = IF phase = 1 THEN {s \in Slots : delivery[s] = "confirmed"}
                                  ELSE Slots
         /\ Provisioned.recovery = context.recovery
         /\ Provisioned.trigger = context.trigger
         /\ [Provisioned EXCEPT !.frontier = {}] \in Contexts
         /\ [Provisioned EXCEPT !.frontier = {}].pool = Provisioned.pool
         /\ [Provisioned EXCEPT !.frontier = {}].targets = Provisioned.targets
         /\ [Provisioned EXCEPT !.frontier = {}].recovery = context.recovery
         /\ [Provisioned EXCEPT !.frontier = {}].trigger = context.trigger
<1>1. Pool \in Pools
  BY PoolOfStage
<1> DEFINE told == IF phase = 1 THEN {s \in Slots : delivery[s] = "confirmed"} ELSE Slots
<1>2. told \in SUBSET Slots /\ Provisioned = [context EXCEPT !.pool = Pool, !.targets = told]
  BY DEF Provisioned
<1>3. context \in Contexts
  BY DEF LifecycleIInv, LifecycleTypeOK
<1>4. /\ Provisioned \in Contexts /\ Provisioned.pool = Pool /\ Provisioned.targets = told
      /\ Provisioned.recovery = context.recovery /\ Provisioned.trigger = context.trigger
  <2> HIDE DEF told
  <2> QED
    BY <1>1, <1>2, <1>3 DEF Contexts
<1>5. ASSUME NEW c \in Contexts
      PROVE  /\ [c EXCEPT !.frontier = {}] \in Contexts
             /\ [c EXCEPT !.frontier = {}].pool = c.pool
             /\ [c EXCEPT !.frontier = {}].targets = c.targets
             /\ [c EXCEPT !.frontier = {}].recovery = c.recovery
             /\ [c EXCEPT !.frontier = {}].trigger = c.trigger
  BY DEF Contexts
<1> QED
  BY <1>1, <1>4, <1>5

\* A provision that succeeded, or failed in part, hands its sandboxes on.
LEMMA HandsOn ==
  ASSUME LifecycleIInv, stage = "provision", ended = None, PlanDone,
         NEW ctx, ctx \in Contexts, context' = ctx,
         ctx.pool = Pool, ctx.recovery > 0 => ctx.trigger \in Triggers,
         ctx.targets = IF phase = 1 THEN {s \in Slots : delivery[s] = "confirmed"}
                       ELSE Slots,
         UNCHANGED <<ended, subject, usedKeys, box, recoveries>>, Fresh,
         \/ stage' = "stop" /\ ending' = "failed"
         \/ stage' \in {"work", "publish"} /\ ending' = None /\ PlanOutcome = "success"
  PROVE  LifecycleIInv'
<1> USE DEF LifecycleIInv
<1>1. LifecycleTypeOK'
  <2>1. /\ recoveries' \in 0 .. MaxRecoveries /\ context' \in Contexts
        /\ stage' \in External \cup {"work"} /\ ending' \in Endings \cup {None}
    BY DEF External, Endings, LifecycleTypeOK
  <2> QED
    BY <2>1, EnteringTypes
<1>2. Pool \in Pools
  BY PoolOfStage
<1>3. ProvisionHolds'
  BY DEF ProvisionHolds
<1>4. WorkHolds'
  <2> SUFFICES ASSUME stage' \in {"work", "publish"} PROVE WorkHolds'
    BY DEF WorkHolds
  <2>1. ~Refused /\ ~Unanswered /\ phase = 2
    BY OutcomeOfPlan, PhasesOfStages
  <2>2. \A s \in Slots : delivery[s] = "confirmed"
    BY <2>1 DEF LifecycleHolds, ProvisionHolds, Unanswered, Refused
  <2>3. \A s \in Slots : box[Pool][s] = "started"
    BY <2>1, <2>2 DEF LifecycleHolds, ProvisionHolds
  <2> QED
    BY <1>2, <2>1, <2>3 DEF WorkHolds, Pools
<1>5. ReclaimHolds'
  BY <1>2 DEF ReclaimHolds, Fresh, Reclaim, Pools
<1>6. Known'
  <2> SUFFICES ASSUME NEW p \in Pools, NEW s \in Slots, box[p][s] # "absent"
               PROVE  p = Pool /\ s \in ctx.targets
    BY DEF Known, Pools
  <2>1. context.targets = {} /\ phase \in {0, 1, 2}
    BY DEF LifecycleHolds, ProvisionHolds, LifecycleTypeOK
  <2>2. p = Pool /\ phase > 0
    BY <2>1 DEF LifecycleHolds, Known
  <2>3. phase = 1 => delivery[s] = "confirmed"
    BY <2>2 DEF LifecycleHolds, ProvisionHolds
  <2> QED
    BY <2>1, <2>2, <2>3
<1>7. StagesHold'
  BY LifecycleBoundsAssumption DEF LifecycleHolds, StagesHold, Fresh, Triggers, Members, Reclaim
<1>8. EndHolds'
  BY DEF LifecycleHolds, EndHolds
<1> QED
  BY <1>1, <1>3, <1>4, <1>5, <1>6, <1>7, <1>8 DEF LifecycleHolds

\* A run ends that has no sandbox, or whose cleanup was refused.
LEMMA EndingKeeps ==
  ASSUME LifecycleIInv, NEW outcome \in Endings, End(outcome),
         UNCHANGED <<subject, usedKeys, box, recoveries>>, ~Unanswered, ended = None,
         \/ \A p \in Pools, s \in Slots : box[p][s] = "absent"
         \/ "cleanup" \in Rejects /\ stage = "cleanup",
         outcome = "shipped" => subject > 0
  PROVE  LifecycleIInv'
BY EndingTypes, EndsClean DEF LifecycleIInv

LEMMA ProvisionSettles ==
  ASSUME LifecycleIInv, SettleProvision
  PROVE  LifecycleIInv'
<1>1. stage = "provision" /\ PlanDone /\ UNCHANGED <<subject, usedKeys, box, recoveries>>
  BY DEF SettleProvision, Settling
<1>2. ended = None /\ ~Unanswered
  BY <1>1, OutcomeOfPlan
<1>3. context.recovery > 0 => context.trigger \in Triggers
  BY DEF LifecycleIInv, LifecycleHolds, StagesHold
<1>4. CASE PlanOutcome = "success" /\ EnterWork(Provisioned) /\ UNCHANGED ended
  <2>1. Fresh /\ context' = Provisioned /\ stage' = "work" /\ ending' = None
    BY <1>4, EnteringIsFresh DEF EnterWork
  <2>2. /\ Provisioned \in Contexts /\ Provisioned.pool = Pool
        /\ Provisioned.targets = IF phase = 1 THEN {s \in Slots : delivery[s] = "confirmed"}
                                  ELSE Slots
        /\ Provisioned.recovery > 0 => Provisioned.trigger \in Triggers
    BY <1>1, <1>3, ProvisionedContext
  <2> HIDE DEF Provisioned
  <2> QED
    BY <1>1, <1>2, <1>4, <2>1, <2>2, HandsOn
<1>5. CASE EnterSolo("stop", "failed", [Provisioned EXCEPT !.frontier = {}]) /\ UNCHANGED ended
  <2> DEFINE ctx == [Provisioned EXCEPT !.frontier = {}]
  <2>1. Fresh /\ context' = ctx /\ stage' = "stop" /\ ending' = "failed"
    BY <1>5, EnteringIsFresh DEF EnterSolo
  <2>2. /\ ctx \in Contexts /\ ctx.pool = Pool
        /\ ctx.targets = IF phase = 1 THEN {s \in Slots : delivery[s] = "confirmed"}
                                  ELSE Slots
        /\ ctx.recovery > 0 => ctx.trigger \in Triggers
    BY <1>1, <1>3, ProvisionedContext
  <2> HIDE DEF ctx
  <2> QED
    BY <1>1, <1>2, <1>5, <2>1, <2>2, HandsOn
<1>6. CASE PlanOutcome = "no_resource" /\ End("failed")
  <2>1. phase = 1 /\ \A s \in Slots : delivery[s] = "rejected"
    BY <1>1, <1>6, OutcomeOfPlan
  <2>2. \A p \in Pools, s \in Slots : box[p][s] = "absent"
    BY <1>1, <2>1 DEF LifecycleIInv, LifecycleHolds, ProvisionHolds, Known
  <2> QED
    BY <1>1, <1>2, <1>6, <2>2, EndingKeeps DEF Endings
<1> QED
  BY <1>4, <1>5, <1>6 DEF SettleProvision, Settling

LEMMA RestoringKeeps ==
  ASSUME LifecycleIInv, RestoreFrontier
  PROVE  LifecycleIInv'
<1> DEFINE trigger == context.trigger
           restored == IF context.frontier = {} THEN {trigger.attempt}
                       ELSE context.frontier
           ctx == [Provisioned EXCEPT !.frontier = {}]
<1>1. /\ stage = "provision" /\ PlanDone /\ PlanOutcome = "success" /\ context.recovery > 0
      /\ UNCHANGED <<ended, subject, usedKeys, box, recoveries>>
      /\ stage' = trigger.stage /\ ending' = None /\ members' = restored
      /\ status' = [m \in Members |-> IF m \in restored THEN "pending" ELSE "none"]
      /\ tries' = [m \in Members |-> 0]
      /\ ordinal' = [m \in Members |->
                      IF m = trigger.attempt THEN trigger.ordinal[m] + 1
                      ELSE IF m \in restored THEN trigger.ordinal[m] ELSE 0]
      /\ Unscheduled /\ context' = ctx
  BY DEF RestoreFrontier, Settling
<1>2. trigger \in Triggers /\ trigger.stage \in {"work", "publish"}
      /\ trigger.attempt \in Members /\ trigger.ordinal \in [Members -> Nat]
  BY <1>1 DEF LifecycleIInv, LifecycleHolds, StagesHold, Triggers
<1>3. restored \in SUBSET Members
  BY <1>2 DEF LifecycleIInv, LifecycleTypeOK, Contexts
<1>4. Fresh
  <2> HIDE DEF trigger, restored, ctx
  <2>1. ordinal' \in [Members -> Nat]
    BY <1>1, <1>2
  <2>2. status' \in [Members -> {"none", "pending", "running", "complete",
                              "settled", "work_complete", "recorded"}]
    BY <1>1
  <2> QED
    BY <1>1, <1>3, <2>1, <2>2 DEF Fresh, Unscheduled
<1>5. /\ ctx \in Contexts /\ ctx.pool = Pool
      /\ ctx.targets = IF phase = 1 THEN {s \in Slots : delivery[s] = "confirmed"}
                       ELSE Slots
      /\ ctx.trigger \in Triggers
  BY <1>1, <1>2, ProvisionedContext
<1>6. ended = None
  BY <1>1, OutcomeOfPlan
<1> HIDE DEF trigger, restored, ctx
<1> QED
  BY <1>1, <1>2, <1>4, <1>5, <1>6, HandsOn

LEMMA PublishSettles ==
  ASSUME LifecycleIInv, SettlePublish
  PROVE  LifecycleIInv'
<1>1. /\ stage = "publish" /\ PlanDone
      /\ UNCHANGED <<ended, subject, usedKeys, box, recoveries>>
  BY DEF SettlePublish, Settling
<1>2. ASSUME NEW st, NEW end, EnterSolo(st, end, Inherited),
             \/ st = "publish" /\ end = None
             \/ st = "stop" /\ end = "failed"
             \/ st = "stop" /\ end = "shipped" /\ subject > 0
      PROVE  LifecycleIInv'
  <2>1. Fresh /\ context' = Inherited /\ stage' = st /\ ending' = end
    BY <1>2, EnteringIsFresh DEF EnterSolo
  <2>2. None # "shipped"
    BY LifecycleBoundsAssumption
  <2> QED
    BY <1>1, <1>2, <2>1, <2>2, InheritedKeeps DEF Reclaim, Endings
<1>3. PlanOutcome = "success" => subject > 0
  BY <1>1, OutcomeOfPlan DEF LifecycleIInv, LifecycleHolds, StagesHold
<1>4. CASE EnterSolo("stop", "failed", Inherited)
  BY <1>2, <1>4
<1>5. CASE EnterSolo("publish", None, Inherited)
  BY <1>2, <1>5
<1>6. CASE PlanOutcome = "success" /\ EnterSolo("stop", "shipped", Inherited)
  BY <1>2, <1>3, <1>6
<1> QED
  BY <1>4, <1>5, <1>6 DEF SettlePublish, Settling

LEMMA StopSettles ==
  ASSUME LifecycleIInv, SettleStop
  PROVE  LifecycleIInv'
<1>1. /\ stage = "stop" /\ EnterSolo("cleanup", ending, Inherited)
      /\ UNCHANGED <<ended, subject, usedKeys, box, recoveries>>
  BY DEF SettleStop, Settling
<1>2. Fresh /\ context' = Inherited /\ stage' = "cleanup" /\ ending' = ending
  BY <1>1, EnteringIsFresh DEF EnterSolo
<1>3. ending \in Endings /\ (ending = "shipped" => subject > 0)
  BY <1>1 DEF LifecycleIInv, LifecycleTypeOK, LifecycleHolds, StagesHold, Reclaim
<1> QED
  BY <1>1, <1>2, <1>3, InheritedKeeps DEF Reclaim

LEMMA CleanupSettles ==
  ASSUME LifecycleIInv, SettleCleanup
  PROVE  LifecycleIInv'
<1>1. /\ stage = "cleanup" /\ PlanDone /\ UNCHANGED <<subject, usedKeys, box, recoveries>>
  BY DEF SettleCleanup, Settling
<1>2. ended = None /\ ~Unanswered
  BY <1>1, OutcomeOfPlan
<1>3. ending \in Endings /\ (ending = "shipped" => subject > 0)
  BY <1>1 DEF LifecycleIInv, LifecycleTypeOK, LifecycleHolds, StagesHold, Reclaim
<1>4. PlanOutcome = "success" => \A p \in Pools, s \in Slots : box[p][s] = "absent"
  <2> SUFFICES ASSUME PlanOutcome = "success", NEW p \in Pools, NEW s \in Slots, box[p][s] # "absent"
               PROVE  FALSE
    OBVIOUS
  <2>1. ~Refused /\ phase = 1
    BY <1>1, OutcomeOfPlan, PhasesOfStages
  <2>2. p = context.pool /\ s \in context.targets
    BY <1>1 DEF LifecycleIInv, LifecycleHolds, Known
  <2>3. delivery[s] = "confirmed"
    BY <1>1, <1>2, <2>1, <2>2 DEF LifecycleIInv, LifecycleHolds, ReclaimHolds, Reclaim, Unanswered, Refused
  <2> QED
    BY <1>1, <2>1, <2>2, <2>3 DEF LifecycleIInv, LifecycleHolds, ReclaimHolds, Reclaim
<1>5. CASE PlanOutcome = "success" /\ End(ending)
  BY <1>1, <1>2, <1>3, <1>4, <1>5, EndingKeeps
<1>6. CASE PlanOutcome = "failure" /\ End("failed")
  <2>1. PICK s \in Slots : delivery[s] \in {"rejected", "retryable", "fatal"}
    BY <1>1, <1>6, OutcomeOfPlan DEF Refused
  <2>2. phase = 1
    BY <1>1, <2>1 DEF LifecycleIInv, LifecycleTypeOK, LifecycleHolds, ReclaimHolds, StagesHold, Reclaim
  <2>3. "cleanup" \in Rejects
    BY <1>1, <2>1, <2>2 DEF LifecycleIInv, LifecycleHolds, ReclaimHolds, Reclaim
  <2> QED
    BY <1>1, <1>2, <1>6, <2>3, EndingKeeps DEF Endings
<1>7. CASE /\ PlanOutcome = "success" /\ context.recovery > 0
           /\ EnterSolo("provision", None, [context EXCEPT !.pool = None, !.targets = {}])
           /\ UNCHANGED ended
  <2> DEFINE ctx == [context EXCEPT !.pool = None, !.targets = {}]
  <2>1. Fresh /\ context' = ctx /\ stage' = "provision" /\ ending' = None
    BY <1>7, EnteringIsFresh DEF EnterSolo
  <2>2. /\ ctx \in Contexts /\ ctx.pool = None /\ ctx.targets = {}
        /\ ctx.recovery = context.recovery /\ ctx.trigger = context.trigger
    BY DEF LifecycleIInv, LifecycleTypeOK, Contexts
  <2>3. context.trigger \in Triggers
    BY <1>7 DEF LifecycleIInv, LifecycleHolds, StagesHold
  <2> HIDE DEF ctx
  <2>4. LifecycleTypeOK'
    BY <1>1, <1>7, <2>1, <2>2, EnteringTypes DEF LifecycleIInv, LifecycleTypeOK, External
  <2>5. ProvisionHolds' /\ WorkHolds' /\ ReclaimHolds' /\ Known'
    BY <1>1, <1>4, <1>7, <2>1, <2>2
    DEF ProvisionHolds, WorkHolds, ReclaimHolds, Known, Fresh, Reclaim, Pools
  <2>6. StagesHold' /\ EndHolds'
    BY <1>1, <1>2, <1>7, <2>1, <2>2, <2>3, LifecycleBoundsAssumption
    DEF LifecycleIInv, LifecycleHolds, StagesHold, EndHolds, Fresh, Reclaim, Triggers, Members
  <2> QED
    BY <2>4, <2>5, <2>6 DEF LifecycleIInv, LifecycleHolds
<1> QED
  BY <1>5, <1>6, <1>7 DEF SettleCleanup, Settling

LEMMA AdvancingKeeps ==
  ASSUME LifecycleIInv, Advance
  PROVE  LifecycleIInv'
<1>0. Solo \in Members
  BY DEF Members
<1>1. CASE StartExternal
  BY <1>0, <1>1, StatusSteps DEF StartExternal, runVars, recordVars
<1>2. CASE SchedulePhase
  BY <1>2, ScheduleKeeps
<1>3. CASE ScheduleThrows
  <2>1. stage \in External
    BY <1>3 DEF ScheduleThrows
  <2>2. ended = None
    BY <2>1 DEF LifecycleIInv, LifecycleHolds, EndHolds, External
  <2>3. CASE Retry(Solo)
    BY <1>0, <2>3, StatusSteps DEF Retry, runVars, recordVars
  <2>4. CASE Terminate("needs_human")
    BY <2>2, <2>4, TerminatingKeeps
  <2> QED
    BY <1>3, <2>3, <2>4 DEF ScheduleThrows
<1>4. CASE PromoteSubject
  BY <1>4, PromotingKeeps
<1>5. CASE RecordResult
  BY <1>0, <1>5, StatusSteps DEF RecordResult, runVars, recordVars
<1>6. CASE RecoverPublication
  <2>1. stage = "publish" /\ Recover(Solo, {Solo})
    BY <1>6 DEF RecoverPublication, Fatal
  <2> QED
    BY <1>0, <2>1, RecoveringHolds
<1>7. CASE Settle
  BY <1>7, ProvisionSettles, RestoringKeeps, PublishSettles, StopSettles, CleanupSettles DEF Settle
<1> QED
  BY <1>1, <1>2, <1>3, <1>4, <1>5, <1>6, <1>7 DEF Advance

LEMMA LifecycleInvariance == LifecycleSpec => []LifecycleIInv
<1>1. ASSUME LifecycleIInv, [LifecycleNext]_lifecycleVars PROVE LifecycleIInv'
  <2>1. CASE UNCHANGED lifecycleVars
    <3>1. UNCHANGED <<stage, ending, ended, subject, members, status, tries, ordinal, phase, advanced,
                     delivery, context, usedKeys, recoveries, box>>
      BY <2>1 DEF lifecycleVars, runVars, attemptVars, recordVars
    <3>2. LifecycleTypeOK'
      BY <1>1, <3>1 DEF LifecycleIInv, LifecycleTypeOK
    <3> QED
      BY <1>1, <3>1, <3>2, StatusOnly DEF LifecycleIInv
  <2>2. CASE StopRequest
    BY <1>1, <2>2, TerminatingKeeps DEF StopRequest
  <2> QED
    BY <1>1, <2>1, <2>2, AdvancingKeeps, WorkKeeps, LosingKeeps, ConfirmingKeeps, LosingSandboxKeeps
    DEF LifecycleNext
<1> QED
  BY <1>1, LifecycleInitially, PTL DEF LifecycleSpec

-----------------------------------------------------------------------------
\* The results.

\* The state of a run and of its sandboxes keeps its types, and a recovery always
\* knows the attempt that it is for.
THEOREM LifecycleTypeCorrect == LifecycleSpec => []LifecycleTypeOK
BY LifecycleInvariance, PTL DEF LifecycleIInv

LEMMA ExistingIs ==
  /\ Existing = {} <=> \A p \in Pools, s \in Slots : box[p][s] = "absent"
  /\ \A e \in Existing : e[1] \in Pools /\ e[2] \in Slots /\ box[e[1]][e[2]] # "absent"
<1>1. \A e \in Existing : e[1] \in Pools /\ e[2] \in Slots /\ box[e[1]][e[2]] # "absent"
  BY DEF Existing
<1>2. ASSUME NEW p \in Pools, NEW s \in Slots, box[p][s] # "absent" PROVE <<p, s>> \in Existing
  BY <1>2 DEF Existing
<1> QED
  BY <1>1, <1>2

LEMMA SandboxesAreKnown ==
  LifecycleIInv => /\ NothingForgotten /\ OneGeneration
                   /\ WorkOnStartedPool /\ EndsWithItsOutcome
<1> SUFFICES ASSUME LifecycleIInv
             PROVE  NothingForgotten /\ OneGeneration /\ WorkOnStartedPool /\ EndsWithItsOutcome
  OBVIOUS
<1>1. NothingForgotten
  BY ExistingIs DEF NothingForgotten, LifecycleIInv, LifecycleHolds, Known
<1>2. OneGeneration
  BY <1>1 DEF NothingForgotten, OneGeneration, LifecycleIInv, LifecycleHolds, ProvisionHolds
<1>3. WorkOnStartedPool
  BY DEF WorkOnStartedPool, LifecycleIInv, LifecycleHolds, WorkHolds
<1>4. EndsWithItsOutcome
  BY DEF EndsWithItsOutcome, LifecycleIInv, LifecycleHolds, EndHolds, StagesHold
<1> QED
  BY <1>1, <1>2, <1>3, <1>4

\* For any pool, attempts, limits, faults and rejections: an outcome that was decided
\* when the pool was stopped is the one the run ends in; only the reclamation fails or
\* needs a human, and only a recovery provisions again.
THEOREM OutcomesStand == LifecycleSpec => DecidedOutcomeStands
<1> DEFINE Stands == \/ ending' = ending
                     \/ ending' = None /\ ended' \in {ending, "failed"}
                     \/ ending' = "needs_human"
                     \/ ending' = None /\ stage' = "provision" /\ context.recovery > 0
<1>1. ASSUME LifecycleIInv, LifecycleNext, ending # None PROVE Stands
  <2>1. stage \in Reclaim /\ stage # "work" /\ stage # "publish" /\ stage # "provision"
    BY <1>1 DEF LifecycleIInv, LifecycleHolds, StagesHold, Reclaim
  <2>2. ASSUME Terminate("needs_human") PROVE Stands
    BY <2>1, <2>2 DEF Terminate, CanTerminate, PreProvision, EnterSolo
  <2>3. CASE StartExternal \/ SchedulePhase \/ PromoteSubject \/ RecordResult
    BY <2>3 DEF StartExternal, SchedulePhase, PromoteSubject, RecordResult, runVars
  <2>4. CASE ScheduleThrows
    BY <2>2, <2>4 DEF ScheduleThrows, Retry, runVars
  <2>5. CASE RecoverPublication
    BY <2>1, <2>5 DEF RecoverPublication, Fatal
  <2>6. CASE Settle
    <3>1. CASE SettleStop
      BY <3>1 DEF SettleStop, EnterSolo
    <3>2. CASE SettleCleanup
      <4>1. CASE End(ending) \/ End("failed")
        BY <4>1 DEF End
      <4>2. CASE /\ context.recovery > 0
                 /\ EnterSolo("provision", None, [context EXCEPT !.pool = None, !.targets = {}])
        BY <4>2 DEF EnterSolo
      <4> QED
        BY <3>2, <4>1, <4>2 DEF SettleCleanup
    <3> QED
      BY <2>1, <2>6, <3>1, <3>2 DEF Settle, SettleProvision, RestoreFrontier, SettlePublish, Settling
  <2>7. ASSUME NEW u \in Units, WorkStep(u) \/ FatalWork(u) PROVE Stands
    BY <2>1, <2>7 DEF WorkStep, StartWork, FinishWork, SettleSibling, SettleBarrier, FatalWork
  <2>8. ASSUME NEW m \in Members, LoseLease(m) PROVE Stands
    BY <2>2, <2>8 DEF LoseLease, Retry, runVars
  <2>9. ASSUME NEW s \in Slots,
               Confirm(s) \/ RejectEffect(s) \/ FailIntegrate(s) \/ LoseSandbox(s)
        PROVE  Stands
    BY <2>9 DEF Confirm, ConfirmCreate, ConfirmStart, ConfirmStop, ConfirmCleanup,
       ConfirmIntegrate, FatalIntegrate, ConfirmPublication, RejectEffect, FailIntegrate, LoseSandbox,
       Answer, runVars
  <2>10. CASE StopRequest
    BY <2>1, <2>10 DEF StopRequest
  <2> QED
    BY <1>1, <2>3, <2>4, <2>5, <2>6, <2>7, <2>8, <2>9, <2>10 DEF LifecycleNext, Advance
<1>2. LifecycleIInv /\ [LifecycleNext]_lifecycleVars =>
        [ending # None => Stands]_lifecycleVars
  BY <1>1
<1> QED
  BY <1>2, LifecycleInvariance, PTL DEF LifecycleSpec, DecidedOutcomeStands

\* For any pool, attempts, limits and faults, and whatever is rejected but a cleanup:
\* every sandbox that exists is known to the context that will clean it up, all are of
\* one pool, agents work on a pool that was started whole, none is left when the run
\* ends, and the run ends as decided.
THEOREM LifecycleIsSafe == "cleanup" \notin Rejects => (LifecycleSpec => LifecycleSafe)
<1> SUFFICES ASSUME "cleanup" \notin Rejects PROVE LifecycleSpec => LifecycleSafe
  OBVIOUS
<1>1. LifecycleIInv => /\ NothingForgotten /\ OneGeneration /\ NoLeakAtEnd
                       /\ WorkOnStartedPool /\ EndsWithItsOutcome
  BY SandboxesAreKnown, ExistingIs DEF NoLeakAtEnd, LifecycleIInv, LifecycleHolds, EndHolds
<1> QED
  BY <1>1, LifecycleInvariance, OutcomesStand, PTL DEF LifecycleSafe

-----------------------------------------------------------------------------
(***************************************************************************)
(* For any constants: the composition that the runs explore, a behaviour of*)
(* one module beside the others at rest, is safe because each step of it is*)
(* a step of one module and a stutter of the others.                       *)
(***************************************************************************)

\* A step of the composition is a step of the module it follows, and a stutter of
\* every other one.
LEMMA StepIsAStepOfEach ==
  ASSUME [PipelinesNext]_pipelinesVars
  PROVE  /\ [LifecycleNext]_lifecycleVars /\ [SchedulingNext]_schedulingVars
         /\ [CycleNext]_cycleVars /\ [WaitNext]_waitVars
         /\ [PublicationNext]_githubVars /\ [StartNext]_startVars
         /\ [PromotionNext]_promotionVars
BY DEF PipelinesNext, pipelinesVars, LifecyclePart, SchedulingPart, CyclePart, WaitPart,
       PublicationPart, StartPart, PromotionPart

\* What the composition does is what each module does, without its fairness.
LEMMA CompositionIsEach ==
  PipelinesSpec =>
    /\ LifecycleSpec /\ SchedulingSpec /\ CycleSpec /\ WaitSpec /\ PublicationSpec
    /\ StartInit /\ [][StartNext]_startVars
    /\ PromotionInit /\ [][PromotionNext]_promotionVars
<1>1. PipelinesInit =>
        /\ LifecycleInit /\ SchedulingInit /\ CycleInit /\ WaitInit /\ PublicationInit
        /\ StartInit /\ PromotionInit
  BY DEF PipelinesInit
<1>2. [PipelinesNext]_pipelinesVars =>
        /\ [LifecycleNext]_lifecycleVars /\ [SchedulingNext]_schedulingVars
        /\ [CycleNext]_cycleVars /\ [WaitNext]_waitVars
        /\ [PublicationNext]_githubVars /\ [StartNext]_startVars
        /\ [PromotionNext]_promotionVars
  BY StepIsAStepOfEach
<1> QED
  BY <1>1, <1>2, PTL
  DEF PipelinesSpec, LifecycleSpec, SchedulingSpec, CycleSpec, WaitSpec, PublicationSpec

\* The session start and the promotion rest on no fairness.
LEMMA SafeWithoutFairness ==
  /\ StartInit /\ [][StartNext]_startVars => [](StartTypeOK /\ StartSafe)
  /\ PromotionInit /\ [][PromotionNext]_promotionVars => [](PromotionTypeOK /\ PromotionSafe)
<1>1. StartIInv => StartTypeOK /\ StartSafe
  BY StartSafeFollows DEF StartIInv
<1>2. PromotionIInv => PromotionTypeOK /\ PromotionSafe
  BY PromotionSafeFollows DEF PromotionIInv
<1> QED
  BY <1>1, <1>2, StartInitially, StartInductive, PromotionInitially, PromotionInductive, PTL

\* In the composition that the runs explore, every module keeps its types.
THEOREM PipelinesTypeCorrect == PipelinesSpec => []PipelinesTypeOK
<1>1. /\ LifecycleTypeOK /\ SchedulingTypeOK /\ CycleTypeOK /\ WaitTypeOK
      /\ PublicationTypeOK /\ StartTypeOK /\ PromotionTypeOK
      => PipelinesTypeOK
  BY DEF PipelinesTypeOK
<1> QED
  BY <1>1, CompositionIsEach, SafeWithoutFairness, LifecycleTypeCorrect,
     SchedulingTypeCorrect, CycleTypeCorrect, WaitTypeCorrect, PublicationTypeCorrect, PTL
=============================================================================
