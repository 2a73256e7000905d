----------------------------- MODULE SessionStart -----------------------------
(***************************************************************************)
(* The acknowledgement of a Linear session, which comes before its         *)
(* admission.  The event is durable first.  Its webhook then wakes a task  *)
(* in memory, so that Linear hears of it in time; the worker, which handles *)
(* one event after another, waits for the same task or starts one.  The    *)
(* tasks share a few slots: a wake that finds none is dropped, the worker  *)
(* queues and is handed the next slot that is released.                    *)
(*                                                                         *)
(* A task looks for the activity whose identity is derived from the event, *)
(* creates it, and looks again when the creation was cut off: what was cut *)
(* off may still reach Linear, at any later time.                          *)
(***************************************************************************)
EXTENDS Naturals, Sequences, FiniteSets

CONSTANTS Notices,     \* events "created" of agent sessions
          StartWidth,  \* the slots
          MaxRefusals, \* bound: calls that fail or are cut off
          MaxRestarts, \* bound: deaths of the process
          NoNotice

ASSUME StartAssumption ==
  /\ NoNotice \notin Notices /\ StartWidth \in Nat \ {0}
  /\ MaxRefusals \in Nat /\ MaxRestarts \in Nat

VARIABLES notice,    \* the durable event
          task,      \* the task that is in flight for it
          slots,     \* how many tasks hold a slot
          line,      \* the tasks that wait for one
          handled,   \* the event the worker is at
          answered,  \* its session is known to be started
          thoughts,  \* the activities Linear shows for an event
          adrift,      \* creations that were cut off and may still arrive
          refusals, restarts

startVars == <<notice, task, slots, line, handled, answered, thoughts, adrift,
               refusals, restarts>>

Busy == {"lookup", "create", "final"}

StartTypeOK ==
  /\ notice \in [Notices -> {"none", "pending", "admitted"}]
  /\ task \in [Notices -> {"none", "queued"} \cup Busy]
  /\ slots \in 0..StartWidth
  /\ line \in Seq(Notices)
  /\ handled \in Notices \cup {NoNotice} /\ answered \in BOOLEAN
  /\ thoughts \in [Notices -> Nat] /\ adrift \subseteq Notices
  /\ refusals \in 0..MaxRefusals /\ restarts \in 0..MaxRestarts

StartInit ==
  /\ notice = [e \in Notices |-> "none"]
  /\ task = [e \in Notices |-> "none"] /\ slots = 0 /\ line = <<>>
  /\ handled = NoNotice /\ answered = FALSE
  /\ thoughts = [e \in Notices |-> 0] /\ adrift = {}
  /\ refusals = 0 /\ restarts = 0

-----------------------------------------------------------------------------
(* The two ways in                                                         *)

TakeSlot(e) == slots' = slots + 1 /\ task' = [task EXCEPT ![e] = "lookup"]

\* A webhook, for the first time or again: the event is stored, and a task of
\* it is started if there is none yet and a slot for it.
Webhook(e) ==
  /\ notice[e] # "admitted"
  /\ notice' = [notice EXCEPT ![e] = "pending"]
  /\ IF task[e] = "none" /\ slots < StartWidth
       THEN TakeSlot(e)
       ELSE UNCHANGED <<task, slots>>
  /\ UNCHANGED <<line, handled, answered, thoughts, adrift, refusals, restarts>>

\* A task that is in flight for the event is shared.
MayJoin(e) == task[e] # "none"

StartHandling(e) ==
  /\ handled = NoNotice /\ notice[e] = "pending"
  /\ handled' = e /\ answered' = FALSE
  /\ IF MayJoin(e) THEN UNCHANGED <<task, slots, line>>
     ELSE IF slots < StartWidth THEN TakeSlot(e) /\ UNCHANGED line
     ELSE /\ task' = [task EXCEPT ![e] = "queued"]
          /\ line' = Append(line, e)
          /\ UNCHANGED slots
  /\ UNCHANGED <<notice, thoughts, adrift, refusals, restarts>>

\* With its session started an event goes on to its admission; a failure on
\* the way puts it back.
AdmitNotice ==
  /\ handled # NoNotice /\ answered
  /\ notice' = [notice EXCEPT ![handled] = "admitted"]
  /\ handled' = NoNotice /\ answered' = FALSE
  /\ UNCHANGED <<task, slots, line, thoughts, adrift, refusals, restarts>>

Refuse == refusals < MaxRefusals /\ refusals' = refusals + 1

AdmissionFails ==
  /\ handled # NoNotice /\ answered /\ Refuse
  /\ handled' = NoNotice /\ answered' = FALSE
  /\ UNCHANGED <<notice, task, slots, line, thoughts, adrift, restarts>>

-----------------------------------------------------------------------------
(* A task                                                                  *)

\* Mutant of Release: the slot is given back beside the next in line
GivesBack(e) ==
  /\ slots' = slots - 1
  /\ IF line = <<>> THEN task' = [task EXCEPT ![e] = "none"] /\ UNCHANGED line
     ELSE /\ task' = [task EXCEPT ![e] = "none", ![Head(line)] = "lookup"]
          /\ line' = Tail(line)

\* Mutant of Release: nobody is called from the line
NextIsForgotten(e) ==
  slots' = slots - 1 /\ task' = [task EXCEPT ![e] = "none"] /\ UNCHANGED line

\* A slot passes to the next in line, if there is one.
Release(e) ==
  IF line = <<>>
    THEN /\ slots' = slots - 1
         /\ task' = [task EXCEPT ![e] = "none"]
         /\ UNCHANGED line
    ELSE /\ task' = [task EXCEPT ![e] = "none", ![Head(line)] = "lookup"]
         /\ line' = Tail(line)
         /\ UNCHANGED slots

\* The worker that awaits a task goes on, or has the event retried.  A task that
\* was started after its answer is none of the worker's.
Conclude(e, started) ==
  /\ Release(e)
  /\ IF handled = e /\ ~answered
       THEN /\ answered' = started
            /\ handled' = IF started THEN e ELSE NoNotice
       ELSE UNCHANGED <<handled, answered>>
  /\ UNCHANGED <<notice, restarts>>

\* Mutant of Recorded: the identity differs from one creation to the next
AlwaysNew(e) == [thoughts EXCEPT ![e] = @ + 1]

\* The identity of the activity is the event's: Linear takes it once.
Recorded(e) == IF thoughts[e] = 0 THEN [thoughts EXCEPT ![e] = 1] ELSE thoughts

LookUp(e) ==
  /\ task[e] = "lookup"
  /\ \/ /\ thoughts[e] > 0 /\ Conclude(e, TRUE)
     \/ /\ thoughts[e] = 0
        /\ task' = [task EXCEPT ![e] = "create"]
        /\ UNCHANGED <<notice, slots, line, handled, answered, restarts>>
  /\ UNCHANGED <<thoughts, adrift, refusals>>

LookUpFails(e) ==
  /\ task[e] = "lookup" /\ Refuse
  /\ Conclude(e, FALSE)
  /\ UNCHANGED <<thoughts, adrift>>

\* Refused when the activity is there by then.
CreateThought(e) ==
  /\ task[e] = "create"
  /\ thoughts' = Recorded(e)
  /\ \/ thoughts[e] = 0 /\ Conclude(e, TRUE)
     \/ /\ thoughts[e] > 0
        /\ task' = [task EXCEPT ![e] = "final"]
        /\ UNCHANGED <<notice, slots, line, handled, answered, restarts>>
  /\ UNCHANGED <<adrift, refusals>>

CreateCutOff(e) ==
  /\ task[e] = "create" /\ Refuse
  /\ adrift' = adrift \cup {e}
  /\ task' = [task EXCEPT ![e] = "final"]
  /\ UNCHANGED <<notice, slots, line, handled, answered, thoughts, restarts>>

\* Mutant of FinalLook: the creation was sent, and that is taken for done
TrustsTheRequest(e) == TRUE

FinalLook(e) == thoughts[e] > 0

LookAgain(e) ==
  /\ task[e] = "final"
  /\ Conclude(e, FinalLook(e))
  /\ UNCHANGED <<thoughts, adrift, refusals>>

FinalLookFails(e) ==
  /\ task[e] = "final" /\ Refuse
  /\ Conclude(e, FALSE)
  /\ UNCHANGED <<thoughts, adrift>>

-----------------------------------------------------------------------------
(* Linear and the process                                                  *)

ArriveLate(e) ==
  /\ e \in adrift
  /\ adrift' = adrift \ {e}
  /\ thoughts' = Recorded(e)
  /\ UNCHANGED <<notice, task, slots, line, handled, answered, refusals,
                 restarts>>

Perish ==
  /\ restarts < MaxRestarts /\ restarts' = restarts + 1
  /\ adrift' = adrift \cup {e \in Notices : task[e] = "create"}
  /\ task' = [e \in Notices |-> "none"] /\ slots' = 0 /\ line' = <<>>
  /\ handled' = NoNotice /\ answered' = FALSE
  /\ UNCHANGED <<notice, thoughts, refusals>>

-----------------------------------------------------------------------------
TaskStep(e) == LookUp(e) \/ CreateThought(e) \/ LookAgain(e)

StartNext ==
  \/ \E e \in Notices :
       \/ Webhook(e) \/ StartHandling(e) \/ TaskStep(e)
       \/ LookUpFails(e) \/ CreateCutOff(e) \/ FinalLookFails(e)
       \/ ArriveLate(e)
  \/ AdmitNotice \/ AdmissionFails \/ Perish

\* A deadline ends every call of a task; the worker comes back to every event.
StartFairness ==
  /\ \A e \in Notices :
        WF_startVars(TaskStep(e)) /\ WF_startVars(StartHandling(e))
  /\ WF_startVars(AdmitNotice)

StartSpec == StartInit /\ [][StartNext]_startVars /\ StartFairness

-----------------------------------------------------------------------------
(***************************************************************************)
(* Linear shows one activity for an event, whatever was cut off, came late *)
(* or was tried again.                                                     *)
(***************************************************************************)
OneThought == \A e \in Notices : thoughts[e] <= 1

(***************************************************************************)
(* No event is admitted before Linear shows that its session was started.  *)
(***************************************************************************)
AcknowledgedFirst ==
  \A e \in Notices : notice[e] = "admitted" => thoughts[e] > 0

(***************************************************************************)
(* The slots are those of the tasks at work, never more than there are,    *)
(* and nobody waits while one is free: a release that races a wake neither *)
(* loses a slot nor lends it twice.                                        *)
(***************************************************************************)
SlotsAreAccounted ==
  /\ slots = Cardinality({e \in Notices : task[e] \in Busy})
  /\ line # <<>> => slots = StartWidth

(***************************************************************************)
(* What the events come to that were accepted: they are admitted, although *)
(* every wake may have been dropped and every task have failed before.     *)
(***************************************************************************)
NoticesAreAdmitted == \A e \in Notices : notice[e] # "pending"

\* A session is started once: one thought, written before the notice is admitted,
\* by one of a bounded number of tasks.
StartSafe ==
    /\ OneThought
    /\ AcknowledgedFirst
    /\ SlotsAreAccounted
=============================================================================
