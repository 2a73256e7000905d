-------------------------- MODULE AdmissionPromotion --------------------------
(***************************************************************************)
(* The run of core/admission.  A planner proposes a route, a reviewer      *)
(* judges the proposal, and an approval promotes it: the pipeline that was *)
(* chosen is compiled and attached to the same work item as a second run.  *)
(* Either role may be asked again, a bounded number of times.              *)
(*                                                                         *)
(* An attempt is given the result that led to it and no older one; so the  *)
(* planner copies its plan into the promotion by hand.  Attaching is an    *)
(* effect that is sent once; whether it was done is looked up afterwards.  *)
(* A stop in the thread of the issue is for "its" run, of which there may  *)
(* be two by then.                                                         *)
(***************************************************************************)
EXTENDS Naturals, FiniteSets

CONSTANTS ReentryLimit, \* max_reentries of an edge
          MaxOutages,   \* bound: deaths of the process and failed compilations
          Nil

ASSUME PromotionAssumption == ReentryLimit \in Nat /\ MaxOutages \in Nat

VARIABLES role,      \* the stage of the admission run, or "over"
          answer,    \* the recorded result of its attempt, or Nil
          given,     \* the results in the attempt's context
          plans,     \* results of the planner so far
          taken,     \* how often an edge was taken again
          intent,    \* what the sealed effect is to attach, or Nil
          sending,   \* the delivery of the effect
          dispatch,  \* where the worker is with it
          target,    \* the promoted run, or Nil
          finished,  \* the outcome of the admission run, or Nil
          stopAsked, \* a stop in the thread of the issue
          outages

promotionVars == <<role, answer, given, plans, taken, intent, sending, dispatch,
                   target, finished, stopAsked, outages>>

Roles == {"plan", "review"}

\* What the evaluators make of a result: a payload that does not match its
\* outcome is to be repaired, whatever it says.
Verdicts(s) == {"needs_human", "repair"} \cup
    IF s = "plan" THEN {"simple", "structured"} ELSE {"approved", "rejected"}

Edges ==
  {<<"plan", "repair">>, <<"review", "repair">>, <<"review", "rejected">>}

\* `nr` counts the plans: a review is of the plan it was given, 0 if of none.
Results ==
  [by : Roles, nr : Nat, says : Verdicts("plan") \cup Verdicts("review")]

AdmissionEndings == {"completed", "failed", "needs_human", "canceled"}

ASSUME NilAssumption ==
  Nil \notin Results \cup AdmissionEndings \cup [plan : Results, stopped : BOOLEAN]

PromotionTypeOK ==
  /\ role \in Roles \cup {"promote", "over"}
  /\ answer \in Results \cup {Nil}
  /\ given \subseteq Results /\ plans \in Nat
  /\ taken \in [Edges -> 0..ReentryLimit]
  /\ intent \in Results \cup {Nil}
  /\ sending \in {"none", "pending", "sent", "held", "confirmed"}
  /\ dispatch \in {"idle", "compile", "attach"}
  /\ target \in [plan : Results, stopped : BOOLEAN] \cup {Nil}
  /\ finished \in AdmissionEndings \cup {Nil}
  /\ stopAsked \in {"none", "asked", "done"}
  /\ outages \in 0..MaxOutages

PromotionInit ==
  /\ role = "plan" /\ answer = Nil /\ given = {} /\ plans = 0
  /\ taken = [e \in Edges |-> 0]
  /\ intent = Nil /\ sending = "none" /\ dispatch = "idle"
  /\ target = Nil /\ finished = Nil /\ stopAsked = "none" /\ outages = 0

-----------------------------------------------------------------------------
(* The planner and the reviewer                                            *)

\* A plan that can be executed.
Executable(r) == r.by = "plan" /\ r.says \in {"simple", "structured"}

PlanGiven == {r \in given : Executable(r)}

Propose(says) ==
  /\ role \in Roles /\ answer = Nil /\ says \in Verdicts(role)
  /\ plans' = IF role = "plan" THEN plans + 1 ELSE plans
  /\ answer' = [by |-> role, says |-> says,
                nr |-> IF role = "plan" THEN plans + 1
                       ELSE IF PlanGiven = {} THEN 0
                       ELSE (CHOOSE r \in PlanGiven : TRUE).nr]
  /\ UNCHANGED <<role, given, taken, intent, sending, dispatch, target,
                finished, stopAsked, outages>>

EndAdmission(outcome) ==
  /\ role' = "over" /\ finished' = outcome /\ answer' = Nil
  /\ UNCHANGED <<given, plans>>

\* The attempt is retried in vain, and given up.
GiveUpRole ==
  /\ role \in Roles /\ answer = Nil
  /\ EndAdmission("needs_human")
  /\ UNCHANGED <<taken, intent, sending, dispatch, target, stopAsked,
                outages>>

\* Mutant of Successor: what was decided before stays in view
Inherits(s, records) ==
  /\ role' = s /\ given' = given \cup records /\ answer' = Nil
  /\ UNCHANGED <<plans, finished>>

\* The attempt of the next stage: it is given these results alone.
Successor(s, records) ==
  /\ role' = s /\ given' = records /\ answer' = Nil
  /\ UNCHANGED <<plans, finished>>

\* The edge may be taken once more.
TakeAgain(e) == taken[e] < ReentryLimit /\ taken' = [taken EXCEPT ![e] = @ + 1]

Back(e, s) ==
  \/ TakeAgain(e) /\ Successor(s, {answer})
  \/ taken[e] = ReentryLimit /\ EndAdmission("needs_human") /\ UNCHANGED taken

\* Mutant of PlanUnderReview: the newest plan, whatever the review was given
NewestPlan ==
  {r \in [by : {"plan"}, nr : {plans}, says : {"simple"}] : plans > 0}

\* The plan that an approval promotes: the one in the context of the review.
PlanUnderReview == PlanGiven

SettleRole ==
  /\ role \in Roles /\ answer # Nil
  /\ \/ /\ answer.says = "needs_human" /\ EndAdmission("needs_human")
        /\ UNCHANGED taken
     \/ /\ answer.says = "repair" /\ Back(<<role, "repair">>, role)
     \/ /\ answer.says = "rejected" /\ Back(<<"review", "rejected">>, "plan")
     \/ /\ Executable(answer) /\ Successor("review", {answer})
        /\ UNCHANGED taken
     \/ /\ answer.says = "approved" /\ Cardinality(PlanUnderReview) = 1
        /\ Successor("promote", PlanUnderReview \cup {answer})
        /\ UNCHANGED taken
  /\ UNCHANGED <<intent, sending, dispatch, target, stopAsked, outages>>

-----------------------------------------------------------------------------
(* The promotion                                                           *)

Seal ==
  /\ role = "promote" /\ sending = "none"
  /\ \E p \in PlanGiven : PlanGiven = {p} /\ intent' = p
  /\ sending' = "pending"
  /\ UNCHANGED <<role, answer, given, plans, taken, dispatch, target,
                finished, stopAsked, outages>>

\* The look-up found nothing; the request is recorded as sent, once.
Send ==
  /\ sending = "pending" /\ dispatch = "idle" /\ target = Nil
  /\ sending' = "sent" /\ dispatch' = "compile"
  /\ UNCHANGED <<role, answer, given, plans, taken, intent, target, finished,
                stopAsked, outages>>

\* Compiled for the pipeline that was chosen; its bytes are written first.
CompileChosen ==
  /\ dispatch = "compile" /\ dispatch' = "attach"
  /\ UNCHANGED <<role, answer, given, plans, taken, intent, sending, target,
                finished, stopAsked, outages>>

\* One transaction: the run, with the promotion in its first context.
Attach ==
  /\ dispatch = "attach" /\ dispatch' = "idle"
  /\ target = Nil /\ target' = [plan |-> intent, stopped |-> FALSE]
  /\ UNCHANGED <<role, answer, given, plans, taken, intent, sending, finished,
                stopAsked, outages>>

\* A call that fails on the way, or the process with it.
PromotionFails ==
  /\ dispatch # "idle" /\ dispatch' = "idle"
  /\ outages < MaxOutages /\ outages' = outages + 1
  /\ UNCHANGED <<role, answer, given, plans, taken, intent, sending, target,
                finished, stopAsked>>

\* Mutant of LookedUp: what was sent is taken for done
SentIsDone == "confirmed"

\* The run has an identity that was derived beforehand.
LookedUp == IF target # Nil THEN "confirmed" ELSE "held"

Observe ==
  /\ sending = "sent" /\ dispatch = "idle"
  /\ sending' = LookedUp
  /\ UNCHANGED <<role, answer, given, plans, taken, intent, dispatch, target,
                finished, stopAsked, outages>>

Promoted ==
  /\ role = "promote" /\ sending = "confirmed"
  /\ EndAdmission("completed")
  /\ UNCHANGED <<taken, intent, sending, dispatch, target, stopAsked,
                outages>>

-----------------------------------------------------------------------------
(* A stop from the thread                                                  *)

AskStop ==
  /\ stopAsked = "none" /\ stopAsked' = "asked"
  /\ UNCHANGED <<role, answer, given, plans, taken, intent, sending, dispatch,
                target, finished, outages>>

\* Mutant of Meant: the first run of the item
FirstRun == "admission"

\* Of two runs the one that executes.
Meant == IF target = Nil THEN "admission" ELSE "target"

\* A run that has ended is left alone; one whose effect is undecided is not
\* stopped, and the stop is tried again.
HandleHalt ==
  /\ stopAsked = "asked" /\ stopAsked' = "done" /\ dispatch = "idle"
  /\ CASE Meant = "target" ->
            /\ target' = [target EXCEPT !.stopped = TRUE]
            /\ UNCHANGED <<role, answer, given, plans, finished>>
       [] Meant = "admission" /\ role = "over" ->
            UNCHANGED <<role, answer, given, plans, finished, target>>
       [] Meant = "admission" /\ role # "over" ->
            /\ sending = "none"
            /\ EndAdmission("canceled") /\ UNCHANGED target
  /\ UNCHANGED <<taken, intent, sending, dispatch, outages>>

-----------------------------------------------------------------------------
Admission ==
  \/ \E says \in Verdicts("plan") \cup Verdicts("review") : Propose(says)
  \/ GiveUpRole \/ SettleRole \/ Seal \/ Send \/ CompileChosen \/ Attach
  \/ Observe \/ Promoted

PromotionNext == Admission \/ PromotionFails \/ AskStop \/ HandleHalt

PromotionFairness == WF_promotionVars(Admission)

PromotionSpec ==
  PromotionInit /\ [][PromotionNext]_promotionVars /\ PromotionFairness

-----------------------------------------------------------------------------
(***************************************************************************)
(* The run that is attached executes the newest plan, and it is the plan   *)
(* that its approval was given: a plan that was replaced after a rejection *)
(* is not promoted, nor one that the reviewer no longer saw.               *)
(***************************************************************************)
PromotedWasReviewed ==
  target # Nil =>
    /\ target.plan.nr = plans
    /\ \E r \in given : r.says = "approved" /\ r.nr = target.plan.nr

(***************************************************************************)
(* An admission that completed has promoted: the work goes on in a run.    *)
(***************************************************************************)
CompletedIsPromoted == finished = "completed" => target # Nil

(***************************************************************************)
(* A stop that was handled has reached the work: no run of the item        *)
(* executes then or later, however the stop met the promotion.             *)
(***************************************************************************)
StopReachesTheWork ==
  stopAsked = "done" => (target = Nil \/ target.stopped) /\ dispatch = "idle"

\* The two ways in which an admission stays where it is.
Undecided == sending = "held"
NothingToPromote ==
  role = "review" /\ answer # Nil /\ answer.says = "approved" /\ PlanGiven = {}

(***************************************************************************)
(* What the admission comes to, however often the roles disagree: it is    *)
(* over, unless its promotion is held or an approval comes from a review   *)
(* that was repaired and is given no plan.                                 *)
(***************************************************************************)
AdmissionIsOver == role = "over" \/ Undecided \/ NothingToPromote

\* What is promoted is the plan that was reviewed; a run that completed has
\* promoted; and a stop that was carried out has reached the work.
PromotionSafe ==
    /\ PromotedWasReviewed
    /\ CompletedIsPromoted
    /\ StopReachesTheWork
=============================================================================
