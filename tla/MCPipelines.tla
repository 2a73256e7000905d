----------------------------- MODULE MCPipelines -----------------------------
(* Instances for TLC of the modules about how a run comes to be and gets on:    *)
(* the session and the admission that start it, how it is scheduled and driven *)
(* through its stages, what is awaited and published on the way.  A behaviour  *)
(* follows one of the modules, `part`, while the variables of the others stand *)
(* still.                                                                      *)
EXTENDS PipelineLifecycle, AttemptScheduling, WorkerCycle, ProviderWait,
        GithubPublication, SessionStart, AdmissionPromotion, TLC

VARIABLE part

pipelinesVars == <<lifecycleVars, schedulingVars, cycleVars, waitVars,
                   githubVars, startVars, promotionVars, part>>

PipelinesInit ==
    /\ part \in {"lifecycle", "scheduling", "cycle", "wait", "publication",
                "start", "promotion"}
    /\ LifecycleInit
    /\ SchedulingInit
    /\ CycleInit
    /\ WaitInit
    /\ PublicationInit
    /\ StartInit
    /\ PromotionInit

LifecyclePart ==
    /\ part = "lifecycle" /\ LifecycleNext
    /\ UNCHANGED <<schedulingVars, cycleVars, waitVars, githubVars,
                    startVars, promotionVars, part>>
SchedulingPart ==
    /\ part = "scheduling" /\ SchedulingNext
    /\ UNCHANGED <<lifecycleVars, cycleVars, waitVars, githubVars,
                    startVars, promotionVars, part>>
CyclePart ==
    /\ part = "cycle" /\ CycleNext
    /\ UNCHANGED <<lifecycleVars, schedulingVars, waitVars, githubVars,
                    startVars, promotionVars, part>>
WaitPart ==
    /\ part = "wait" /\ WaitNext
    /\ UNCHANGED <<lifecycleVars, schedulingVars, cycleVars, githubVars,
                    startVars, promotionVars, part>>
PublicationPart ==
    /\ part = "publication" /\ PublicationNext
    /\ UNCHANGED <<lifecycleVars, schedulingVars, cycleVars, waitVars,
                    startVars, promotionVars, part>>
StartPart ==
    /\ part = "start" /\ StartNext
    /\ UNCHANGED <<lifecycleVars, schedulingVars, cycleVars, waitVars,
                    githubVars, promotionVars, part>>
PromotionPart ==
    /\ part = "promotion" /\ PromotionNext
    /\ UNCHANGED <<lifecycleVars, schedulingVars, cycleVars, waitVars,
                    githubVars, startVars, part>>

PipelinesNext ==
    \/ LifecyclePart \/ SchedulingPart \/ CyclePart \/ WaitPart
    \/ PublicationPart \/ StartPart \/ PromotionPart

\* The fairness of every module, for the behaviours that follow it.
PipelinesFairness ==
    /\ WF_lifecycleVars(part = "lifecycle" /\ Advance)
    /\ \A u \in Units : WF_lifecycleVars(part = "lifecycle" /\ WorkStep(u))
    /\ \A s \in Slots : WF_lifecycleVars(part = "lifecycle" /\ Confirm(s))
    /\ WF_schedulingVars(part = "scheduling" /\ WorkerStep)
    /\ \A r \in Runs : WF_schedulingVars(part = "scheduling" /\ RunStep(r))
    /\ WF_cycleVars(part = "cycle" /\ Cycle)
    /\ WF_waitVars(part = "wait" /\ settled = "open" /\ Tick)
    /\ WF_waitVars(part = "wait" /\ Reconcile)
    /\ WF_githubVars(part = "publication" /\ Deliver)
    /\ \A e \in Notices : WF_startVars(part = "start" /\ TaskStep(e))
    /\ \A e \in Notices : WF_startVars(part = "start" /\ StartHandling(e))
    /\ WF_startVars(part = "start" /\ AdmitNotice)
    /\ WF_promotionVars(part = "promotion" /\ Admission)

PipelinesSpec == PipelinesInit /\ [][PipelinesNext]_pipelinesVars /\ PipelinesFairness

-----------------------------------------------------------------------------
(* The instances.                                                            *)

CONSTANTS u1, u2, s1, s2, ra, rb, rc, n1, n2

\* Lifecycle: the second unit needs the first.
MCNeeds == [u \in Units |-> IF u = u2 THEN {u1} ELSE {}]

\* Scheduling: a fan-out of three items and a pool that is too large.
MCItems == ra :> 3 @@ rb :> 1 @@ rc :> 1
MCPool == ra :> 2 @@ rb :> 1 @@ rc :> 4

\* The worker's cycle: a sound run, and one for each of the poisons.
MCPoison == [r \in WorkItems |->
    CASE r = "a" -> {} [] r = "b" -> {"event"} [] r = "c" -> {"external"}
      [] r = "d" -> {"attempt"} [] r = "e" -> {"effect"}]

\* The same check is required twice.
MCRequired == <<"check", "check">>

-----------------------------------------------------------------------------
\* The states of all the modules have their types.
PipelinesTypeOK ==
    /\ LifecycleTypeOK /\ SchedulingTypeOK /\ CycleTypeOK
    /\ WaitTypeOK /\ PublicationTypeOK
    /\ StartTypeOK /\ PromotionTypeOK

\* Work that waits for nothing, whichever module the behaviour follows.
WorkGoesOn ==
    /\ part = "lifecycle" => RunIsOver
    /\ part = "scheduling" => FittingRunsAreOver
    /\ part = "cycle" => SoundRunsAreOver /\ BadAttemptsAreGivenUp
    /\ part = "wait" => NoFailureIsAwaited
    /\ part = "start" => NoticesAreAdmitted
    /\ part = "promotion" => AdmissionIsOver

\* Runs go on: what was accepted is admitted and planned; a run through its stages
\* ends, and so does every run whose pool can be met; a poisoned row keeps no sound
\* run from its end and a worker that is stuck is noticed; and what was published
\* or checked is found out.
PipelinesSettle ==
    /\ []<>WorkGoesOn
    /\ FailingIsNoticed
    /\ TakenEffectSettles
=============================================================================
