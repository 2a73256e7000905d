------------------------------ MODULE MCSandbox ------------------------------
(* Instances for TLC of the modules about a sandbox and those who talk to it:  *)
(* its loss during an integration, the credentials and the guidance its agent is *)
(* given, the operator who gives it up; and about what it is built on, the graph *)
(* of a pipeline and the volume of the blobs.  A behaviour follows one of the  *)
(* modules, `part`, while the variables of the others stand still.             *)
EXTENDS CodexCredentials, Steering, IntegrationAbsence, OperatorRejection,
        PipelineValidation, VolumeStorage, TLC

VARIABLE part

sandboxVars == <<codexVars, steeringVars, absenceVars, validationVars,
                 storageVars, rejectionVars, part>>

SandboxInit ==
    /\ part \in {"codex", "steering", "absence", "validation", "storage",
                "rejection"}
    /\ CodexInit
    /\ SteeringInit
    /\ AbsenceInit
    /\ ValidationInit
    /\ StorageInit
    /\ RejectionInit
    /\ part # "absence" => ~launched

CodexPart ==
    /\ part = "codex" /\ CodexNext
    /\ UNCHANGED <<steeringVars, absenceVars, validationVars, storageVars,
                    rejectionVars, part>>
SteeringPart ==
    /\ part = "steering" /\ SteeringNext
    /\ UNCHANGED <<codexVars, absenceVars, validationVars, storageVars,
                    rejectionVars, part>>
AbsencePart ==
    /\ part = "absence" /\ AbsenceNext
    /\ UNCHANGED <<codexVars, steeringVars, validationVars, storageVars,
                    rejectionVars, part>>
ValidationPart ==
    /\ part = "validation" /\ ValidationNext
    /\ UNCHANGED <<codexVars, steeringVars, absenceVars, storageVars,
                    rejectionVars, part>>
StoragePart ==
    /\ part = "storage" /\ StorageNext
    /\ UNCHANGED <<codexVars, steeringVars, absenceVars, validationVars,
                    rejectionVars, part>>
RejectionPart ==
    /\ part = "rejection" /\ RejectionNext
    /\ UNCHANGED <<codexVars, steeringVars, absenceVars, validationVars,
                    storageVars, part>>

SandboxNext ==
    \/ CodexPart \/ SteeringPart \/ AbsencePart \/ ValidationPart
    \/ StoragePart \/ RejectionPart

\* The fairness of every module, for the behaviours that follow it.
SandboxFairness ==
    /\ WF_codexVars(part = "codex" /\ Answered)
    /\ WF_codexVars(part = "codex" /\ Refused)
    /\ WF_codexVars(part = "codex" /\ TimedOut)
    /\ WF_steeringVars(part = "steering" /\ Cycle)
    /\ SF_steeringVars(part = "steering" /\ HandleInbox)
    /\ \A m \in Comments : SF_steeringVars(part = "steering" /\ TooLate(m))
    /\ WF_steeringVars(part = "steering" /\ Journal)
    /\ WF_steeringVars(part = "steering" /\ AgentEnds)
    /\ WF_steeringVars(part = "steering" /\ Expire)
    /\ WF_absenceVars(part = "absence" /\ (\/ LeaseHeld \/ LookupFindsNone
                                            \/ ReadFiles \/ DispatchLaunch
                                            \/ HoldCount))
    /\ WF_absenceVars(part = "absence" /\ SealResult)
    /\ WF_validationVars(part = "validation" /\ ValidationStep)
    /\ WF_storageVars(part = "storage" /\ StorageStep)
    /\ \A b \in Blobs : SF_storageVars(part = "storage" /\ Put(b))

SandboxSpec == SandboxInit /\ [][SandboxNext]_sandboxVars /\ SandboxFairness

-----------------------------------------------------------------------------
(* The instances.                                                            *)

\* Validation: every combination of a few shapes per stage.
MCTo(t, n) == [to |-> t, reentries |-> n]
MCStage(x, y, b, f) == [on |-> ("ok" :> x) @@ ("bad" :> y), body |-> b, file |-> f]
MCSuccess == {MCTo("a", 0), MCTo("b", 0), MCTo("c", 0), MCTo("b", 1),
              MCTo(Terminal, 0), MCTo(Unknown, 0)}
MCFirst == {MCStage(x, MCTo(Terminal, 0), b, f) :
    x \in MCSuccess \ {MCTo(Terminal, 0)}, b \in {{}, {"c"}}, f \in BOOLEAN}
MCSecond == {MCStage(x, y, {}, FALSE) :
    x \in MCSuccess \ {MCTo(Unknown, 0)}, y \in {MCTo(Terminal, 0), MCTo("a", 1)}}
MCThird == {MCStage(x, MCTo(Terminal, 0), {}, FALSE) :
    x \in {MCTo("a", 0), MCTo("a", 1), MCTo(Terminal, 0)}}
MCGraphs == {("a" :> x) @@ ("b" :> y) @@ ("c" :> z) :
    x \in MCFirst, y \in MCSecond, z \in MCThird}

\* Two of the blobs share a shard.
MCShardOf == [b \in Blobs |-> IF b = "b3" THEN "shard2" ELSE "shard1"]

-----------------------------------------------------------------------------
\* The states of all the modules have their types.
SandboxTypeOK ==
    /\ CredentialsTypeOK /\ SteeringTypeOK /\ AbsenceTypeOK
    /\ RejectionTypeOK /\ ValidationTypeOK /\ StorageTypeOK

\* EverythingIsStored, for the behaviours that follow its module.
StorageIsComplete == part = "storage" => EverythingIsStored

\* What is owed is answered: a run of an accepted graph ends, every blob that was
\* put is stored, a request for credentials is answered, a comment is settled, and
\* the loss of a sandbox is.
SandboxSettles ==
    /\ AcceptedRunEnds
    /\ StorageIsComplete
    /\ EveryRequestAnswered
    /\ CommentSettles
    /\ LostSandboxSettles
=============================================================================
