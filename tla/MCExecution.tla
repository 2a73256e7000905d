----------------------------- MODULE MCExecution -----------------------------
(* Instances for TLC of the modules about what is executed: the attempts of    *)
(* agents and commands, the units of a structured plan and the integration of  *)
(* their checkpoints, the definitions a run is pinned to and the release that  *)
(* serves an epoch.  A behaviour follows one of the modules, `part`, while the *)
(* variables of the others stand still.                                        *)
EXTENDS StructuredExecution, DefinitionClosure, AttemptExecution,
        CheckpointIntegration, EpochRelease, TLC

VARIABLE part

executedVars == <<structuredVars, closureVars, executionVars, checkpointVars,
                  releaseVars, part>>

ExecutedInit ==
    /\ part \in {"structured", "closure", "execution", "checkpoint", "release"}
    /\ StructuredInit
    /\ ClosureInit
    /\ ExecutionInit
    /\ CheckpointInit
    /\ ReleaseInit
    /\ part # "closure" =>
        head = (CHOOSE t \in Trees : TRUE) /\ catalog = (CHOOSE c \in Catalogs : TRUE)
    /\ environment = (CHOOSE e \in Environments : TRUE)
    /\ part # "execution" => action = "agent"

StructuredPart ==
    /\ part = "structured" /\ StructuredNext
    /\ UNCHANGED <<closureVars, executionVars, checkpointVars, releaseVars,
                    part>>
ClosurePart ==
    /\ part = "closure" /\ ClosureNext
    /\ UNCHANGED <<structuredVars, executionVars, checkpointVars,
                    releaseVars, part>>
ExecutionPart ==
    /\ part = "execution" /\ ExecutionNext
    /\ UNCHANGED <<structuredVars, closureVars, checkpointVars, releaseVars,
                    part>>
CheckpointPart ==
    /\ part = "checkpoint" /\ CheckpointNext
    /\ UNCHANGED <<structuredVars, closureVars, executionVars, releaseVars,
                    part>>
ReleasePart ==
    /\ part = "release" /\ ReleaseNext
    /\ UNCHANGED <<structuredVars, closureVars, executionVars,
                    checkpointVars, part>>

ExecutedNext ==
    \/ StructuredPart \/ ClosurePart \/ ExecutionPart \/ CheckpointPart
    \/ ReleasePart

\* The fairness of every module, for the behaviours that follow it.
ExecutedFairness ==
    /\ WF_structuredVars(part = "structured" /\ StructuredNext)
    /\ WF_closureVars(part = "closure" /\ Compiles)
    /\ WF_closureVars(part = "closure" /\ Reduces)
    /\ WF_executionVars(part = "execution" /\ CallStep)
    /\ WF_checkpointVars(part = "checkpoint" /\ CheckpointNext)

ExecutedSpec == ExecutedInit /\ [][ExecutedNext]_executedVars /\ ExecutedFairness

-----------------------------------------------------------------------------
(* The instances.                                                            *)

\* Structured execution: the edges of core/pipelines/structured.
Go(to) == [to |-> to, max |-> Unbounded, exhausted |-> to]
Upto(to, n, stop) == [to |-> to, max |-> n, exhausted |-> stop]
AskHuman == Go("stop_needs_human")
Once(s) == Upto(s, 1, "stop_failed")
Repair == Upto("repair_unit", 1, "stop_needs_human")
FinalRepair == Upto("final_repair", 1, "stop_needs_human")
MCOn == [
    implement_unit |-> [success |-> Go("unit_test"), failure |-> Repair,
                        needs_human |-> AskHuman],
    unit_test |-> [success |-> Go("accept_unit"), no_change |-> Go("accept_unit"),
                   retryable_infrastructure_failure |-> Once("unit_test"),
                   failure |-> Repair],
    accept_unit |-> [success |-> Go("integrate_unit"),
                     no_change |-> Go("integrate_unit"),
                     semantic_repair_required |-> Repair],
    repair_unit |-> [success |-> Go("unit_test"), exited |-> AskHuman],
    integrate_unit |-> [
        next_integration |-> Upto("integrate_unit", 4, "stop_needs_human"),
        next_unit |-> Upto("implement_unit", 4, "stop_needs_human"),
        all_integrated |-> Go("final_test"),
        retryable_infrastructure_failure |-> Once("integrate_unit"),
        failure |-> AskHuman],
    final_test |-> [success |-> Go("select_review_personas"),
                    failure |-> FinalRepair],
    select_review_personas |-> [success |-> Go("persona_review"),
                                semantic_repair_required |-> AskHuman],
    persona_review |-> [success |-> Go("validate_review_findings"),
                        semantic_repair_required |-> Go("validate_review_findings"),
                        needs_human |-> AskHuman],
    validate_review_findings |-> [success |-> Go("publish"),
                                  semantic_repair_required |-> FinalRepair],
    final_repair |-> [success |-> Go("final_test"), exited |-> AskHuman]]
MCPlanUnits == 1..3
MCDependsOn == [u \in MCPlanUnits |-> IF u = 1 THEN {3} ELSE {}]
MCPlanOrder == <<2, 3, 1>>
MCPersonas == {11, 12}

\* Definitions: a configuration, a definition of the repository and two of the
\* core namespace; beside them a file of the package of "mine", one where nothing
\* belongs, and a definition whose name differs from "mine" in case.
MCNames == {"config", "mine", "flow", "agent", "notes", "stray", "MINE"}
MCOwner == [n \in MCNames |->
    CASE n = "notes" -> "mine" [] n = "stray" -> "absent" [] OTHER -> n]
MCSelects == [n \in MCNames |-> [b \in {"p", "q"} |->
    CASE n = "config" -> IF b = "p" THEN {"mine"} ELSE {"flow"}
      [] n = "mine" -> IF b = "p" THEN {"agent"} ELSE {"mine", "flow"}
      [] n = "flow" -> IF b = "p" THEN {"agent"} ELSE {}
      [] OTHER -> {}]]
MCFile(a, b, c, d) == [n \in MCNames |->
    CASE n = "config" -> a [] n = "mine" -> b [] n = "flow" -> c
      [] n = "agent" -> d [] OTHER -> "absent"]
MCTrees ==
    {MCFile(a, b, "absent", "absent") : a \in {"p", "q"}, b \in {"p", "q", "bad"}}
    \cup {MCFile("q", b, "p", "absent") : b \in {"q", "nul"}}
    \cup {MCFile("absent", "p", "absent", "absent")}
    \cup {[MCFile("q", b, "absent", "absent") EXCEPT !["notes"] = "p"] :
             b \in {"absent", "p"}}
    \cup {[MCFile("q", "p", "absent", "absent") EXCEPT ![n] = "p"] :
             n \in {"stray", "MINE"}}
MCCatalogs == {MCFile("absent", "absent", c, d) :
    c \in {"p", "q"}, d \in {"absent", "p"}} \cup {MCFile("absent", "p", "p", "p")}

\* Two waves that fill the pool.
MCWaves == <<<<1, 2>>, <<3, 4>>>>

-----------------------------------------------------------------------------
\* The states of all the modules have their types.
ExecutedTypeOK ==
    /\ StructuredTypeOK /\ ClosureTypeOK /\ ExecutionTypeOK
    /\ CheckpointTypeOK /\ ReleaseTypeOK

\* Work that is at its end, whichever module the behaviour follows.
WorkIsOver ==
    /\ part = "structured" => PlanIsOver
    /\ part = "execution" => AttemptIsOver
    /\ part = "closure" => PinnedIsCompiled
    /\ part = "checkpoint" => PlanIsIntegrated

\* Work is brought to its end: a structured plan is carried out or given up, an
\* attempt ends however its calls are cut off, a plan that was pinned is compiled
\* again, and the checkpoints of the waves are integrated.  Over again and again,
\* as a pinned plan is compiled for every reduction; the others stay over.
ExecutionSettles == []<>WorkIsOver
=============================================================================
