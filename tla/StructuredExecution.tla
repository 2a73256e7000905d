------------------------- MODULE StructuredExecution -------------------------
(***************************************************************************)
(* The settlement planner of the core/structured pipeline.                 *)
(*                                                                         *)
(* A plan is a set of units with dependencies.  The units whose            *)
(* dependencies are integrated form a wave: every member goes through the  *)
(* unit cycle (implement, gates, acceptance, repair) and the wave moves to *)
(* its next stage as a whole, when its last member settles.  A wave that   *)
(* is accepted as a whole is integrated one unit at a time, against the    *)
(* advancing subject of the run; then come the next wave, the gates of the *)
(* whole change, the review by a set of personas, and the publication.     *)
(*                                                                         *)
(* The authored pipeline is data to the planner, and a constant here: On   *)
(* gives for a stage and an outcome the stage that follows and how often   *)
(* the edge may be taken.  A planner that throws leaves its settlement     *)
(* undone and is called again with the same evidence: the run is refused   *)
(* from then on.                                                           *)
(***************************************************************************)
EXTENDS Naturals, Sequences, FiniteSets, Functions, SequencesExt

CONSTANTS
  PlanUnits,      \* the units of the plan; their canonical order is <
  DependsOn,      \* the dependencies of a unit
  PlanOrder,      \* the place of a unit in the list of the plan
  On,             \* stage -> outcome -> [to, max, exhausted]
  Edits,          \* the stages with edit authority
  UnitGates,      \* the commands of the unit cycle
  FinalGates,     \* the commands that check the whole change
  Body,           \* the stages of the unit cycle before the integration
  Personas,       \* the roster of reviewers; their canonical order is <
  UnitWidth,      \* max_parallel of the unit loop
  ReviewWidth,    \* max_parallel of the review fanout
  Sizes,          \* the sizes the bundle of a candidate may have
  EvidenceLimit,  \* the bytes an integration may carry
  Unbounded       \* the max of an edge without a re-entry limit

ASSUME PlanIsAcyclic ==
  /\ PlanUnits \subseteq Nat \ {0} /\ IsFiniteSet(PlanUnits)
  /\ Personas \subseteq Nat
  /\ PlanOrder \in [PlanUnits -> Nat]
  /\ \A u, v \in PlanUnits : PlanOrder[u] = PlanOrder[v] => u = v
  /\ DependsOn \in [PlanUnits -> SUBSET PlanUnits]
  /\ \E order \in [PlanUnits -> 1 .. Cardinality(PlanUnits)] :
       \A u \in PlanUnits : \A n \in DependsOn[u] : order[n] < order[u]

VARIABLES
  cursor,      \* the stage the run is at
  wave,        \* the members of the frontier
  own,         \* the outcomes of the members that have settled
  unit,        \* the unit that is being integrated
  made,        \* how many accepted edits the candidate of a unit has had
  root,        \* how much of the chain the candidate's last edit started from
  bytes,       \* the size of the candidate's bundle
  passed,      \* the gates a candidate passed since its last edit
  accepted,    \* the candidates of a unit with a settled accepting decision
  merged,      \* the integrations, in order
  spentEdges,  \* how often each limited edge has been taken
  checks,      \* the gates the whole change passed since its last edit
  heard,       \* the reviewers that have answered since then
  refusal      \* why the planner throws

structuredVars ==
  <<cursor, wave, own, unit, made, root, bytes, passed, accepted, merged, spentEdges,
    checks, heard, refusal>>
unitVars == <<made, root, bytes, passed, accepted>>

NoRefusal == "none"
NoUnit == 0
Running == refusal = NoRefusal
Accepting == {"success", "no_change"}
Limited(s, o) == On[s][o].max # Unbounded
Edges == {e \in UNION {{s} \X (DOMAIN On[s]) : s \in DOMAIN On} :
            Limited(e[1], e[2])}
Stops == {"stop_needs_human", "stop_failed"}
Whole == FinalGates \cup {"select_review_personas", "persona_review",
                          "validate_review_findings", "final_repair", "publish"}
Least(set) == CHOOSE u \in set : \A v \in set : u <= v
Merged == {merged[i].unit : i \in DOMAIN merged}
OffChain == Cardinality(PlanUnits) + 1     \* the root of an edit of an edit

Precedence == <<"needs_human", "failure", "exited", "semantic_repair_required",
                "retryable_infrastructure_failure", "success", "no_change">>

Targets(s, o) == {On[s][o].to, On[s][o].exhausted}
EdgesAre(s, o, targets) == Targets(s, o) \subseteq targets

\* Stages that are entered only past a gate and not left but to be gated again:
\* every edge to one of them comes from the gate, when it accepts, or from another
\* of them that does not edit.
OnlyPast(gate, outcomes, stages) ==
  \A s \in DOMAIN On : \A o \in DOMAIN On[s] :
    Targets(s, o) \cap stages # {} =>
      (s = gate /\ o \in outcomes) \/ (s \in stages /\ s \notin Edits)

\* What the authored pipeline is relied on for, as that of core/structured is:
\* the unit cycle leads to the integration by an acceptance alone, and the
\* integration to the stages of the whole change, or the planner throws; and no way
\* leads to an acceptance but past every gate of the unit since its last edit, and
\* none to the publication but past every gate of the whole change, and its review,
\* since the last edit of that.  The planner checks nothing of the gates.
ASSUME PipelineIsGated ==
  /\ \A s \in Body \cap DOMAIN On : \A o \in DOMAIN On[s] :
       /\ o \in Range(Precedence)
       /\ EdgesAre(s, o, (Body \cap DOMAIN On) \cup {"integrate_unit"} \cup Stops)
       /\ "integrate_unit" \in Targets(s, o) => s = "accept_unit" /\ o \in Accepting
  /\ {"next_integration", "next_unit", "all_integrated"} \subseteq DOMAIN On["integrate_unit"]
  /\ EdgesAre("integrate_unit", "all_integrated", Whole \cup Stops)
  /\ \A o \in DOMAIN On["integrate_unit"] \cap Range(Precedence) :
       EdgesAre("integrate_unit", o, {"integrate_unit"} \cup Stops)
  /\ \A s \in Whole \cap DOMAIN On : \A o \in DOMAIN On[s] :
       EdgesAre(s, o, Whole \cup Stops)
  /\ DOMAIN On["persona_review"] \subseteq Range(Precedence)
  /\ {"implement_unit", "integrate_unit"} \cup (Whole \ {"publish"}) \subseteq DOMAIN On
  /\ "implement_unit" \in Body
  /\ Body \cap (Whole \cup Stops \cup {"integrate_unit"}) = {}
  /\ FinalGates \cap (Stops \cup {"integrate_unit"}) = {}
  /\ FinalGates \cap {"select_review_personas", "persona_review", "publish"} = {}
  /\ ({"accept_unit", "persona_review"} \cup UnitGates \cup FinalGates) \cap Edits = {}
  /\ \A g \in UnitGates : \E stages \in SUBSET Body :
       /\ "accept_unit" \in stages /\ "implement_unit" \notin stages
       /\ OnlyPast(g, Accepting, stages)
  /\ \A g \in FinalGates : \E stages \in SUBSET Whole :
       /\ "publish" \in stages
       /\ OnlyPast(g, Accepting, stages)
  /\ \E stages \in SUBSET (Whole \ {"persona_review"}) :
       /\ "publish" \in stages
       /\ OnlyPast("persona_review", DOMAIN On["persona_review"], stages)

-----------------------------------------------------------------------------
(* Transitions. *)

Spent(s, o) == Limited(s, o) /\ spentEdges[<<s, o>>] >= On[s][o].max

NextStage(s, o) == IF Spent(s, o) THEN On[s][o].exhausted ELSE On[s][o].to

\* The edge is counted by the reducer when the transition is applied.
Take(s, o) ==
  spentEdges' = IF Limited(s, o) /\ ~Spent(s, o)
                THEN [spentEdges EXCEPT ![<<s, o>>] = @ + 1] ELSE spentEdges

\* The members that come before one in the canonical order.
Before(m) == {n \in wave : n < m}

\* Mutants: a member that waits for itself, one that is not in the wave, and a
\* wave that moves on with the first of its members.
WaitsForItself(m, width) ==
  /\ m \in wave \ DOMAIN own
  /\ Cardinality(Before(m)) >= width => m \in DOMAIN own
AnyMember(m, width) == m \notin DOMAIN own
FirstIsLast(m) == m \in wave

\* Members of a frontier start when the one max_parallel places before them
\* has settled.
Ready(m, width) ==
  /\ m \in wave \ DOMAIN own
  /\ \A n \in wave : Cardinality(Before(m)) = Cardinality(Before(n)) + width
                       => n \in DOMAIN own

\* The outcomes of the wave with that of one more member.
Joined(m, outcome) ==
  [n \in DOMAIN own \cup {m} |-> IF n = m THEN outcome ELSE own[n]]

LastOne(m) == wave = DOMAIN own \cup {m}

\* The outcome of a wave whose members disagree is the first of these.
Aggregate(outcomes) ==
  IF \E o \in outcomes : outcomes = {o} THEN CHOOSE o \in outcomes : TRUE
  ELSE LET first == CHOOSE i \in DOMAIN Precedence :
                      /\ Precedence[i] \in outcomes
                      /\ \A j \in 1 .. i - 1 : Precedence[j] \notin outcomes
       IN  Precedence[first]

RefuseToPlan(why) ==
  /\ refusal' = why
  /\ UNCHANGED <<cursor, wave, own, unit, unitVars, merged, spentEdges, checks, heard>>

-----------------------------------------------------------------------------
(* The unit cycle. *)

\* Mutant: dependencies are not waited for.
AnyUnitIsReady(done) == PlanUnits \ done
ReadyUnits(done) == {u \in PlanUnits \ done : DependsOn[u] \subseteq done}

\* buildStructuredProvisionSettlement: the first wave of the plan.
StructuredInit ==
  /\ cursor = "implement_unit" /\ wave = ReadyUnits({}) /\ own = <<>>
  /\ unit = NoUnit
  /\ made = [u \in PlanUnits |-> 0] /\ root = [u \in PlanUnits |-> 0]
  /\ bytes = [u \in PlanUnits |-> 0]
  /\ passed = [u \in PlanUnits |-> {}] /\ accepted = [u \in PlanUnits |-> {}]
  /\ merged = <<>> /\ spentEdges = [e \in Edges |-> 0]
  /\ checks = {} /\ heard = {} /\ refusal = NoRefusal

\* What the settlement of a member leaves on its unit: `decision` is the
\* outcome its DecisionRecord names.
Worked(u, outcome, decision) ==
  /\ IF cursor \in Edits /\ outcome = "success"
     THEN /\ made' = [made EXCEPT ![u] = @ + 1]
          /\ root' = [root EXCEPT ![u] = IF made[u] = 0 THEN Len(merged)
                                         ELSE OffChain]
          /\ \E size \in Sizes : bytes' = [bytes EXCEPT ![u] = size]
          /\ passed' = [passed EXCEPT ![u] = {}]
     ELSE /\ passed' = [passed EXCEPT ![u] =
                          IF cursor \in UnitGates /\ outcome \in Accepting
                          THEN @ \cup {cursor} ELSE @]
          /\ UNCHANGED <<made, root, bytes>>
  /\ accepted' = [accepted EXCEPT ![u] =
                    IF cursor = "accept_unit" /\ decision \in Accepting
                    THEN @ \cup {made[u]} ELSE @]

\* A member that is not the last one of its wave: its own decision stands.
MemberSettles(u, outcome) ==
  /\ Running /\ cursor \in Body /\ Ready(u, UnitWidth) /\ ~LastOne(u)
  /\ Worked(u, outcome, outcome)
  /\ own' = Joined(u, outcome)
  /\ UNCHANGED <<cursor, wave, unit, merged, spentEdges, checks, heard, refusal>>

\* The last member of a wave carries the decision for all of them.
WaveSettles(u, outcome) ==
  LET outcomes  == Range(own) \cup {outcome}
      aggregate == Aggregate(outcomes)
      target    == NextStage(cursor, aggregate)
  IN  /\ Running /\ cursor \in Body /\ Ready(u, UnitWidth) /\ LastOne(u)
      /\ IF target = "integrate_unit" /\ outcomes # {outcome}
         THEN RefuseToPlan("mixed")
         ELSE /\ Worked(u, outcome, aggregate)
              /\ cursor' = target /\ own' = <<>>
              /\ unit' = IF target = "integrate_unit" THEN Least(wave) ELSE NoUnit
              /\ Take(cursor, aggregate)
              /\ UNCHANGED <<wave, merged, checks, heard, refusal>>

-----------------------------------------------------------------------------
(* Integration, one unit at a time. *)

Waiting(done) == {u \in PlanUnits \ done : accepted[u] # {}}

FirstInPlan(set) == CHOOSE u \in set : \A v \in set : PlanOrder[u] <= PlanOrder[v]

\* structuredIntegrationCheckpointChain, from the candidate's own parent when
\* that parent is on the chain, and otherwise from the source commit.
Ancestry(u, chain) ==
  SubSeq(chain, (IF root[u] <= Len(chain) THEN root[u] ELSE 0) + 1, Len(chain))

\* A link of the chain is taken to weigh what its candidate weighed.
EvidenceBytes(u, chain) ==
  bytes[u] + FoldSeq(LAMBDA link, total : total + bytes[link.unit], 0,
                     Ancestry(u, chain))

\* Every settled acceptance of the loop is read, of merged units and of others.
\* Mutant: an older acceptance does not matter.
OlderIsForgotten ==
  \E u \in PlanUnits : \E a, b, c \in accepted[u] : a # b /\ b # c /\ a # c
TwiceAccepted == \E u \in PlanUnits : \E a, b \in accepted[u] : a # b

AcceptedVersion(u) == CHOOSE version \in accepted[u] : TRUE

Chain == Append(merged, [unit |-> unit, version |-> AcceptedVersion(unit)])
Done == Merged \cup {unit}
FitsTheBound(u) == EvidenceBytes(u, Chain) <= EvidenceLimit

Integrating == Running /\ cursor = "integrate_unit"

TwiceAcceptedIsRefused == Integrating /\ TwiceAccepted /\ RefuseToPlan("twice")

\* The planner settles "failure" and schedules nothing; the compiled edge of
\* "failure" leads to a stop stage, and the reducer refuses a transition to a
\* stage without an attempt.
OversizedIsRefused ==
  /\ Integrating /\ ~TwiceAccepted
  /\ Waiting(Done) # {} /\ ~FitsTheBound(FirstInPlan(Waiting(Done)))
  /\ RefuseToPlan("oversized")

NextIntegration ==
  /\ Integrating /\ ~TwiceAccepted
  /\ Waiting(Done) # {} /\ FitsTheBound(FirstInPlan(Waiting(Done)))
  /\ merged' = Chain /\ unit' = FirstInPlan(Waiting(Done))
  /\ Take(cursor, "next_integration")
  /\ UNCHANGED <<cursor, wave, own, unitVars, checks, heard, refusal>>

NextUnits ==
  /\ Integrating /\ ~TwiceAccepted /\ Waiting(Done) = {} /\ Done # PlanUnits
  /\ merged' = Chain /\ unit' = NoUnit
  /\ cursor' = "implement_unit" /\ wave' = ReadyUnits(Done)
  /\ Take(cursor, "next_unit")
  /\ UNCHANGED <<own, unitVars, checks, heard, refusal>>

AllIntegrated ==
  /\ Integrating /\ ~TwiceAccepted /\ Waiting(Done) = {} /\ Done = PlanUnits
  /\ merged' = Chain /\ unit' = NoUnit
  /\ cursor' = NextStage(cursor, "all_integrated") /\ wave' = {}
  /\ Take(cursor, "all_integrated")
  /\ UNCHANGED <<own, unitVars, checks, heard, refusal>>

\* The same unit is tried again, or the run stops.
IntegrationFails(outcome) ==
  /\ Integrating
  /\ outcome \in {"retryable_infrastructure_failure", "failure"}
  /\ cursor' = NextStage(cursor, outcome)
  /\ Take(cursor, outcome)
  /\ UNCHANGED <<wave, own, unit, unitVars, merged, checks, heard, refusal>>

-----------------------------------------------------------------------------
(* The whole change. *)

\* A gate, the validation of the findings, a repair.
StageSettles(outcome) ==
  /\ Running
  /\ cursor \in Whole \ {"select_review_personas", "persona_review", "publish"}
  /\ cursor' = NextStage(cursor, outcome)
  /\ Take(cursor, outcome)
  /\ checks' = IF cursor \in Edits /\ outcome = "success" THEN {}
               ELSE IF cursor \in FinalGates /\ outcome \in Accepting
               THEN checks \cup {cursor} ELSE checks
  /\ heard' = IF cursor \in Edits /\ outcome = "success" THEN {} ELSE heard
  /\ UNCHANGED <<wave, own, unit, unitVars, merged, refusal>>

SelectorSettles(outcome, chosen) ==
  LET target == NextStage(cursor, outcome)
  IN  /\ Running /\ cursor = "select_review_personas"
      /\ cursor' = target /\ Take(cursor, outcome)
      /\ wave' = IF target = "persona_review" THEN chosen ELSE wave
      /\ UNCHANGED <<own, unit, unitVars, merged, checks, heard, refusal>>

ReviewerSettles(p, outcome) ==
  /\ Running /\ cursor = "persona_review" /\ Ready(p, ReviewWidth)
  /\ ~LastOne(p)
  /\ own' = Joined(p, outcome)
  /\ UNCHANGED <<cursor, wave, unit, unitVars, merged, spentEdges, checks, heard,
                 refusal>>

ReviewSettles(p, outcome) ==
  LET aggregate == Aggregate(Range(own) \cup {outcome})
  IN  /\ Running /\ cursor = "persona_review" /\ Ready(p, ReviewWidth)
      /\ LastOne(p)
      /\ cursor' = NextStage(cursor, aggregate) /\ Take(cursor, aggregate)
      /\ own' = <<>>
      /\ heard' = DOMAIN own \cup {p}
      /\ UNCHANGED <<wave, unit, unitVars, merged, checks, refusal>>

-----------------------------------------------------------------------------

Outcomes == IF cursor \in DOMAIN On THEN DOMAIN On[cursor] ELSE {}

SettleUnit ==
  \E u \in PlanUnits, o \in Outcomes : MemberSettles(u, o) \/ WaveSettles(u, o)
SettleIntegration ==
  \/ TwiceAcceptedIsRefused \/ OversizedIsRefused
  \/ NextIntegration \/ NextUnits \/ AllIntegrated
  \/ \E o \in Outcomes : IntegrationFails(o)
SettleReview ==
  \E p \in Personas, o \in Outcomes : ReviewerSettles(p, o) \/ ReviewSettles(p, o)
SettleStage ==
  \/ \E o \in Outcomes : StageSettles(o)
  \/ \E o \in Outcomes, chosen \in (SUBSET Personas) \ {{}} :
       SelectorSettles(o, chosen)

StructuredNext == SettleUnit \/ SettleIntegration \/ SettleReview \/ SettleStage

StructuredSpec == StructuredInit /\ [][StructuredNext]_structuredVars
FairStructuredSpec == StructuredSpec /\ WF_structuredVars(StructuredNext)

-----------------------------------------------------------------------------
(* Properties. *)

StructuredTypeOK ==
  /\ cursor \in DOMAIN On \cup Stops \cup {"publish"}
  /\ (wave \subseteq PlanUnits) \/ (wave \subseteq Personas)
  /\ DOMAIN own \subseteq wave
  /\ unit \in PlanUnits \cup {NoUnit}
  /\ cursor = "integrate_unit" => unit # NoUnit
  /\ made \in [PlanUnits -> Nat] /\ passed \in [PlanUnits -> SUBSET UnitGates]
  /\ root \in [PlanUnits -> 0 .. OffChain] /\ bytes \in [PlanUnits -> Sizes \cup {0}]
  /\ accepted \in [PlanUnits -> SUBSET Nat]
  /\ merged \in Seq([unit : PlanUnits, version : Nat])
  /\ spentEdges \in [Edges -> Nat] /\ checks \subseteq FinalGates
  /\ heard \subseteq Personas
  /\ refusal \in {NoRefusal, "mixed", "twice", "oversized"}

\* A unit is integrated once, and after everything it depends on.
MergedAfterItsNeeds ==
  \A i \in DOMAIN merged :
    /\ DependsOn[merged[i].unit] \subseteq {merged[j].unit : j \in 1 .. i - 1}
    /\ \A j \in DOMAIN merged : merged[j].unit = merged[i].unit => j = i

\* What is integrated is the last version of its unit: the one that passed
\* every gate after its last edit, and the one the lead accepted.
MergedIsTheAcceptedVersion ==
  \A i \in DOMAIN merged :
    LET u == merged[i].unit
    IN  /\ merged[i].version = made[u] /\ passed[u] = UnitGates
        /\ accepted[u] = {made[u]}

\* No unit of a wave is integrated while a sibling of the wave is rejected:
\* while integrations run, the last version of every member is accepted or
\* merged.
WaveIsAcceptedWhole ==
  cursor = "integrate_unit" => \A u \in wave : made[u] \in accepted[u]

\* The whole-change stages are reached with every unit integrated, and a change
\* is published only after its gates and every selected reviewer saw its last
\* edit.
PublishedWasChecked ==
  /\ cursor \in Whole => Merged = PlanUnits
  /\ cursor = "publish" => FinalGates = checks /\ wave = heard

\* A plan that is over, as every plan is in the end: it is published or given up,
\* or its planner refuses to go on.
PlanIsOver == cursor \in Stops \cup {"publish"} \/ refusal # NoRefusal

\* The documentation says an integration that would exceed the evidence bound
\* ends the run with needs_human instead of stalling the worker.
OversizedNeedsHuman == refusal # "oversized"

\* The review and repair cycle of a unit is told to end in an integration or
\* with a human; a wave in which a member was accepted before a sibling was
\* rejected cannot be integrated any more.
NeverAcceptedTwice == refusal # "twice"

\* The units of a plan are merged in an order their needs allow, each in the
\* version that passed its gates, a wave as a whole; and what is published was
\* checked as a whole.
StructuredSafe ==
    /\ MergedAfterItsNeeds
    /\ MergedIsTheAcceptedVersion
    /\ WaveIsAcceptedWhole
    /\ PublishedWasChecked
=============================================================================
