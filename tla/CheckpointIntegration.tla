------------------------- MODULE CheckpointIntegration -------------------------
(***************************************************************************)
(* What the checkpoints of a structured plan contain: the bundles that carry  *)
(* commits from sandbox to sandbox, the merge of an accepted unit into the    *)
(* head of the run (sandbox/runner/integrate-checkpoint.mjs) and the          *)
(* supervisor's own computation of that merge, which it makes before it      *)
(* accepts the result (runtime/kernel-checkpoint-bundle.ts).                  *)
(*                                                                          *)
(* Units come in waves. A unit starts on the head of the run and passes       *)
(* Attempts attempts, each on the output of the one before, all of them in    *)
(* the slot of the run's pool that its index names; then the units of the     *)
(* wave are integrated in order, each in its own slot. A slot holds the       *)
(* commits that were cloned or fetched into it and no others.                 *)
(*                                                                          *)
(* A commit is its place in the sequence commits, and its parent is the last  *)
(* of those behind it. What Git hashes is what tells two commits apart, so    *)
(* writing the same one twice gives one place.                                *)
(***************************************************************************)
EXTENDS Naturals, Sequences, FiniteSets, SequencesExt

CONSTANTS
    Waves,      \* the units of each wave, in the plan's order; units are 1, 2, ...
    PoolWidth,       \* how many slots the run's pool has
    Attempts,   \* how many edit attempts a unit passes (implement, simplify)
    Paths,      \* the paths of a tree
    Contents,   \* what a path can hold
    Start,      \* the content of every path in the commit the run started from
    MaxInterruptions   \* bound: clones that are interrupted

ASSUME CheckpointAssumption ==
    /\ PoolWidth \in Nat \ {0} /\ Attempts \in Nat \ {0} /\ MaxInterruptions \in Nat
    /\ Start \in Contents /\ IsFiniteSet(Contents)

\* A unit is in one wave, once; a plan has a wave and a wave a unit.
ASSUME WavesAssumption ==
    /\ Waves \in Seq(Seq(Nat \ {0})) /\ Waves # <<>>
    /\ \A w \in DOMAIN Waves : Waves[w] # <<>>
    /\ \A v, w \in DOMAIN Waves : \A p \in DOMAIN Waves[v], q \in DOMAIN Waves[w] :
           Waves[v][p] = Waves[w][q] => v = w /\ p = q

VARIABLES
    commits,    \* every commit that was made: its tree, the commits behind it,
                \* its message
    slots,      \* slot -> its repository ("absent", "staged", "ready") and the
                \* commits it holds
    waveNo,     \* the wave that is under way
    units,      \* unit -> attempts behind it and the checkpoint it stands on
    chain,      \* the integrations of the run so far: input and output
    place,      \* the unit of the wave that is integrated next
    step,      \* "work", "fetch", "merge", "inspect"; "done", "conflict"; or
                \* why nothing can go on: "fence", "missing", "candidate",
                \* "ancestry", "mismatch"
    mergeResult, \* what the executor made of the integration under way
    interruptions

checkpointVars == <<commits, slots, waveNo, units, chain, place, step, mergeResult, interruptions>>

Tree == [Paths -> Contents]
Commits == DOMAIN commits
Source == 1
PoolSlot == 0..PoolWidth - 1
AllUnits == UNION {Range(Waves[w]) : w \in DOMAIN Waves}
SlotOf(u) == (u - 1) % PoolWidth
NoCheckpoint == [input |-> 0, output |-> 0, ref |-> "none"]
NoMerge == [state |-> "none", base |-> 0, output |-> 0]
Stopped == {"done", "conflict", "fence", "missing", "candidate", "ancestry", "mismatch"}

CheckpointTypeOK ==
    /\ commits \in Seq([tree : Tree, past : SUBSET Commits, by : {"source", "attempt", "integration"}])
    /\ \A c \in Commits : \A d \in commits[c].past : d < c
    /\ slots \in [PoolSlot -> [repository : {"absent", "staged", "ready"}, holds : SUBSET Commits]]
    /\ waveNo \in 1..Len(Waves) /\ place \in 1..Len(Waves[waveNo])
    /\ units \in [AllUnits -> [behind : 0..Attempts,
                               on : [input : 0..Len(commits), output : 0..Len(commits),
                                     ref : {"none", "checkpoints", "integrations"}]]]
    /\ chain \in Seq([input : Commits, output : Commits])
    /\ step \in {"work", "fetch", "merge", "inspect"} \cup Stopped
    /\ mergeResult.state \in {"none", "integrated", "conflict"} /\ interruptions \in 0..MaxInterruptions

CheckpointInit ==
    /\ commits = <<[tree |-> [p \in Paths |-> Start], past |-> {}, by |-> "source"]>>
    /\ slots = [s \in PoolSlot |-> [repository |-> "absent", holds |-> {}]]
    /\ waveNo = 1 /\ place = 1 /\ chain = <<>> /\ step = "work"
    /\ units = [u \in AllUnits |-> [behind |-> 0, on |-> NoCheckpoint]]
    /\ mergeResult = NoMerge /\ interruptions = 0

-----------------------------------------------------------------------------
(* Commits                                                                 *)

Current == IF chain = <<>> THEN Source ELSE Last(chain).output

\* A commit and everything behind it, back to the commit the run started from.
Line(c) == commits[c].past \cup {c}

IsAncestor(a, d) == a \in Line(d)

\* The walk from a commit to the base fails at the first one that is missing.
ReachesBase(held, c) == Line(c) \subseteq held

\* A commit is found again when tree, parent and message are the same: the
\* author and the date are fixed.
PlaceOf(new) ==
    IF \E c \in Commits : commits[c] = new
    THEN CHOOSE c \in Commits : commits[c] = new
    ELSE Len(commits) + 1
Written(new) == IF PlaceOf(new) \in Commits THEN commits ELSE Append(commits, new)

\* The bundle of an attempt reaches back to the base, that of an integration
\* to its parent.
Bundled(checkpoint) ==
    IF checkpoint.ref = "integrations"
    THEN {checkpoint.input, checkpoint.output}
    ELSE Line(checkpoint.output)

-----------------------------------------------------------------------------
(* The attempts of a unit                                                   *)

\* The checkpoint whose output is the input of the unit's next attempt.
Boundary(u) ==
    IF units[u].on # NoCheckpoint THEN units[u].on
    ELSE IF chain = <<>> THEN NoCheckpoint
    ELSE [input |-> Last(chain).input, output |-> Last(chain).output, ref |-> "integrations"]

InputOf(u) == IF Boundary(u) = NoCheckpoint THEN Source ELSE Boundary(u).output

Stop(why) ==
    /\ step' = why
    /\ UNCHANGED <<commits, slots, waveNo, units, chain, place, mergeResult, interruptions>>

\* An interrupted clone leaves its staging directory behind.
CloneInterrupted(s) ==
    /\ slots[s].repository # "ready" /\ interruptions < MaxInterruptions
    /\ slots' = [slots EXCEPT ![s].repository = "staged"]
    /\ interruptions' = interruptions + 1
    /\ UNCHANGED <<commits, waveNo, units, chain, place, step, mergeResult>>

\* The slot after the input of u's next attempt is brought into it: a clone
\* when no checkpoint leads to it, else what the checkpoint's bundle contains.
WithInput(u) ==
    LET slot == slots[SlotOf(u)]
    IN [repository |-> "ready",
        holds |-> slot.holds \cup
                  (IF Boundary(u) = NoCheckpoint THEN {Source} ELSE Bundled(Boundary(u)))]

\* Only a clone makes a repository; a bundle needs one to be fetched into.
CanMaterialize(u) ==
    Boundary(u) = NoCheckpoint \/ slots[SlotOf(u)].repository = "ready"

\* An attempt that leaves its input as it is stands on the checkpoint it came
\* with, if it came with one.
Unchanged(u) ==
    IF Boundary(u) # NoCheckpoint THEN Boundary(u)
    ELSE [input |-> Source, output |-> Source, ref |-> "checkpoints"]

Edited(u, tree) ==
    LET input == InputOf(u)
        new == [tree |-> tree, past |-> Line(input), by |-> "attempt"]
    IN IF tree = commits[input].tree
       THEN /\ units' = [units EXCEPT ![u] = [behind |-> @.behind + 1, on |-> Unchanged(u)]]
            /\ UNCHANGED commits
       ELSE /\ commits' = Written(new)
            /\ units' = [units EXCEPT ![u] =
                   [behind |-> @.behind + 1,
                    on |-> [input |-> input, output |-> PlaceOf(new), ref |-> "checkpoints"]]]

Attempt(u) ==
    /\ step = "work" /\ u \in Range(Waves[waveNo]) /\ units[u].behind < Attempts
    /\ IF ~CanMaterialize(u) THEN Stop("fence")
       ELSE IF ~ReachesBase(WithInput(u).holds, InputOf(u)) THEN Stop("missing")
       ELSE /\ slots' = [slots EXCEPT ![SlotOf(u)] = WithInput(u)]
            /\ \E tree \in Tree : Edited(u, tree)
            /\ UNCHANGED <<waveNo, chain, place, step, mergeResult, interruptions>>

-----------------------------------------------------------------------------
(* The integration of a unit                                                *)

Unit == Waves[waveNo][place]
Candidate == units[Unit].on
Here == slots[SlotOf(Unit)]

\* Mutant of CurrentAncestry: always from the base.
AncestryFromBase == IF place = 1 \/ Candidate.input = Current THEN <<>> ELSE chain

\* The integrations between the candidate's input, or the base when the
\* candidate's input is not among their inputs, and the head.
CurrentAncestry ==
    LET from == {i \in DOMAIN chain : chain[i].input = Candidate.input}
        first == IF from = {} THEN 1 ELSE CHOOSE i \in from : \A j \in from : i <= j
    IN IF place = 1 \/ Candidate.input = Current THEN <<>> ELSE SubSeq(chain, first, Len(chain))

Plan ==
    /\ step = "work" /\ \A u \in Range(Waves[waveNo]) : units[u].behind = Attempts
    /\ IF Candidate.ref # "checkpoints" THEN step' = "candidate" ELSE step' = "fetch"
    /\ UNCHANGED <<commits, slots, waveNo, units, chain, place, mergeResult, interruptions>>

\* The integrations are fetched in order, those that the slot does not have, each
\* one into a repository that has its input.
CanFetch(held, i) ==
    \/ CurrentAncestry[i].output \in held
    \/ CurrentAncestry[i].input \in held \cup {CurrentAncestry[j].output : j \in 1..i - 1}

FetchAncestry ==
    /\ step = "fetch"
    /\ IF CurrentAncestry # <<>> /\ Here.repository # "ready" THEN Stop("fence")
       ELSE IF \E i \in DOMAIN CurrentAncestry : ~CanFetch(Here.holds, i) THEN Stop("ancestry")
       ELSE /\ slots' = [slots EXCEPT ![SlotOf(Unit)].holds =
                           @ \cup {CurrentAncestry[i].output : i \in DOMAIN CurrentAncestry}]
            /\ step' = "merge"
            /\ UNCHANGED <<commits, waveNo, units, chain, place, mergeResult, interruptions>>

\* A three-way merge of trees, path by path.
Conflicts(base, left, right) ==
    \E p \in Paths : left[p] # base[p] /\ right[p] # base[p] /\ left[p] # right[p]
Merge(base, left, right) ==
    [p \in Paths |-> IF left[p] = base[p] THEN right[p] ELSE left[p]]

\* Whether a is seen to be behind d by one who holds these commits.
Sees(held, a, d) == IsAncestor(a, d) /\ ReachesBase(held, d)

\* Mutant of MergeBase: the candidate's input for every merge.
AlwaysInput(held) == Candidate.input

\* The commit two diverged trees are merged over.
MergeBase(held) == IF Sees(held, Candidate.input, Current) THEN Candidate.input ELSE Source

\* The candidate has everything that is in the head.
BuildsOnHead(held) == Candidate.input = Current \/ Sees(held, Current, Candidate.input)

TreeOf(c) == commits[c].tree
OverBase(held) == Merge(TreeOf(MergeBase(held)), TreeOf(Current), TreeOf(Candidate.output))
Integrated(tree) == [tree |-> tree, past |-> Line(Current), by |-> "integration"]

Produce(tree, base) ==
    /\ commits' = Written(Integrated(tree))
    /\ mergeResult' = [state |-> "integrated", base |-> base, output |-> PlaceOf(Integrated(tree))]
    /\ slots' = [slots EXCEPT ![SlotOf(Unit)].holds = @ \cup {Current, PlaceOf(Integrated(tree))}]
    /\ step' = "inspect"
    /\ UNCHANGED <<waveNo, units, chain, place, interruptions>>

\* The executor reads the objects of its slot, and gives up with a failure that
\* may be tried again when one of them is missing.
Integrate ==
    /\ step = "merge"
    /\ LET held == Here.holds
           base == MergeBase(held)
       IN IF ~ReachesBase(held, Candidate.input) \/ ~ReachesBase(held, Current) THEN Stop("missing")
          ELSE IF Candidate.output = Current THEN Produce(TreeOf(Current), 0)
          ELSE IF BuildsOnHead(held) THEN Produce(TreeOf(Candidate.output), 0)
          ELSE IF ~Conflicts(TreeOf(base), TreeOf(Current), TreeOf(Candidate.output))
          THEN Produce(OverBase(held), base)
          ELSE /\ mergeResult' = [NoMerge EXCEPT !.state = "conflict", !.base = base]
               /\ step' = "conflict"
               /\ UNCHANGED <<commits, slots, waveNo, units, chain, place, interruptions>>

\* What the supervisor has to work with: the candidate's bundle and those of
\* the integrations it was planned with.
SealedCommits == Line(Candidate.output) \cup
          UNION {{CurrentAncestry[i].input, CurrentAncestry[i].output} : i \in DOMAIN CurrentAncestry}

\* The tree the supervisor computes from them.
Recomputed ==
    IF Candidate.output = Current THEN TreeOf(Current)
    ELSE IF BuildsOnHead(SealedCommits) THEN TreeOf(Candidate.output)
    ELSE OverBase(SealedCommits)

\* Integrations that lead from one commit to another without a gap.
IsLine(edges, from, to) ==
    /\ edges[1].input = from /\ Last(edges).output = to
    /\ \A i \in 1..Len(edges) - 1 : edges[i].output = edges[i + 1].input

\* The integrations must be exactly those the merge needs: none when the
\* candidate builds on the head, else a line that ends at the head and starts at
\* the candidate's input, or at the base when that is not on it.
ProofFits ==
    /\ Current \in SealedCommits /\ ReachesBase(SealedCommits, Current)
    /\ (Candidate.output = Current \/ BuildsOnHead(SealedCommits)) <=> (CurrentAncestry = <<>>)
    /\ CurrentAncestry # <<>> =>
           IsLine(CurrentAncestry,
                  IF Sees(SealedCommits, Candidate.input, Current) THEN Candidate.input ELSE Source,
                  Current)

NextTurn ==
    IF place < Len(Waves[waveNo])
    THEN place' = place + 1 /\ step' = "work" /\ UNCHANGED waveNo
    ELSE IF waveNo < Len(Waves)
    THEN waveNo' = waveNo + 1 /\ place' = 1 /\ step' = "work"
    ELSE step' = "done" /\ UNCHANGED <<waveNo, place>>

Inspect ==
    /\ step = "inspect"
    /\ IF ~ProofFits \/ commits[mergeResult.output] # Integrated(Recomputed) THEN Stop("mismatch")
       ELSE /\ chain' = Append(chain, [input |-> Current, output |-> mergeResult.output])
            /\ mergeResult' = NoMerge
            /\ NextTurn
            /\ UNCHANGED <<commits, slots, units, interruptions>>

-----------------------------------------------------------------------------

CheckpointNext ==
    \/ \E s \in PoolSlot : CloneInterrupted(s)
    \/ \E u \in AllUnits : Attempt(u)
    \/ Plan \/ FetchAncestry \/ Integrate \/ Inspect

CheckpointSpec == CheckpointInit /\ [][CheckpointNext]_checkpointVars
FairCheckpointSpec == CheckpointSpec /\ WF_checkpointVars(CheckpointNext)

-----------------------------------------------------------------------------
(* Properties                                                              *)

\* How many units are integrated before a wave begins.
UnitsBefore(w) == Cardinality(UNION {Range(Waves[v]) : v \in 1..w - 1})

\* What a plan needs of its pool: where a unit of a later wave is to start, a unit
\* of an earlier wave was integrated, and at most two were after it in other slots.
\* What the unit starts on is the bundle of the last integration, which brings that
\* one and its input into a repository that must be there.  The code does not see to
\* it: a slot is a place in the plan modulo the size of the pool.
PlanFits ==
    \A w \in 2..Len(Waves) : \A u \in Range(Waves[w]) :
        \E v \in 1..w - 1 : \E p \in DOMAIN Waves[v] :
            SlotOf(Waves[v][p]) = SlotOf(u) /\ UnitsBefore(v) + p + 2 >= UnitsBefore(w)

\* The head of the run when the units of the wave began.
WaveStart ==
    LET before == Len(chain) - (place - 1)
    IN IF before = 0 THEN Source ELSE chain[before].output

\* The tree that has what the unit changed, and elsewhere what the head has.
Wanted ==
    [p \in Paths |-> IF TreeOf(Candidate.output)[p] # TreeOf(WaveStart)[p]
                     THEN TreeOf(Candidate.output)[p] ELSE TreeOf(Current)[p]]

\* Every sandbox of a plan that fits its pool has what it is asked to work with: no
\* attempt and no integration fails for a commit that is not in its slot, or for a
\* slot without a repository.
NothingIsMissing == step \notin {"fence", "missing", "ancestry"}

\* The supervisor accepts what an executor that keeps to the protocol makes: they
\* compute the same tree over the same base from different sets of commits.
ResultIsAccepted == step # "mismatch"

\* A merge keeps both sides, whether the unit is the first of its wave, or of
\* the first wave, or stands on the head it began with.
MergedKeepsBoth ==
    step = "inspect" /\ (waveNo = 1 \/ place = 1 \/ Candidate.input = WaveStart) =>
        TreeOf(mergeResult.output) = Wanted

\* "Divergent unit branches meet only at the stable checkpoint base"
\* (kernel-checkpoint-bundle.ts:513): where the base is what two trees are merged
\* over, they have no later commit in common.
DivergentBranchesMeetAtBase ==
    step = "inspect" /\ mergeResult.base = Source =>
        Line(Current) \cap Line(Candidate.output) = {Source}

\* What a plan comes to whose clones are interrupted finitely often: its end, a
\* conflict, or a unit that changed nothing in a later wave, which is planned on
\* an integration's checkpoint and refused for it.
PlanIsIntegrated == step \in {"done", "conflict", "candidate"}

\* The checkpoints of a wave meet in one merge: every commit a sandbox is asked for
\* is there, its result is the one that is accepted, and both sides of a merge are
\* in it.
CheckpointSafe ==
    /\ NothingIsMissing
    /\ ResultIsAccepted
    /\ MergedKeepsBoth
=============================================================================
