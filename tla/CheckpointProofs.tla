-------------------------- MODULE CheckpointProofs --------------------------
(***************************************************************************)
(* Proofs about the checkpoints of a structured plan: every commit that a  *)
(* sandbox is asked for is in its slot, the supervisor accepts what the    *)
(* executor made, and a merge has both of its sides.                       *)
(***************************************************************************)
EXTENDS CheckpointIntegration, FiniteSetTheorems, SequenceTheorems, TLAPS

(***************************************************************************)
(* For any waves, pool and trees.  The integrations are one line of        *)
(* commits from the source to the head.  A unit's commits branch off that  *)
(* line where its wave began, and those of the attempts are on no other    *)
(* line: so which commit two trees are merged over is read off the place   *)
(* in the wave and the candidate's input, and whoever has the candidate's  *)
(* line and the integrations after it reads the same.  The executor has    *)
(* them in its slot, the supervisor in the bundles.  The invariant keeps   *)
(* apart what holds of commits, integrations and units (PlanHolds) and     *)
(* what the slots have of them (SlotsHold).                                *)
(***************************************************************************)

\* Where the units of a wave start.
StartOf(w) == IF UnitsBefore(w) = 0 THEN Source ELSE chain[UnitsBefore(w)].output

\* Everything is behind what was made of it, and the first commit behind everything.
HistoryHolds ==
    /\ Source \in Commits /\ commits[Source].past = {} /\ commits[Source].by = "source"
    /\ \A c \in Commits :
        /\ Source \in Line(c)
        /\ \A d \in commits[c].past : commits[d].past \subseteq commits[c].past

\* The integrations are one line that starts at the source.
ChainHolds ==
    \A i \in DOMAIN chain :
        /\ chain[i].input = IF i = 1 THEN Source ELSE chain[i - 1].output
        /\ commits[chain[i].output].by = "integration"
        /\ commits[chain[i].output].past = {Source} \cup {chain[j].output : j \in 1..i - 1}

Merging == {"fetch", "merge", "inspect"}

\* The units before the place of the wave are integrated, and the wave is worked
\* through before the first of it is; the units of later waves are untouched.
WaveHolds ==
    /\ Len(chain) = UnitsBefore(waveNo) + place - (IF step = "done" THEN 0 ELSE 1)
    /\ place > 1 \/ step \in Merging =>
           \A u \in Range(Waves[waveNo]) : units[u].behind = Attempts
    /\ step \in Merging => Candidate.ref = "checkpoints"
    /\ \A w \in waveNo + 1..Len(Waves) : \A u \in Range(Waves[w]) :
           units[u] = [behind |-> 0, on |-> NoCheckpoint]

\* What an attempt has made: nothing, or a commit whose way back to where the unit
\* started is through attempts.
Branch(c) ==
    /\ c.ref = "checkpoints" /\ {c.input, c.output} \subseteq Commits
    /\ \/ waveNo = 1 /\ c.input = Source /\ c.output = Source
       \/ /\ commits[c.output].by = "attempt" /\ commits[c.output].past = Line(c.input)
          /\ StartOf(waveNo) \in Line(c.input)
          /\ c.input = StartOf(waveNo) \/ commits[c.input].by = "attempt"
          /\ \A d \in Line(c.input) : d \in Line(StartOf(waveNo)) \/ commits[d].by = "attempt"

\* Where a unit stands: nowhere, on what the wave started on, or on its branch.
UnitHolds(u) ==
    /\ units[u].behind = 0 => units[u].on = NoCheckpoint
    /\ units[u].behind > 0 =>
         \/ /\ waveNo > 1 /\ units[u].on.ref = "integrations"
            /\ units[u].on.output = StartOf(waveNo)
            /\ units[u].on.input = chain[UnitsBefore(waveNo)].input
         \/ Branch(units[u].on)

UnitsHold == \A u \in Range(Waves[waveNo]) : UnitHolds(u)

\* A slot has the line of whatever its units stand on, and of what was integrated
\* in it.
StandsOn(u) ==
    IF units[u].on.ref = "integrations" THEN units[u].on.output ELSE units[u].on.input
UnitInSlot(u) ==
    units[u].behind > 0 =>
        /\ slots[SlotOf(u)].repository = "ready"
        /\ Line(StandsOn(u)) \subseteq slots[SlotOf(u)].holds
TurnInSlot(w, p) ==
    UnitsBefore(w) + p <= Len(chain) =>
        /\ slots[SlotOf(Waves[w][p])].repository = "ready"
        /\ Line(chain[UnitsBefore(w) + p].output) \subseteq slots[SlotOf(Waves[w][p])].holds

SlotsHold ==
    /\ \A u \in Range(Waves[waveNo]) : UnitInSlot(u)
    /\ \A w \in DOMAIN Waves : \A p \in DOMAIN Waves[w] : TurnInSlot(w, p)

\* The first of the integrations that the merge needs, the base of the merge and its
\* tree, whoever makes it.
AncestryStart ==
    IF Candidate.input = StartOf(waveNo) THEN UnitsBefore(waveNo) + 1 ELSE 1
TheBase == IF Candidate.input = StartOf(waveNo) THEN StartOf(waveNo) ELSE Source
TheTree ==
    IF Candidate.output = Current THEN TreeOf(Current)
    ELSE IF place = 1 THEN TreeOf(Candidate.output)
    ELSE Merge(TreeOf(TheBase), TreeOf(Current), TreeOf(Candidate.output))
NoConflict ==
    place = 1 \/ ~Conflicts(TreeOf(TheBase), TreeOf(Current), TreeOf(Candidate.output))

\* What was fetched and merged.
MergeHolds ==
    /\ step = "merge" => \A i \in DOMAIN CurrentAncestry : CurrentAncestry[i].output \in Here.holds
    /\ step = "inspect" =>
        /\ mergeResult.output \in Commits
        /\ commits[mergeResult.output] = Integrated(TheTree) /\ NoConflict
        /\ Line(mergeResult.output) \subseteq Here.holds

\* The parts that speak of commits, of integrations and of units, and not of slots.
PlanHolds == CheckpointTypeOK /\ HistoryHolds /\ ChainHolds /\ WaveHolds /\ UnitsHold

CheckpointIInv == PlanHolds /\ SlotsHold /\ MergeHolds /\ ResultIsAccepted

-----------------------------------------------------------------------------
LEMMA ElementsOfSeq ==
  ASSUME NEW R, NEW s \in Seq(R)
  PROVE  DOMAIN s = 1..Len(s) /\ Len(s) \in Nat /\ \A i \in 1..Len(s) : s[i] \in R
OBVIOUS

\* How many units are integrated before a wave.

LEMMA WavesAre ==
  /\ Len(Waves) \in Nat \ {0} /\ DOMAIN Waves = 1..Len(Waves)
  /\ \A w \in 1..Len(Waves) :
       /\ Len(Waves[w]) \in Nat \ {0} /\ DOMAIN Waves[w] = 1..Len(Waves[w])
       /\ Range(Waves[w]) = {Waves[w][p] : p \in 1..Len(Waves[w])}
       /\ \A p \in 1..Len(Waves[w]) : Waves[w][p] \in Nat \ {0}
       /\ Range(Waves[w]) \subseteq AllUnits
<1>1. Len(Waves) \in Nat \ {0} /\ DOMAIN Waves = 1..Len(Waves)
      /\ \A w \in 1..Len(Waves) : Waves[w] \in Seq(Nat \ {0})
  BY WavesAssumption
<1>2. ASSUME NEW w \in 1..Len(Waves)
      PROVE  /\ Len(Waves[w]) \in Nat \ {0} /\ DOMAIN Waves[w] = 1..Len(Waves[w])
             /\ \A p \in 1..Len(Waves[w]) : Waves[w][p] \in Nat \ {0}
  <2>1. Waves[w] # <<>> /\ Waves[w] \in Seq(Nat \ {0})
    BY <1>1, WavesAssumption
  <2> QED
    BY <2>1
<1> QED
  BY <1>1, <1>2 DEF Range, AllUnits

LEMMA WaveIsFinite ==
  ASSUME NEW w \in 1..Len(Waves)
  PROVE  IsFiniteSet(Range(Waves[w])) /\ Cardinality(Range(Waves[w])) = Len(Waves[w])
<1> DEFINE n == Len(Waves[w])
<1> DEFINE f == [p \in 1..n |-> Waves[w][p]]
<1>1. n \in Nat /\ Range(Waves[w]) = {Waves[w][p] : p \in 1..n}
      /\ w \in DOMAIN Waves /\ DOMAIN Waves[w] = 1..n
  BY WavesAre
<1>2. ASSUME NEW p \in 1..n, NEW q \in 1..n, Waves[w][p] = Waves[w][q] PROVE p = q
  <2>1. w \in DOMAIN Waves /\ p \in DOMAIN Waves[w] /\ q \in DOMAIN Waves[w]
    BY <1>1
  <2> QED
    BY <2>1, <1>2, WavesAssumption
<1>3. f \in Bijection(1..n, Range(Waves[w]))
  <2>1. f \in [1..n -> Range(Waves[w])]
    BY <1>1
  <2>2. \A a, b \in 1..n : f[a] = f[b] => a = b
    BY <1>2
  <2>3. \A t \in Range(Waves[w]) : \E s \in 1..n : f[s] = t
    BY <1>1
  <2> QED
    BY <2>1, <2>2, <2>3 DEF Bijection, Injection, Surjection, IsInjective
<1>4. IsFiniteSet(1..n) /\ Cardinality(1..n) = n
  <2>1. 1 \in Int /\ n \in Int /\ ~(1 > n)
    BY WavesAre
  <2>2. IsFiniteSet(1..n) /\ Cardinality(1..n) = IF 1 > n THEN 0 ELSE n - 1 + 1
    <3> HIDE DEF n
    <3> QED  BY <2>1, FS_Interval
  <2> QED
    BY <2>1, <2>2
<1> QED
  BY <1>3, <1>4, FS_Bijection DEF ExistsBijection

LEMMA UnitsBeforeIs ==
  /\ UnitsBefore(1) = 0
  /\ \A w \in 1..Len(Waves) + 1 : UnitsBefore(w) \in Nat
  /\ \A w \in 1..Len(Waves) : UnitsBefore(w + 1) = UnitsBefore(w) + Len(Waves[w])
  /\ \A v, w \in 1..Len(Waves) : v < w => UnitsBefore(v) + Len(Waves[v]) <= UnitsBefore(w)
<1> DEFINE U(w) == UNION {Range(Waves[v]) : v \in 1..w - 1}
<1>1. ASSUME NEW w \in 1..Len(Waves) + 1
      PROVE  IsFiniteSet(U(w)) /\ UnitsBefore(w) = Cardinality(U(w)) /\ UnitsBefore(w) \in Nat
  <2> DEFINE S == {Range(Waves[v]) : v \in 1..w - 1}
  <2>1. w - 1 \in Int /\ 1..w - 1 \subseteq 1..Len(Waves)
    BY WavesAre
  <2>2. IsFiniteSet(1..w - 1)
    BY <2>1, FS_Interval
  <2> DEFINE g == [v \in 1..w - 1 |-> Range(Waves[v])]
  <2>3. g \in Surjection(1..w - 1, S)
    BY DEF Surjection
  <2>4. IsFiniteSet(S)
    <3> HIDE DEF S, g
    <3> QED  BY <2>2, <2>3, FS_Surjection
  <2>5. \A T \in S : IsFiniteSet(T)
    BY <2>1, WaveIsFinite
  <2>6. IsFiniteSet(UNION S)
    <3> HIDE DEF S
    <3> QED  BY <2>4, <2>5, FS_UNION
  <2> QED
    BY <2>6, FS_CardinalityType DEF UnitsBefore
<1>2. UnitsBefore(1) = 0
  <2>1. U(1) = {}
    OBVIOUS
  <2> QED
    BY <2>1, FS_EmptySet DEF UnitsBefore
<1>3. ASSUME NEW w \in 1..Len(Waves)
      PROVE  UnitsBefore(w + 1) = UnitsBefore(w) + Len(Waves[w])
  <2>1. w \in 1..Len(Waves) + 1 /\ w + 1 \in 1..Len(Waves) + 1 /\ w \in Nat
    BY WavesAre
  <2>2. U(w + 1) = U(w) \cup Range(Waves[w])
    <3>1. 1..(w + 1) - 1 = (1..w - 1) \cup {w}
      BY <2>1
    <3> QED
      BY <3>1
  <2>3. U(w) \cap Range(Waves[w]) = {}
    <3> SUFFICES ASSUME NEW v \in 1..w - 1, NEW u \in Range(Waves[v]), u \in Range(Waves[w])
                 PROVE  FALSE
      OBVIOUS
    <3>1. v \in 1..Len(Waves) /\ v # w
      BY <2>1
    <3>2. PICK p \in DOMAIN Waves[v] : Waves[v][p] = u
      BY DEF Range
    <3>3. PICK q \in DOMAIN Waves[w] : Waves[w][q] = u
      BY DEF Range
    <3> QED
      BY <3>1, <3>2, <3>3, WavesAre, WavesAssumption
  <2>4. IsFiniteSet(U(w)) /\ UnitsBefore(w) = Cardinality(U(w)) /\ UnitsBefore(w) \in Nat
    BY <2>1, <1>1
  <2>5. UnitsBefore(w + 1) = Cardinality(U(w + 1))
    BY <2>1, <1>1
  <2>6. IsFiniteSet(Range(Waves[w])) /\ Cardinality(Range(Waves[w])) = Len(Waves[w])
    BY WaveIsFinite
  <2>7. Cardinality(U(w) \cup Range(Waves[w]))
          = Cardinality(U(w)) + Cardinality(Range(Waves[w])) - Cardinality(U(w) \cap Range(Waves[w]))
    <3> HIDE DEF U
    <3> QED  BY <2>4, <2>6, FS_Union
  <2>8. Cardinality(U(w) \cap Range(Waves[w])) = 0
    BY <2>3, FS_EmptySet
  <2>9. Len(Waves[w]) \in Nat
    BY WavesAre
  <2>10. UnitsBefore(w + 1) = UnitsBefore(w) + Len(Waves[w]) - 0
    BY <2>2, <2>4, <2>5, <2>6, <2>7, <2>8
  <2> QED
    BY <2>4, <2>9, <2>10
<1>4. ASSUME NEW v \in 1..Len(Waves), NEW w \in 1..Len(Waves), v < w
      PROVE  UnitsBefore(v) + Len(Waves[v]) <= UnitsBefore(w)
  <2>1. v + 1 \in 1..Len(Waves) + 1 /\ w \in 1..Len(Waves) + 1
    BY <1>4, WavesAre
  <2>2. U(v + 1) \subseteq U(w)
    <3>1. 1..(v + 1) - 1 \subseteq 1..w - 1
      BY <1>4, WavesAre
    <3> QED
      BY <3>1
  <2>3. IsFiniteSet(U(w)) /\ UnitsBefore(w) = Cardinality(U(w))
    BY <2>1, <1>1
  <2>4. UnitsBefore(v + 1) = Cardinality(U(v + 1))
    BY <2>1, <1>1
  <2>5. Cardinality(U(v + 1)) <= Cardinality(U(w))
    <3> HIDE DEF U
    <3> QED  BY <2>2, <2>3, FS_Subset
  <2> QED
    BY <2>3, <2>4, <2>5, <1>3
<1> QED
  BY <1>1, <1>2, <1>3, <1>4

LEMMA LaterWavesStartLater ==
  ASSUME NEW w \in 1..Len(Waves)
  PROVE  UnitsBefore(w) = 0 <=> w = 1
BY UnitsBeforeIs, WavesAre

-----------------------------------------------------------------------------
\* What the parts of the invariant say together.

LEMMA SlotIsInThePool ==
  ASSUME NEW u \in Nat \ {0}
  PROVE  SlotOf(u) \in PoolSlot
<1>1. PoolWidth \in Nat \ {0}
  BY CheckpointAssumption
<1> QED
  BY <1>1 DEF SlotOf, PoolSlot

LEMMA CommitsAre ==
  ASSUME CheckpointTypeOK
  PROVE  /\ Len(commits) \in Nat /\ Commits = 1..Len(commits) /\ Commits \subseteq Nat \ {0}
         /\ \A c \in Commits :
              /\ commits[c].tree \in Tree /\ commits[c].past \subseteq Commits
              /\ commits[c].by \in {"source", "attempt", "integration"}
              /\ \A d \in commits[c].past : d < c
              /\ c \notin commits[c].past /\ Line(c) \subseteq Commits
<1> DEFINE R == [tree : Tree, past : SUBSET Commits, by : {"source", "attempt", "integration"}]
<1>1. commits \in Seq(R) /\ \A c \in Commits : \A d \in commits[c].past : d < c
  BY DEF CheckpointTypeOK
<1>2. Len(commits) \in Nat /\ Commits = 1..Len(commits) /\ \A c \in Commits : commits[c] \in R
  <2> HIDE DEF R
  <2> QED  BY <1>1, ElementsOfSeq DEF Commits
<1>3. ASSUME NEW c \in Commits
      PROVE  /\ commits[c].tree \in Tree /\ commits[c].past \subseteq Commits
             /\ commits[c].by \in {"source", "attempt", "integration"}
             /\ c \notin commits[c].past /\ Line(c) \subseteq Commits
  <2>1. /\ commits[c].tree \in Tree /\ commits[c].past \subseteq Commits
        /\ commits[c].by \in {"source", "attempt", "integration"}
    BY <1>2
  <2>2. c \notin commits[c].past
    BY <1>1, <1>2
  <2> QED
    BY <2>1, <2>2 DEF Line
<1> QED
  BY <1>1, <1>2, <1>3

LEMMA ChainTyped ==
  ASSUME CheckpointTypeOK
  PROVE  /\ Len(chain) \in Nat /\ DOMAIN chain = 1..Len(chain)
         /\ \A i \in 1..Len(chain) : chain[i].input \in Commits /\ chain[i].output \in Commits
<1>1. chain \in Seq([input : Commits, output : Commits])
  BY DEF CheckpointTypeOK
<1>2. DOMAIN chain = 1..Len(chain) /\ Len(chain) \in Nat
      /\ \A i \in 1..Len(chain) : chain[i] \in [input : Commits, output : Commits]
  BY <1>1, ElementsOfSeq
<1> QED
  BY <1>2

LEMMA UnitsAre ==
  ASSUME CheckpointTypeOK
  PROVE  /\ waveNo \in 1..Len(Waves) /\ place \in 1..Len(Waves[waveNo]) /\ place \in Nat \ {0}
         /\ Unit \in Range(Waves[waveNo]) /\ Range(Waves[waveNo]) \subseteq AllUnits
         /\ \A u \in AllUnits :
              /\ SlotOf(u) \in PoolSlot /\ units[u].behind \in 0..Attempts
              /\ units[u].on \in [input : 0..Len(commits), output : 0..Len(commits),
                                  ref : {"none", "checkpoints", "integrations"}]
<1>1. /\ waveNo \in 1..Len(Waves) /\ place \in 1..Len(Waves[waveNo])
      /\ units \in [AllUnits -> [behind : 0..Attempts,
                               on : [input : 0..Len(commits), output : 0..Len(commits),
                                     ref : {"none", "checkpoints", "integrations"}]]]
  BY DEF CheckpointTypeOK
<1>2. \A u \in AllUnits : u \in Nat \ {0}
  BY WavesAre DEF AllUnits
<1>3. Unit \in Range(Waves[waveNo]) /\ Range(Waves[waveNo]) \subseteq AllUnits
  BY <1>1, WavesAre DEF Unit
<1>4. place \in Nat \ {0}
  BY <1>1, WavesAre
<1> QED
  BY <1>1, <1>2, <1>3, <1>4, SlotIsInThePool

LEMMA ChainIs ==
  ASSUME CheckpointTypeOK, HistoryHolds, ChainHolds
  PROVE  /\ \A i \in 1..Len(chain) :
              /\ Line(chain[i].output) = {Source} \cup {chain[j].output : j \in 1..i}
              /\ chain[i].output # Source
              /\ \A j \in 1..Len(chain) : j < i => chain[j].output < chain[i].output
         /\ Current \in Commits
         /\ Line(Current) = {Source} \cup {chain[j].output : j \in 1..Len(chain)}
<1>1. /\ Len(chain) \in Nat /\ DOMAIN chain = 1..Len(chain)
      /\ \A i \in 1..Len(chain) : chain[i].input \in Commits /\ chain[i].output \in Commits
  BY ChainTyped
<1>2. ASSUME NEW i \in 1..Len(chain)
      PROVE  /\ Line(chain[i].output) = {Source} \cup {chain[j].output : j \in 1..i}
             /\ chain[i].output # Source
             /\ \A j \in 1..Len(chain) : j < i => chain[j].output < chain[i].output
  <2>1. /\ commits[chain[i].output].past = {Source} \cup {chain[j].output : j \in 1..i - 1}
        /\ commits[chain[i].output].by = "integration"
    BY <1>1 DEF ChainHolds
  <2>2. 1..i = (1..i - 1) \cup {i}
    BY <1>1
  <2>3. Line(chain[i].output) = {Source} \cup {chain[j].output : j \in 1..i}
    BY <2>1, <2>2 DEF Line
  <2>4. chain[i].output # Source
    BY <2>1 DEF HistoryHolds
  <2>5. ASSUME NEW j \in 1..Len(chain), j < i PROVE chain[j].output < chain[i].output
    <3>1. j \in 1..i - 1
      BY <1>1, <2>5
    <3> QED
      BY <1>1, <2>1, <3>1, CommitsAre
  <2> QED
    BY <2>3, <2>4, <2>5
<1>3. CASE chain = <<>>
  BY <1>3, <1>1 DEF Current, HistoryHolds, Line
<1>4. CASE chain # <<>>
  <2>1. Len(chain) \in 1..Len(chain)
    <3>1. Len(chain) # 0
      BY <1>4 DEF CheckpointTypeOK
    <3> QED
      BY <3>1, <1>1
  <2>2. Current = chain[Len(chain)].output
    BY <1>4 DEF Current, Last
  <2> QED
    BY <2>1, <2>2, <1>1, <1>2
<1> QED
  BY <1>2, <1>3, <1>4

LEMMA StartIs ==
  ASSUME CheckpointTypeOK, HistoryHolds, ChainHolds, WaveHolds
  PROVE  /\ UnitsBefore(waveNo) \in 0..Len(chain)
         /\ StartOf(waveNo) \in Commits
         /\ commits[StartOf(waveNo)].by # "attempt"
         /\ waveNo = 1 => StartOf(waveNo) = Source
         /\ Line(StartOf(waveNo)) =
              {Source} \cup {chain[j].output : j \in 1..UnitsBefore(waveNo)}
         /\ step # "done" => WaveStart = StartOf(waveNo)
         /\ step # "done" /\ place = 1 => Current = StartOf(waveNo)
<1>1. /\ waveNo \in 1..Len(Waves) /\ place \in Nat \ {0} /\ Len(chain) \in Nat
      /\ UnitsBefore(waveNo) \in Nat /\ (UnitsBefore(waveNo) = 0 <=> waveNo = 1)
  <2>1. waveNo \in 1..Len(Waves) /\ waveNo \in 1..Len(Waves) + 1
    BY UnitsAre, WavesAre
  <2> QED
    BY <2>1, UnitsAre, ChainTyped, UnitsBeforeIs, LaterWavesStartLater
<1>2. Len(chain) = UnitsBefore(waveNo) + place - (IF step = "done" THEN 0 ELSE 1)
  BY DEF WaveHolds
<1>3. UnitsBefore(waveNo) \in 0..Len(chain)
  BY <1>1, <1>2
<1>4. CASE UnitsBefore(waveNo) = 0
  <2>1. StartOf(waveNo) = Source /\ Line(Source) = {Source}
    BY <1>4 DEF StartOf, HistoryHolds, Line
  <2>2. {chain[j].output : j \in 1..UnitsBefore(waveNo)} = {}
    BY <1>4
  <2>3. step # "done" => WaveStart = Source
    BY <1>1, <1>2, <1>4 DEF WaveStart
  <2>4. step # "done" /\ place = 1 => Current = Source
    <3>1. step # "done" /\ place = 1 => Len(chain) = 0
      BY <1>1, <1>2, <1>4
    <3>2. Len(chain) = 0 => chain = <<>>
      BY DEF CheckpointTypeOK
    <3> QED
      BY <3>1, <3>2 DEF Current
  <2> QED
    BY <1>3, <2>1, <2>2, <2>3, <2>4 DEF HistoryHolds
<1>5. CASE UnitsBefore(waveNo) # 0
  <2> DEFINE k == UnitsBefore(waveNo)
  <2>1. k \in 1..Len(chain) /\ StartOf(waveNo) = chain[k].output
    BY <1>1, <1>3, <1>5 DEF StartOf
  <2>2. StartOf(waveNo) \in Commits /\ commits[StartOf(waveNo)].by = "integration"
    BY <2>1, ChainTyped DEF ChainHolds
  <2>3. Line(StartOf(waveNo)) = {Source} \cup {chain[j].output : j \in 1..k}
    BY <2>1, ChainIs
  <2>4. step # "done" => WaveStart = StartOf(waveNo)
    BY <1>1, <1>2, <2>1 DEF WaveStart
  <2>5. step # "done" /\ place = 1 => Current = StartOf(waveNo)
    <3>1. step # "done" /\ place = 1 => Len(chain) = k /\ chain # <<>>
      BY <1>1, <1>2, <2>1
    <3> QED
      BY <3>1, <2>1 DEF Current, Last
  <2> QED
    BY <1>1, <1>3, <1>5, <2>2, <2>3, <2>4, <2>5
<1> QED
  BY <1>4, <1>5

-----------------------------------------------------------------------------
\* The merge.

LEMMA CandidateIs ==
  ASSUME PlanHolds, step \in Merging
  PROVE  Branch(Candidate)
<1>1. Unit \in Range(Waves[waveNo])
  BY UnitsAre DEF PlanHolds
<1>2. units[Unit].behind = Attempts /\ Attempts \in Nat \ {0} /\ Candidate.ref = "checkpoints"
  BY <1>1, CheckpointAssumption DEF PlanHolds, WaveHolds
<1> QED
  BY <1>1, <1>2 DEF PlanHolds, UnitsHold, UnitHolds, Candidate

LEMMA CandidateLine ==
  ASSUME PlanHolds, step \in Merging
  PROVE  /\ Candidate.input \in Commits /\ Candidate.output \in Commits
         /\ Line(Candidate.input) \subseteq Line(Candidate.output)
         /\ Candidate.input \in Line(Candidate.output)
         /\ StartOf(waveNo) \in Line(Candidate.input)
         /\ Candidate.input = StartOf(waveNo) \/ commits[Candidate.input].by = "attempt"
         /\ \A d \in Line(Candidate.output) :
              d \in Line(StartOf(waveNo)) \/ commits[d].by = "attempt"
         /\ Candidate.output = Source \/ commits[Candidate.output].by = "attempt"
<1>1. Branch(Candidate) /\ waveNo = 1 => StartOf(waveNo) = Source
  BY CandidateIs, StartIs DEF PlanHolds
<1>2. CASE waveNo = 1 /\ Candidate.input = Source /\ Candidate.output = Source
  BY <1>1, <1>2, StartIs DEF PlanHolds, HistoryHolds, Line
<1>3. CASE ~(waveNo = 1 /\ Candidate.input = Source /\ Candidate.output = Source)
  <2>1. /\ commits[Candidate.output].by = "attempt"
        /\ commits[Candidate.output].past = Line(Candidate.input)
        /\ StartOf(waveNo) \in Line(Candidate.input)
        /\ Candidate.input = StartOf(waveNo) \/ commits[Candidate.input].by = "attempt"
        /\ \A d \in Line(Candidate.input) : d \in Line(StartOf(waveNo)) \/ commits[d].by = "attempt"
        /\ {Candidate.input, Candidate.output} \subseteq Commits
    BY CandidateIs, <1>3 DEF Branch
  <2>2. Line(Candidate.output) = Line(Candidate.input) \cup {Candidate.output}
        /\ Candidate.input \in Line(Candidate.input)
    BY <2>1 DEF Line
  <2> QED
    BY <2>1, <2>2
<1> QED
  BY <1>2, <1>3

LEMMA ChainInputs ==
  ASSUME CheckpointTypeOK, HistoryHolds, ChainHolds,
         NEW i \in 1..Len(chain), NEW j \in 1..Len(chain)
  PROVE  /\ chain[i].input = chain[j].input => i = j
         /\ commits[chain[i].input].by # "attempt"
<1>1. Len(chain) \in Nat /\ i \in DOMAIN chain /\ j \in DOMAIN chain
  BY ChainTyped
<1>2. /\ chain[i].input = IF i = 1 THEN Source ELSE chain[i - 1].output
      /\ chain[j].input = IF j = 1 THEN Source ELSE chain[j - 1].output
  BY <1>1 DEF ChainHolds
<1>3. i # 1 => /\ i - 1 \in 1..Len(chain) /\ chain[i - 1].output # Source
               /\ commits[chain[i - 1].output].by = "integration"
  BY <1>1, ChainTyped, ChainIs DEF ChainHolds
<1>4. j # 1 => j - 1 \in 1..Len(chain) /\ chain[j - 1].output # Source
  BY <1>1, ChainIs
<1>5. i # 1 /\ j # 1 /\ chain[i - 1].output = chain[j - 1].output => i = j
  <2> SUFFICES ASSUME i # 1, j # 1, chain[i - 1].output = chain[j - 1].output, i # j PROVE FALSE
    OBVIOUS
  <2>1. i - 1 < j - 1 \/ j - 1 < i - 1
    BY <1>1
  <2>2. chain[i - 1].output \in Nat
    BY <1>3, ChainTyped, CommitsAre
  <2> QED
    BY <2>1, <2>2, <1>3, <1>4, ChainIs
<1>6. commits[Source].by = "source"
  BY DEF HistoryHolds
<1> QED
  BY <1>2, <1>3, <1>4, <1>5, <1>6

LEMMA FirstOfTheWave ==
  ASSUME PlanHolds, step \in Merging, place = 1
  PROVE  /\ Current = StartOf(waveNo) /\ CurrentAncestry = <<>>
         /\ Current \in Line(Candidate.input)
<1>1. step # "done"
  BY DEF Merging
<1> QED
  BY <1>1, StartIs, CandidateLine DEF PlanHolds, CurrentAncestry

LEMMA AncestryIs ==
  ASSUME PlanHolds, step \in Merging, place > 1
  PROVE  /\ Current \notin Line(Candidate.output)
         /\ Candidate.input \in Line(Current) <=> Candidate.input = StartOf(waveNo)
         /\ AncestryStart \in 1..Len(chain)
         /\ chain[AncestryStart].input =
              IF Candidate.input = StartOf(waveNo) THEN Candidate.input ELSE Source
         /\ CurrentAncestry = SubSeq(chain, AncestryStart, Len(chain))
<1> DEFINE k == UnitsBefore(waveNo)
<1> DEFINE n == Len(chain)
<1>1. n \in Nat /\ k \in 0..n /\ k < n
  <2>1. n = k + place - 1 /\ n \in Nat /\ k \in 0..n /\ place \in Nat
    BY StartIs, ChainTyped, UnitsAre DEF PlanHolds, WaveHolds, Merging
  <2> QED
    BY <2>1
<1>2. Current = chain[n].output /\ n \in 1..n /\ chain # <<>>
  <2>1. chain # <<>>
    BY <1>1
  <2> QED
    BY <1>1, <2>1 DEF Current, Last
<1>3. commits[Current].by = "integration" /\ Current # Source
  BY <1>1, <1>2, ChainTyped, ChainIs DEF PlanHolds, ChainHolds
<1>4. Current \notin Line(StartOf(waveNo))
  <2> SUFFICES ASSUME Current \in Line(StartOf(waveNo)) PROVE FALSE
    OBVIOUS
  <2>1. PICK j \in 1..k : Current = chain[j].output
    BY <1>3, StartIs DEF PlanHolds
  <2>2. j \in 1..n /\ j < n
    BY <1>1
  <2>3. chain[j].output < chain[n].output
    BY <1>2, <2>2, ChainIs DEF PlanHolds
  <2>4. chain[n].output \in Nat
    BY <1>2, ChainTyped, CommitsAre DEF PlanHolds
  <2> QED
    BY <1>2, <2>1, <2>3, <2>4
<1>5. Current \notin Line(Candidate.output)
  BY <1>3, <1>4, CandidateLine
<1>6. Candidate.input \in Line(Current) <=> Candidate.input = StartOf(waveNo)
  <2>1. StartOf(waveNo) \in Line(Current)
    <3>1. StartOf(waveNo) \in Line(StartOf(waveNo))
      BY DEF Line
    <3>2. 1..k \subseteq 1..n
      BY <1>1
    <3> QED
      BY <3>1, <3>2, StartIs, ChainIs DEF PlanHolds
  <2>2. ASSUME NEW d \in Line(Current) PROVE commits[d].by # "attempt"
    <3>1. commits[Source].by = "source"
      BY DEF PlanHolds, HistoryHolds
    <3>2. \A j \in 1..Len(chain) : commits[chain[j].output].by = "integration"
      BY ChainTyped DEF PlanHolds, ChainHolds
    <3>3. d = Source \/ \E j \in 1..Len(chain) : d = chain[j].output
      BY ChainIs DEF PlanHolds
    <3> QED
      BY <3>1, <3>2, <3>3
  <2> QED
    BY <2>1, <2>2, CandidateLine
<1>7. Candidate.input # Current
  BY <1>5, CandidateLine
<1>8. CASE Candidate.input = StartOf(waveNo)
  <2>1. k + 1 \in 1..n /\ AncestryStart = k + 1
    BY <1>1, <1>8 DEF AncestryStart
  <2>2. chain[k + 1].input = StartOf(waveNo)
    BY <1>1, <2>1, ChainTyped DEF PlanHolds, ChainHolds, StartOf
  <2>3. {i \in DOMAIN chain : chain[i].input = Candidate.input} = {k + 1}
    <3>1. DOMAIN chain = 1..n
      BY ChainTyped DEF PlanHolds
    <3>2. \A i \in 1..n : chain[i].input = Candidate.input => i = k + 1
      BY <1>8, <2>1, <2>2, ChainInputs DEF PlanHolds
    <3> QED
      BY <1>8, <2>1, <2>2, <3>1, <3>2
  <2>4. (CHOOSE i \in {k + 1} : \A j \in {k + 1} : i <= j) = k + 1
    BY <1>1
  <2>5. CurrentAncestry = SubSeq(chain, k + 1, n)
    BY <1>7, <2>3, <2>4 DEF CurrentAncestry
  <2> QED
    BY <1>5, <1>6, <1>8, <2>1, <2>2, <2>5
<1>9. CASE Candidate.input # StartOf(waveNo)
  <2>1. commits[Candidate.input].by = "attempt" /\ AncestryStart = 1 /\ 1 \in 1..n
    BY <1>1, <1>9, CandidateLine DEF AncestryStart
  <2>2. {i \in DOMAIN chain : chain[i].input = Candidate.input} = {}
    BY <2>1, ChainTyped, ChainInputs DEF PlanHolds
  <2>3. CurrentAncestry = SubSeq(chain, 1, n)
    BY <1>7, <2>2 DEF CurrentAncestry
  <2>4. chain[1].input = Source
    BY <2>1, ChainTyped DEF PlanHolds, ChainHolds
  <2> QED
    BY <1>5, <1>6, <1>9, <2>1, <2>3, <2>4
<1> QED
  BY <1>8, <1>9

LEMMA AncestryEdges ==
  ASSUME PlanHolds, step \in Merging, place > 1
  PROVE  /\ CurrentAncestry # <<>>
         /\ Len(CurrentAncestry) = Len(chain) - AncestryStart + 1
         /\ DOMAIN CurrentAncestry = 1..Len(CurrentAncestry)
         /\ Len(CurrentAncestry) \in Nat \ {0}
         /\ \A i \in 1..Len(CurrentAncestry) :
              /\ AncestryStart + i - 1 \in 1..Len(chain)
              /\ CurrentAncestry[i] = chain[AncestryStart + i - 1]
<1> DEFINE m == AncestryStart
<1> DEFINE n == Len(chain)
<1>1. m \in 1..n /\ n \in Nat /\ CurrentAncestry = SubSeq(chain, m, n)
  BY AncestryIs, ChainTyped DEF PlanHolds
<1>2. \A i \in m..n : chain[i] \in Range(chain)
  BY <1>1, ChainTyped DEF PlanHolds, Range
<1>3. /\ SubSeq(chain, m, n) \in Seq(Range(chain))
      /\ Len(SubSeq(chain, m, n)) = n - m + 1
      /\ \A i \in 1..(n - m + 1) : SubSeq(chain, m, n)[i] = chain[m + i - 1]
  <2>1. m \in Int /\ n \in Int /\ m <= n
    BY <1>1
  <2>2. /\ SubSeq(chain, m, n) \in Seq(Range(chain))
        /\ Len(SubSeq(chain, m, n)) = IF m <= n THEN n - m + 1 ELSE 0
        /\ \A i \in 1..n - m + 1 : SubSeq(chain, m, n)[i] = chain[m + i - 1]
    <3> HIDE DEF m, n
    <3> QED  BY <2>1, <1>2, SubSeqProperties
  <2> QED
    BY <2>1, <2>2
<1>4. DOMAIN CurrentAncestry = 1..Len(CurrentAncestry)
  BY <1>1, <1>3
<1>5. Len(CurrentAncestry) = n - m + 1 /\ n - m + 1 \in Nat \ {0}
  BY <1>1, <1>3
<1>6. CurrentAncestry # <<>>
  BY <1>5
<1>7. ASSUME NEW i \in 1..Len(CurrentAncestry)
      PROVE  m + i - 1 \in 1..n /\ CurrentAncestry[i] = chain[m + i - 1]
  BY <1>1, <1>3, <1>5
<1> QED
  BY <1>4, <1>5, <1>6, <1>7

LEMMA AncestryOutputs ==
  ASSUME PlanHolds, step \in Merging, place > 1
  PROVE  /\ {CurrentAncestry[i].output : i \in DOMAIN CurrentAncestry}
              = {chain[j].output : j \in AncestryStart..Len(chain)}
         /\ {CurrentAncestry[i].output : i \in DOMAIN CurrentAncestry} \subseteq Commits
<1> DEFINE m == AncestryStart
<1> DEFINE n == Len(chain)
<1>1. m \in 1..n /\ n \in Nat
  BY AncestryIs, ChainTyped DEF PlanHolds
<1>2. ASSUME NEW j \in m..n
      PROVE  \E i \in DOMAIN CurrentAncestry : CurrentAncestry[i].output = chain[j].output
  <2>1. j - m + 1 \in DOMAIN CurrentAncestry /\ m + (j - m + 1) - 1 = j
    BY <1>1, AncestryEdges
  <2> QED
    BY <2>1, AncestryEdges
<1>3. ASSUME NEW i \in DOMAIN CurrentAncestry
      PROVE  m + i - 1 \in m..n /\ CurrentAncestry[i].output = chain[m + i - 1].output
             /\ chain[m + i - 1].output \in Commits
  BY <1>1, AncestryEdges, ChainTyped DEF PlanHolds
<1> QED
  BY <1>2, <1>3

\* Whoever has the candidate's line and the integrations has the line of the head.
LEMMA ReachesTheHead ==
  ASSUME PlanHolds, step \in Merging, NEW held,
         Line(Candidate.input) \subseteq held,
         \A i \in DOMAIN CurrentAncestry : CurrentAncestry[i].output \in held
  PROVE  ReachesBase(held, Current) /\ ReachesBase(held, Candidate.input)
<1>1. /\ Line(Current) = {Source} \cup {chain[j].output : j \in 1..Len(chain)}
      /\ Line(StartOf(waveNo)) = {Source} \cup {chain[j].output : j \in 1..UnitsBefore(waveNo)}
      /\ UnitsBefore(waveNo) \in Nat /\ Len(chain) \in Nat /\ place \in Nat \ {0}
  BY ChainIs, StartIs, ChainTyped, UnitsAre DEF PlanHolds
<1>2. /\ StartOf(waveNo) \in Line(Candidate.input)
      /\ Source \in Line(Candidate.input)
      /\ Line(StartOf(waveNo)) \subseteq Line(Candidate.input)
  BY CandidateLine DEF PlanHolds, HistoryHolds, Line
<1>3. CASE place = 1
  BY <1>2, <1>3, FirstOfTheWave DEF ReachesBase
<1>4. CASE place > 1
  <2>1. AncestryStart \in 1..Len(chain)
        /\ {chain[j].output : j \in AncestryStart..Len(chain)} \subseteq held
    BY <1>4, AncestryIs, AncestryOutputs
  <2>2. AncestryStart = UnitsBefore(waveNo) + 1 \/ AncestryStart = 1
    BY DEF AncestryStart
  <2>3. ASSUME NEW j \in 1..Len(chain) PROVE chain[j].output \in held
    <3>1. CASE j \in AncestryStart..Len(chain)
      BY <2>1, <3>1
    <3>2. CASE j \notin AncestryStart..Len(chain)
      <4>1. j \in 1..UnitsBefore(waveNo)
        BY <1>1, <2>1, <2>2, <3>2
      <4> QED
        BY <4>1, <1>1, <1>2
    <3> QED
      BY <3>1, <3>2
  <2> QED
    BY <1>1, <1>2, <2>3 DEF ReachesBase
<1> QED
  BY <1>1, <1>3, <1>4

LEMMA Agreement ==
  ASSUME PlanHolds, step \in Merging, NEW held,
         Line(Candidate.input) \subseteq held,
         \A i \in DOMAIN CurrentAncestry : CurrentAncestry[i].output \in held
  PROVE  /\ BuildsOnHead(held) <=> place = 1
         /\ place > 1 => /\ MergeBase(held) = TheBase
                         /\ Sees(held, Candidate.input, Current)
                              <=> Candidate.input = StartOf(waveNo)
                         /\ Candidate.output # Current
<1>1. ReachesBase(held, Current) /\ ReachesBase(held, Candidate.input)
  BY ReachesTheHead
<1>2. place \in Nat \ {0}
  BY UnitsAre DEF PlanHolds
<1>3. CASE place = 1
  BY <1>1, <1>3, FirstOfTheWave DEF BuildsOnHead, Sees, IsAncestor
<1>4. CASE place > 1
  <2>1. /\ Current \notin Line(Candidate.output)
        /\ Candidate.input \in Line(Current) <=> Candidate.input = StartOf(waveNo)
    BY <1>4, AncestryIs
  <2>2. Current \notin Line(Candidate.input) /\ Candidate.input # Current /\ Candidate.output # Current
    BY <2>1, CandidateLine DEF Line
  <2>3. ~BuildsOnHead(held)
    BY <2>2 DEF BuildsOnHead, Sees, IsAncestor
  <2>4. Sees(held, Candidate.input, Current) <=> Candidate.input = StartOf(waveNo)
    BY <1>1, <2>1 DEF Sees, IsAncestor
  <2> QED
    BY <1>4, <2>2, <2>3, <2>4 DEF MergeBase, TheBase
<1> QED
  BY <1>2, <1>3, <1>4

\* The supervisor has them.
LEMMA SealedIsEnough ==
  ASSUME PlanHolds, step \in Merging
  PROVE  /\ Line(Candidate.input) \subseteq SealedCommits
         /\ \A i \in DOMAIN CurrentAncestry : CurrentAncestry[i].output \in SealedCommits
BY CandidateLine DEF SealedCommits

LEMMA SupervisorComputes ==
  ASSUME PlanHolds, step \in Merging
  PROVE  Recomputed = TheTree
<1>1. place \in Nat \ {0}
  BY UnitsAre DEF PlanHolds
<1>2. /\ BuildsOnHead(SealedCommits) <=> place = 1
      /\ place > 1 => MergeBase(SealedCommits) = TheBase
  BY SealedIsEnough, Agreement
<1> QED
  BY <1>1, <1>2 DEF Recomputed, TheTree, OverBase

LEMMA TheProofFits ==
  ASSUME PlanHolds, step \in Merging
  PROVE  ProofFits
<1> DEFINE S == SealedCommits
<1>1. place \in Nat \ {0} /\ Current \in Line(Current)
  BY UnitsAre DEF PlanHolds, Line
<1>2. /\ BuildsOnHead(S) <=> place = 1
      /\ place > 1 => /\ Sees(S, Candidate.input, Current)
                              <=> Candidate.input = StartOf(waveNo)
                      /\ Candidate.output # Current
  BY SealedIsEnough, Agreement
<1>3. ReachesBase(S, Current)
  BY SealedIsEnough, ReachesTheHead
<1>4. Current \in S
  BY <1>1, <1>3 DEF ReachesBase
<1>5. CASE place = 1
  BY <1>2, <1>3, <1>4, <1>5, FirstOfTheWave DEF ProofFits
<1>6. CASE place > 1
  <2> DEFINE edges == CurrentAncestry
  <2>1. /\ edges # <<>> /\ Len(edges) \in Nat \ {0}
        /\ \A i \in 1..Len(edges) :
             /\ AncestryStart + i - 1 \in 1..Len(chain)
             /\ edges[i] = chain[AncestryStart + i - 1]
        /\ Len(edges) = Len(chain) - AncestryStart + 1
        /\ AncestryStart \in 1..Len(chain) /\ Len(chain) \in Nat
    BY <1>6, AncestryEdges, AncestryIs, ChainTyped DEF PlanHolds
  <2>2. edges[1].input = IF Candidate.input = StartOf(waveNo) THEN Candidate.input ELSE Source
    <3>1. edges[1] = chain[AncestryStart]
      <4>1. AncestryStart + 1 - 1 = AncestryStart /\ 1 \in 1..Len(edges)
        BY <2>1
      <4> QED
        BY <2>1, <4>1
    <3> QED
      BY <3>1, <1>6, AncestryIs
  <2>3. Last(edges).output = Current
    <3>1. AncestryStart + Len(edges) - 1 = Len(chain) /\ Len(edges) \in 1..Len(edges)
      BY <2>1
    <3>2. chain # <<>>
      BY <2>1
    <3> QED
      BY <2>1, <3>1, <3>2 DEF Last, Current
  <2>4. ASSUME NEW i \in 1..Len(edges) - 1 PROVE edges[i].output = edges[i + 1].input
    <3> DEFINE j == AncestryStart + i - 1
    <3>1. i \in 1..Len(edges) /\ i + 1 \in 1..Len(edges)
          /\ AncestryStart + (i + 1) - 1 = j + 1 /\ j + 1 # 1 /\ (j + 1) - 1 = j
      BY <2>1
    <3>2. edges[i] = chain[j] /\ edges[i + 1] = chain[j + 1] /\ j + 1 \in DOMAIN chain
      BY <2>1, <3>1, ChainTyped DEF PlanHolds
    <3>3. chain[j + 1].input = chain[j].output
      BY <3>1, <3>2 DEF PlanHolds, ChainHolds
    <3> QED
      BY <3>2, <3>3
  <2> HIDE DEF edges
  <2>5. IsLine(edges,
               IF Sees(S, Candidate.input, Current) THEN Candidate.input ELSE Source, Current)
    BY <1>2, <1>6, <2>2, <2>3, <2>4 DEF IsLine
  <2> QED
    BY <1>2, <1>3, <1>4, <1>6, <2>1, <2>5 DEF ProofFits, edges
<1> QED
  BY <1>1, <1>5, <1>6

\* The tree keeps both sides, where the base is where the wave began.
LEMMA BothAreKept ==
  ASSUME PlanHolds, step \in Merging,
         place = 1 \/ TheBase = StartOf(waveNo),
         NoConflict
  PROVE  TheTree = Wanted
<1>1. WaveStart = StartOf(waveNo) /\ (place = 1 => Current = StartOf(waveNo))
  BY StartIs DEF PlanHolds, Merging
<1>2. /\ TreeOf(Current) \in Tree /\ TreeOf(Candidate.output) \in Tree
      /\ TreeOf(StartOf(waveNo)) \in Tree
  BY CandidateLine, ChainIs, StartIs, CommitsAre DEF PlanHolds, TreeOf
<1>3. CASE place = 1
  <2>1. TheTree = TreeOf(Candidate.output)
    BY <1>3 DEF TheTree
  <2>2. Wanted = [p \in Paths |-> TreeOf(Candidate.output)[p]]
    BY <1>1, <1>3 DEF Wanted
  <2> QED
    BY <1>2, <2>1, <2>2 DEF Tree
<1>4. CASE place # 1
  <2>1. Candidate.output # Current
    <3>1. place > 1
      BY <1>4, UnitsAre DEF PlanHolds
    <3> QED
      BY <3>1, SealedIsEnough, Agreement
  <2>2. TheTree = Merge(TreeOf(StartOf(waveNo)), TreeOf(Current), TreeOf(Candidate.output))
    BY <1>4, <2>1 DEF TheTree
  <2>3. ASSUME NEW p \in Paths
        PROVE  (IF TreeOf(StartOf(waveNo))[p] = TreeOf(Current)[p]
                THEN TreeOf(Candidate.output)[p] ELSE TreeOf(Current)[p])
               = (IF TreeOf(Candidate.output)[p] # TreeOf(StartOf(waveNo))[p]
                  THEN TreeOf(Candidate.output)[p] ELSE TreeOf(Current)[p])
    BY <1>4 DEF NoConflict, Conflicts
  <2> QED
    BY <1>1, <2>2, <2>3 DEF Merge, Wanted
<1> QED
  BY <1>3, <1>4

-----------------------------------------------------------------------------
\* Commits are added, and those that are there stay.

Grows == \A c \in Commits : c \in Commits' /\ commits'[c] = commits[c]

LEMMA GrowsIs ==
  ASSUME CheckpointTypeOK, HistoryHolds, ChainHolds, Grows, chain' = chain
  PROVE  /\ \A c \in Commits : c \in Commits' /\ Line(c)' = Line(c) /\ TreeOf(c)' = TreeOf(c)
         /\ Current' = Current
         /\ \A w \in 1..Len(Waves) : StartOf(w)' = StartOf(w)
BY DEF Grows, Line, TreeOf, Current, StartOf

LEMMA ChainStands ==
  ASSUME CheckpointTypeOK, ChainHolds, Grows, chain' = chain
  PROVE  ChainHolds'
<1>1. ASSUME NEW i \in DOMAIN chain
      PROVE  /\ chain[i].output \in Commits
             /\ chain[i].input = IF i = 1 THEN Source ELSE chain[i - 1].output
             /\ commits[chain[i].output].by = "integration"
             /\ commits[chain[i].output].past = {Source} \cup {chain[j].output : j \in 1..i - 1}
  BY ChainTyped DEF ChainHolds
<1>2. \A i \in DOMAIN chain : commits'[chain[i].output] = commits[chain[i].output]
  BY <1>1 DEF Grows
<1> QED
  BY <1>1, <1>2 DEF ChainHolds

LEMMA BranchStands ==
  ASSUME PlanHolds, Grows, chain' = chain, waveNo' = waveNo,
         NEW CONSTANT c, Branch(c)
  PROVE  Branch(c)'
<1>1. waveNo \in 1..Len(Waves)
  BY UnitsAre DEF PlanHolds
<1>2. StartOf(waveNo)' = StartOf(waveNo) /\ Line(StartOf(waveNo))' = Line(StartOf(waveNo))
      /\ StartOf(waveNo) \in Commits
  BY <1>1, GrowsIs, StartIs DEF PlanHolds, StartOf
<1>3. c.input \in Commits /\ c.output \in Commits
  BY DEF Branch
<1>4. /\ c.input \in Commits' /\ c.output \in Commits'
      /\ commits'[c.input] = commits[c.input] /\ commits'[c.output] = commits[c.output]
      /\ Line(c.input)' = Line(c.input) /\ Line(c.input) \subseteq Commits
  BY <1>3, GrowsIs, CommitsAre DEF PlanHolds, Grows
<1>5. \A d \in Line(c.input) : commits'[d] = commits[d]
  BY <1>4 DEF Grows
<1> QED
  BY <1>2, <1>3, <1>4, <1>5 DEF Branch

LEMMA WritingAdds ==
  ASSUME CheckpointTypeOK, HistoryHolds, NEW b \in Commits, NEW tree \in Tree,
         NEW by \in {"attempt", "integration"},
         commits' = Written([tree |-> tree, past |-> Line(b), by |-> by])
  PROVE  LET new == [tree |-> tree, past |-> Line(b), by |-> by]
         IN  /\ Grows /\ HistoryHolds'
             /\ commits' \in Seq([tree : Tree, past : SUBSET Commits',
                                  by : {"source", "attempt", "integration"}])
             /\ \A c \in Commits' : \A d \in commits'[c].past : d < c
             /\ PlaceOf(new) \in Commits' /\ commits'[PlaceOf(new)] = new
             /\ Len(commits') \in Nat /\ Len(commits) <= Len(commits') /\ Commits' = 1..Len(commits')
<1> DEFINE new == [tree |-> tree, past |-> Line(b), by |-> by]
<1> DEFINE R == [tree : Tree, past : SUBSET Commits, by : {"source", "attempt", "integration"}]
<1> DEFINE S == [tree : Tree, past : SUBSET Commits', by : {"source", "attempt", "integration"}]
<1>1. /\ commits \in Seq(R) /\ Len(commits) \in Nat /\ Commits = 1..Len(commits)
      /\ \A c \in Commits : commits[c] \in R /\ \A d \in commits[c].past : d < c
  <2>1. commits \in Seq(R) /\ \A c \in Commits : \A d \in commits[c].past : d < c
    BY DEF CheckpointTypeOK
  <2>2. Len(commits) \in Nat /\ Commits = 1..Len(commits) /\ \A c \in Commits : commits[c] \in R
    <3> HIDE DEF R
    <3> QED  BY <2>1, ElementsOfSeq DEF Commits
  <2> QED
    BY <2>1, <2>2
<1>2. Line(b) \subseteq Commits /\ new \in R
  BY CommitsAre
<1>3. /\ Source \in Commits /\ commits[Source].past = {} /\ commits[Source].by = "source"
      /\ \A c \in Commits : /\ Source \in Line(c)
                            /\ \A d \in commits[c].past : commits[d].past \subseteq commits[c].past
  BY DEF HistoryHolds
<1>4. CASE \E c \in Commits : commits[c] = new
  <2>1. PlaceOf(new) \in Commits /\ commits[PlaceOf(new)] = new
    BY <1>4 DEF PlaceOf
  <2>2. commits' = commits
    BY <2>1 DEF Written
  <2>3. Commits' = Commits /\ Len(commits') = Len(commits)
    BY <2>2 DEF Commits
  <2>4. Grows /\ HistoryHolds'
    BY <1>3, <2>2, <2>3 DEF Grows, HistoryHolds, Line
  <2>5. commits' \in Seq(S) /\ S = R
    BY <1>1, <2>2, <2>3
  <2>6. \A c \in Commits' : \A d \in commits'[c].past : d < c
    BY <1>1, <2>2, <2>3
  <2>7. PlaceOf(new) \in Commits' /\ commits'[PlaceOf(new)] = new
    BY <2>1, <2>2, <2>3
  <2>8. Len(commits') \in Nat /\ Len(commits) <= Len(commits') /\ Commits' = 1..Len(commits')
    BY <1>1, <2>3
  <2> HIDE DEF R
  <2> QED
    BY <2>4, <2>5, <2>6, <2>7, <2>8
<1>5. CASE ~\E c \in Commits : commits[c] = new
  <2> DEFINE n == Len(commits)
  <2>1. PlaceOf(new) = n + 1 /\ n + 1 \notin Commits
    BY <1>1, <1>5 DEF PlaceOf
  <2>2. commits' = Append(commits, new)
    BY <2>1 DEF Written
  <2>3. /\ Len(commits') = n + 1 /\ commits' \in Seq(R)
        /\ commits'[n + 1] = new /\ \A c \in 1..n : commits'[c] = commits[c]
    <3> HIDE DEF R, new
    <3> QED  BY <1>1, <1>2, <2>2, AppendProperties
  <2>4. Commits' = 1..n + 1 /\ Commits' = Commits \cup {n + 1}
    <3>1. DOMAIN commits' = 1..Len(commits')
      <4> HIDE DEF R
      <4> QED  BY <2>3
    <3>2. Commits' = 1..n + 1
      BY <2>3, <3>1 DEF Commits
    <3>3. n \in Nat /\ Commits = 1..n
      BY <1>1
    <3>4. 1..n + 1 = (1..n) \cup {n + 1}
      <4> HIDE DEF n
      <4> QED  BY <3>3
    <3> QED
      BY <3>2, <3>3, <3>4
  <2>5. \A c \in Commits : c \in Commits' /\ commits'[c] = commits[c]
    BY <1>1, <2>3, <2>4
  <2>6. commits' \in Seq(S)
    <3>1. R \subseteq S
      BY <2>4
    <3> HIDE DEF R, S
    <3> QED
      BY <2>3, <3>1, SeqMonotonic
  <2>7. ASSUME NEW c \in Commits'
        PROVE  /\ \A d \in commits'[c].past : d < c
               /\ Source \in commits'[c].past \cup {c}
               /\ \A d \in commits'[c].past : commits'[d].past \subseteq commits'[c].past
    <3>1. CASE c \in Commits
      <4>1. commits'[c] = commits[c] /\ commits[c].past \subseteq Commits
        BY <2>5, <3>1, CommitsAre
      <4>2. \A d \in commits[c].past : commits'[d] = commits[d]
        BY <4>1, <2>5
      <4> QED
        BY <1>1, <1>3, <3>1, <4>1, <4>2 DEF Line
    <3>2. CASE c = n + 1
      <4>1. commits'[c].past = Line(b)
        BY <2>3, <3>2
      <4>2. \A d \in Line(b) : d \in Commits /\ d < c /\ commits'[d] = commits[d]
        BY <1>1, <1>2, <2>5, <3>2
      <4>3. \A d \in Line(b) : commits[d].past \subseteq Line(b)
        BY <1>3 DEF Line
      <4>4. Source \in Line(b)
        BY <1>3
      <4> QED
        BY <4>1, <4>2, <4>3, <4>4
    <3> QED
      BY <2>4, <3>1, <3>2
  <2>8. HistoryHolds'
    BY <1>3, <2>5, <2>7 DEF HistoryHolds, Line
  <2> QED
    BY <1>1, <2>1, <2>3, <2>4, <2>5, <2>6, <2>7, <2>8 DEF Grows
<1> QED
  BY <1>4, <1>5

LEMMA UnitStands ==
  ASSUME PlanHolds, Grows, chain' = chain, waveNo' = waveNo,
         NEW u \in Range(Waves[waveNo]), units'[u] = units[u]
  PROVE  UnitHolds(u)'
<1>1. waveNo \in 1..Len(Waves)
  BY UnitsAre DEF PlanHolds
<1>2. StartOf(waveNo)' = StartOf(waveNo)
  BY <1>1, GrowsIs DEF PlanHolds, StartOf
<1>3. UnitHolds(u)
  BY DEF PlanHolds, UnitsHold
<1>4. PICK c : c = units[u].on
  OBVIOUS
<1>5. Branch(c) => Branch(c)'
  BY BranchStands
<1>6. Branch(units[u].on) => Branch(units[u].on)'
  BY <1>4, <1>5 DEF Branch
<1> QED
  BY <1>2, <1>3, <1>6 DEF UnitHolds

LEMMA UnitsStand ==
  ASSUME PlanHolds, Grows, units' = units, chain' = chain, waveNo' = waveNo
  PROVE  UnitsHold'
BY UnitStands DEF UnitsHold

LEMMA UnitSlotStands ==
  ASSUME PlanHolds, Grows, NEW u \in Range(Waves[waveNo]), units'[u] = units[u], UnitInSlot(u),
         \A s \in PoolSlot : /\ slots[s].repository = "ready" => slots'[s].repository = "ready"
                             /\ slots[s].holds \subseteq slots'[s].holds
  PROVE  UnitInSlot(u)'
<1> SUFFICES ASSUME units[u].behind > 0 PROVE UnitInSlot(u)'
  BY DEF UnitInSlot
<1>1. SlotOf(u) \in PoolSlot
  BY UnitsAre DEF PlanHolds
<1>2. StandsOn(u) \in Commits
  <2>1. UnitHolds(u)
    BY DEF PlanHolds, UnitsHold
  <2> QED
    BY <2>1, StartIs DEF PlanHolds, UnitHolds, Branch, StandsOn
<1>3. StandsOn(u)' = StandsOn(u)
  BY DEF StandsOn
<1>4. Line(StandsOn(u))' = Line(StandsOn(u))
  BY <1>2, <1>3 DEF Line, Grows
<1> QED
  BY <1>1, <1>4 DEF UnitInSlot

LEMMA TurnSlotStands ==
  ASSUME PlanHolds, Grows, NEW w \in DOMAIN Waves, NEW p \in DOMAIN Waves[w], TurnInSlot(w, p),
         UnitsBefore(w) + p <= Len(chain),
         chain'[UnitsBefore(w) + p] = chain[UnitsBefore(w) + p],
         \A s \in PoolSlot : /\ slots[s].repository = "ready" => slots'[s].repository = "ready"
                             /\ slots[s].holds \subseteq slots'[s].holds
  PROVE  TurnInSlot(w, p)'
<1>1. SlotOf(Waves[w][p]) \in PoolSlot
  BY WavesAre, SlotIsInThePool
<1>2. UnitsBefore(w) + p \in 1..Len(chain)
  <2>1. w \in 1..Len(Waves) /\ w \in 1..Len(Waves) + 1 /\ p \in Nat \ {0}
    BY WavesAre
  <2> QED
    BY <2>1, UnitsBeforeIs, ChainTyped DEF PlanHolds
<1>3. chain[UnitsBefore(w) + p].output \in Commits
  BY <1>2, ChainTyped DEF PlanHolds
<1>4. Line(chain[UnitsBefore(w) + p].output)' = Line(chain[UnitsBefore(w) + p].output)
  BY <1>3 DEF Line, Grows
<1> QED
  BY <1>1, <1>4 DEF TurnInSlot

LEMMA SlotsStand ==
  ASSUME PlanHolds, SlotsHold, Grows, units' = units, chain' = chain, waveNo' = waveNo,
         \A s \in PoolSlot : /\ slots[s].repository = "ready" => slots'[s].repository = "ready"
                             /\ slots[s].holds \subseteq slots'[s].holds
  PROVE  SlotsHold'
<1>1. ASSUME NEW u \in Range(Waves[waveNo]) PROVE UnitInSlot(u)'
  BY UnitSlotStands DEF SlotsHold
<1>2. ASSUME NEW w \in DOMAIN Waves, NEW p \in DOMAIN Waves[w] PROVE TurnInSlot(w, p)'
  <2>1. CASE UnitsBefore(w) + p <= Len(chain)
    BY <2>1, TurnSlotStands DEF SlotsHold
  <2>2. CASE ~(UnitsBefore(w) + p <= Len(chain))
    BY <2>2 DEF TurnInSlot
  <2> QED
    BY <2>1, <2>2
<1> QED
  BY <1>1, <1>2 DEF SlotsHold

\* What holds of the plan, where commits, units and integrations stay as they are.
LEMMA PlanStands ==
  ASSUME PlanHolds,
         UNCHANGED <<commits, waveNo, units, chain, place>>,
         slots' \in [PoolSlot -> [repository : {"absent", "staged", "ready"}, holds : SUBSET Commits]],
         step' \in {"work", "fetch", "merge", "inspect"} \cup Stopped,
         step' = step \/ (step # "done" /\ step' # "done"),
         step' \in Merging => \/ step \in Merging
                              \/ /\ \A u \in Range(Waves[waveNo]) : units[u].behind = Attempts
                                 /\ Candidate.ref = "checkpoints",
         mergeResult'.state \in {"none", "integrated", "conflict"},
         interruptions' \in 0..MaxInterruptions
  PROVE  PlanHolds'
<1>1. CheckpointTypeOK'
  BY DEF PlanHolds, CheckpointTypeOK, Commits
<1>2. Grows
  BY DEF Grows, Commits
<1>3. HistoryHolds'
  BY DEF PlanHolds, HistoryHolds, Commits, Line
<1>4. ChainHolds'
  BY <1>2, ChainStands DEF PlanHolds
<1>5. UnitsHold'
  BY <1>2, UnitsStand
<1>6. WaveHolds'
  <2>1. Candidate' = Candidate
    BY DEF Candidate, Unit
  <2>2. WaveHolds
    BY DEF PlanHolds
  <2> QED
    BY <2>1, <2>2 DEF WaveHolds
<1> QED
  BY <1>1, <1>3, <1>4, <1>5, <1>6 DEF PlanHolds

\* It stops without a word of a mismatch.
LEMMA StoppingKeeps ==
  ASSUME CheckpointIInv, step # "done", NEW why \in Stopped \ {"done", "mismatch"},
         step' = why,
         UNCHANGED <<commits, slots, waveNo, units, chain, place, interruptions>>,
         mergeResult'.state \in {"none", "integrated", "conflict"}
  PROVE  CheckpointIInv'
<1>1. slots' \in [PoolSlot -> [repository : {"absent", "staged", "ready"}, holds : SUBSET Commits]]
      /\ interruptions' \in 0..MaxInterruptions
  BY DEF CheckpointIInv, PlanHolds, CheckpointTypeOK
<1>2. step' \notin Merging /\ step' # "done" /\ step' # "mismatch"
      /\ step' \in {"work", "fetch", "merge", "inspect"} \cup Stopped
  BY DEF Stopped, Merging
<1>3. PlanHolds'
  BY <1>1, <1>2, PlanStands DEF CheckpointIInv
<1>4. SlotsHold'
  <2>1. Grows
    BY DEF Grows, Commits
  <2> QED
    BY <2>1, SlotsStand DEF CheckpointIInv
<1>5. MergeHolds' /\ ResultIsAccepted'
  BY <1>2 DEF MergeHolds, ResultIsAccepted, Merging
<1> QED
  BY <1>3, <1>4, <1>5 DEF CheckpointIInv

LEMMA CloneInterruptedKeeps ==
  ASSUME CheckpointIInv, NEW s \in PoolSlot, CloneInterrupted(s)
  PROVE  CheckpointIInv'
<1>1. /\ slots \in [PoolSlot -> [repository : {"absent", "staged", "ready"}, holds : SUBSET Commits]]
      /\ interruptions \in 0..MaxInterruptions /\ MaxInterruptions \in Nat
      /\ step \in {"work", "fetch", "merge", "inspect"} \cup Stopped
      /\ mergeResult.state \in {"none", "integrated", "conflict"}
  BY CheckpointAssumption DEF CheckpointIInv, PlanHolds, CheckpointTypeOK
<1>2. /\ slots[s].repository # "ready" /\ interruptions < MaxInterruptions
      /\ slots' = [slots EXCEPT ![s].repository = "staged"]
      /\ interruptions' = interruptions + 1
      /\ UNCHANGED <<commits, waveNo, units, chain, place, step, mergeResult>>
  BY DEF CloneInterrupted
<1>3. slots' \in [PoolSlot -> [repository : {"absent", "staged", "ready"}, holds : SUBSET Commits]]
  BY <1>1, <1>2
<1>4. \A t \in PoolSlot : /\ slots[t].repository = "ready" => slots'[t].repository = "ready"
                          /\ slots[t].holds = slots'[t].holds
  BY <1>1, <1>2
<1>5. interruptions' \in 0..MaxInterruptions
  BY <1>1, <1>2
<1>6. PlanHolds'
  BY <1>1, <1>2, <1>3, <1>5, PlanStands DEF CheckpointIInv
<1>7. Grows
  BY <1>2 DEF Grows, Commits
<1>8. SlotsHold'
  BY <1>2, <1>4, <1>7, SlotsStand DEF CheckpointIInv
<1>9. MergeHolds' /\ ResultIsAccepted'
  <2>1. SlotOf(Unit) \in PoolSlot
    BY UnitsAre DEF CheckpointIInv, PlanHolds
  <2>2. Here.holds = Here'.holds
    BY <1>2, <1>4, <2>1 DEF Here, Unit
  <2>3. CurrentAncestry' = CurrentAncestry /\ TheTree' = TheTree /\ NoConflict' = NoConflict
    BY <1>2 DEF CurrentAncestry, TheTree, NoConflict, Candidate, Unit, Current, TheBase, StartOf, TreeOf
  <2>4. Integrated(TheTree)' = Integrated(TheTree) /\ Line(mergeResult.output)' = Line(mergeResult.output)
    BY <1>2, <2>3 DEF Integrated, Line, Current
  <2>5. Commits' = Commits
    BY <1>2 DEF Commits
  <2> QED
    BY <1>2, <2>2, <2>3, <2>4, <2>5 DEF CheckpointIInv, MergeHolds, ResultIsAccepted
<1> QED
  BY <1>6, <1>8, <1>9 DEF CheckpointIInv

LEMMA PlanKeeps ==
  ASSUME CheckpointIInv, Plan
  PROVE  CheckpointIInv'
<1>1. /\ step = "work" /\ \A u \in Range(Waves[waveNo]) : units[u].behind = Attempts
      /\ UNCHANGED <<commits, slots, waveNo, units, chain, place, mergeResult, interruptions>>
      /\ mergeResult.state \in {"none", "integrated", "conflict"}
  BY DEF Plan, CheckpointIInv, PlanHolds, CheckpointTypeOK
<1>2. CASE Candidate.ref # "checkpoints"
  <2>1. step' = "candidate" /\ "candidate" \in Stopped \ {"done", "mismatch"}
    BY <1>2 DEF Plan, Stopped
  <2> QED
    BY <1>1, <2>1, StoppingKeeps
<1>3. CASE Candidate.ref = "checkpoints"
  <2>1. step' = "fetch"
    BY <1>3 DEF Plan
  <2>2. slots' \in [PoolSlot -> [repository : {"absent", "staged", "ready"}, holds : SUBSET Commits]]
        /\ interruptions' \in 0..MaxInterruptions
    BY <1>1 DEF CheckpointIInv, PlanHolds, CheckpointTypeOK
  <2>3. PlanHolds'
    BY <1>1, <1>3, <2>1, <2>2, PlanStands DEF CheckpointIInv
  <2>4. SlotsHold'
    <3>1. Grows
      BY <1>1 DEF Grows, Commits
    <3> QED
      BY <1>1, <3>1, SlotsStand DEF CheckpointIInv
  <2>5. MergeHolds' /\ ResultIsAccepted'
    BY <2>1 DEF MergeHolds, ResultIsAccepted
  <2> QED
    BY <2>3, <2>4, <2>5 DEF CheckpointIInv
<1> QED
  BY <1>2, <1>3

-----------------------------------------------------------------------------
\* The integration of a unit.

LEMMA UnitIsThere ==
  ASSUME PlanHolds, SlotsHold, step \in Merging
  PROVE  /\ SlotOf(Unit) \in PoolSlot /\ Here.repository = "ready"
         /\ Line(Candidate.input) \subseteq Here.holds
<1>1. Unit \in Range(Waves[waveNo]) /\ SlotOf(Unit) \in PoolSlot
  BY UnitsAre DEF PlanHolds
<1>2. units[Unit].behind = Attempts /\ Attempts \in Nat \ {0} /\ Candidate.ref = "checkpoints"
  BY <1>1, CheckpointAssumption DEF PlanHolds, WaveHolds
<1> QED
  BY <1>1, <1>2 DEF SlotsHold, UnitInSlot, StandsOn, Here, Candidate

LEMMA AncestryIsALine ==
  ASSUME PlanHolds, step \in Merging, CurrentAncestry # <<>>
  PROVE  /\ CurrentAncestry[1].input \in Line(Candidate.input)
         /\ \A i \in DOMAIN CurrentAncestry :
              i # 1 => i - 1 \in 1..i - 1 /\ i - 1 \in DOMAIN CurrentAncestry
                       /\ CurrentAncestry[i].input = CurrentAncestry[i - 1].output
<1>1. place > 1
  BY FirstOfTheWave, UnitsAre DEF PlanHolds
<1>2. Candidate.input \in Line(Candidate.input) /\ Source \in Line(Candidate.input)
  BY CandidateLine DEF Line, PlanHolds, HistoryHolds
<1>3. /\ CurrentAncestry[1].input \in {Candidate.input, Source}
      /\ \A i \in 1..Len(CurrentAncestry) - 1 :
           CurrentAncestry[i].output = CurrentAncestry[i + 1].input
  BY TheProofFits DEF ProofFits, IsLine
<1>4. Len(CurrentAncestry) \in Nat /\ DOMAIN CurrentAncestry = 1..Len(CurrentAncestry)
  BY <1>1, AncestryEdges
<1>5. ASSUME NEW i \in DOMAIN CurrentAncestry, i # 1
      PROVE  i - 1 \in 1..i - 1 /\ i - 1 \in DOMAIN CurrentAncestry
             /\ CurrentAncestry[i].input = CurrentAncestry[i - 1].output
  <2>1. i - 1 \in 1..Len(CurrentAncestry) - 1 /\ (i - 1) + 1 = i /\ i - 1 \in 1..i - 1
        /\ i - 1 \in DOMAIN CurrentAncestry
    BY <1>4, <1>5
  <2> QED
    BY <1>3, <2>1
<1> QED
  BY <1>2, <1>3, <1>5

LEMMA FetchSucceeds ==
  ASSUME PlanHolds, SlotsHold, step \in Merging
  PROVE  \A i \in DOMAIN CurrentAncestry : CanFetch(Here.holds, i)
<1> SUFFICES ASSUME NEW i \in DOMAIN CurrentAncestry PROVE CanFetch(Here.holds, i)
  OBVIOUS
<1>1. CurrentAncestry # <<>>
  OBVIOUS
<1>2. CASE i = 1
  BY <1>1, <1>2, AncestryIsALine, UnitIsThere DEF CanFetch
<1>3. CASE i # 1
  BY <1>1, <1>3, AncestryIsALine DEF CanFetch
<1> QED
  BY <1>2, <1>3

LEMMA FetchedAreCommits ==
  ASSUME PlanHolds, step \in Merging
  PROVE  {CurrentAncestry[i].output : i \in DOMAIN CurrentAncestry} \subseteq Commits
<1>1. CASE place = 1
  BY <1>1, FirstOfTheWave
<1>2. CASE place > 1
  BY <1>2, AncestryOutputs
<1> QED
  BY <1>1, <1>2, UnitsAre DEF PlanHolds

LEMMA FetchKeeps ==
  ASSUME CheckpointIInv, FetchAncestry
  PROVE  CheckpointIInv'
<1> DEFINE fetched == {CurrentAncestry[i].output : i \in DOMAIN CurrentAncestry}
<1>1. step = "fetch" /\ PlanHolds /\ SlotsHold /\ step \in Merging /\ step # "done"
  BY DEF FetchAncestry, CheckpointIInv, Merging
<1>2. /\ slots' = [slots EXCEPT ![SlotOf(Unit)].holds = @ \cup fetched]
      /\ step' = "merge"
      /\ UNCHANGED <<commits, waveNo, units, chain, place, mergeResult, interruptions>>
  BY <1>1, UnitIsThere, FetchSucceeds DEF FetchAncestry
<1>3. slots \in [PoolSlot -> [repository : {"absent", "staged", "ready"}, holds : SUBSET Commits]]
      /\ interruptions \in 0..MaxInterruptions
      /\ mergeResult.state \in {"none", "integrated", "conflict"}
  BY <1>1 DEF PlanHolds, CheckpointTypeOK
<1>4. fetched \subseteq Commits /\ SlotOf(Unit) \in PoolSlot
  BY <1>1, FetchedAreCommits, UnitIsThere
<1> HIDE DEF fetched
<1>5. slots' \in [PoolSlot -> [repository : {"absent", "staged", "ready"}, holds : SUBSET Commits]]
  BY <1>2, <1>3, <1>4
<1>6. /\ \A s \in PoolSlot : /\ slots[s].repository = "ready" => slots'[s].repository = "ready"
                             /\ slots[s].holds \subseteq slots'[s].holds
      /\ fetched \subseteq slots'[SlotOf(Unit)].holds
  BY <1>2, <1>3, <1>4
<1>7. PlanHolds'
  BY <1>1, <1>2, <1>3, <1>5, PlanStands DEF Merging
<1>8. SlotsHold'
  <2>1. Grows
    BY <1>2 DEF Grows, Commits
  <2> QED
    BY <1>1, <1>2, <1>6, <2>1, SlotsStand
<1>9. MergeHolds' /\ ResultIsAccepted'
  <2>1. CurrentAncestry' = CurrentAncestry /\ Here' = slots'[SlotOf(Unit)]
    BY <1>2 DEF CurrentAncestry, Candidate, Unit, Current, Here
  <2> QED
    BY <1>2, <1>6, <2>1 DEF MergeHolds, ResultIsAccepted, fetched
<1> QED
  BY <1>7, <1>8, <1>9 DEF CheckpointIInv

LEMMA TheTreeIsATree ==
  ASSUME PlanHolds, step \in Merging
  PROVE  TheTree \in Tree
<1>1. /\ TreeOf(Current) \in Tree /\ TreeOf(Candidate.output) \in Tree
      /\ TreeOf(TheBase) \in Tree
  BY CandidateLine, ChainIs, StartIs, CommitsAre DEF PlanHolds, TreeOf, TheBase, HistoryHolds
<1> QED
  BY <1>1 DEF TheTree, Merge, Tree

\* The merge is the same one when commits are added.
LEMMA MergeStands ==
  ASSUME PlanHolds, step \in Merging, Grows, UNCHANGED <<waveNo, units, chain, place>>
  PROVE  /\ Unit' = Unit /\ Candidate' = Candidate /\ CurrentAncestry' = CurrentAncestry
         /\ TheTree' = TheTree /\ NoConflict' = NoConflict
         /\ Integrated(TheTree)' = Integrated(TheTree)
<1>1. Unit' = Unit /\ Candidate' = Candidate
  BY DEF Unit, Candidate
<1>2. Current' = Current /\ CurrentAncestry' = CurrentAncestry
  BY <1>1 DEF Current, CurrentAncestry
<1>3. waveNo \in 1..Len(Waves) /\ StartOf(waveNo)' = StartOf(waveNo)
  BY UnitsAre DEF PlanHolds, StartOf
<1>4. TheBase' = TheBase
  BY <1>1, <1>3 DEF TheBase
<1>5. Current \in Commits /\ Candidate.output \in Commits /\ TheBase \in Commits
  BY CandidateLine, ChainIs, StartIs DEF PlanHolds, TheBase, HistoryHolds
<1>6. /\ TreeOf(Current)' = TreeOf(Current) /\ Line(Current)' = Line(Current)
      /\ TreeOf(Candidate.output)' = TreeOf(Candidate.output)
      /\ TreeOf(TheBase)' = TreeOf(TheBase)
  BY <1>1, <1>2, <1>4, <1>5 DEF Grows, TreeOf, Line
<1>7. TheTree' = TheTree
  BY <1>1, <1>2, <1>6 DEF TheTree
<1>8. NoConflict' = NoConflict
  BY <1>6 DEF NoConflict
<1>9. Integrated(TheTree)' = Integrated(TheTree)
  BY <1>6, <1>7 DEF Integrated
<1> QED
  BY <1>1, <1>2, <1>7, <1>8, <1>9

LEMMA TypesGrow ==
  ASSUME CheckpointTypeOK, Len(commits') \in Nat, Len(commits) <= Len(commits'),
         Commits' = 1..Len(commits')
  PROVE  /\ slots \in [PoolSlot -> [repository : {"absent", "staged", "ready"},
                                    holds : SUBSET Commits']]
         /\ units \in [AllUnits -> [behind : 0..Attempts,
                               on : [input : 0..Len(commits'), output : 0..Len(commits'),
                                     ref : {"none", "checkpoints", "integrations"}]]]
         /\ chain \in Seq([input : Commits', output : Commits'])
<1>1. Len(commits) \in Nat /\ Commits = 1..Len(commits)
  BY CommitsAre
<1>2. Commits \subseteq Commits' /\ 0..Len(commits) \subseteq 0..Len(commits')
  BY <1>1
<1>3. slots \in [PoolSlot -> [repository : {"absent", "staged", "ready"},
                              holds : SUBSET Commits']]
  BY <1>2 DEF CheckpointTypeOK
<1>4. units \in [AllUnits -> [behind : 0..Attempts,
                               on : [input : 0..Len(commits'), output : 0..Len(commits'),
                                     ref : {"none", "checkpoints", "integrations"}]]]
  <2> DEFINE A == [input : 0..Len(commits), output : 0..Len(commits),
                   ref : {"none", "checkpoints", "integrations"}]
  <2> DEFINE B == [input : 0..Len(commits'), output : 0..Len(commits'),
                   ref : {"none", "checkpoints", "integrations"}]
  <2>1. A \subseteq B
    BY <1>2
  <2>2. units \in [AllUnits -> [behind : 0..Attempts, on : A]]
    BY DEF CheckpointTypeOK
  <2> HIDE DEF A, B
  <2>3. units \in [AllUnits -> [behind : 0..Attempts, on : B]]
    BY <2>1, <2>2
  <2> QED
    BY <2>3 DEF B
<1>5. chain \in Seq([input : Commits', output : Commits'])
  <2> DEFINE A == [input : Commits, output : Commits]
  <2> DEFINE B == [input : Commits', output : Commits']
  <2>1. A \subseteq B /\ chain \in Seq(A)
    BY <1>2 DEF CheckpointTypeOK
  <2> HIDE DEF A, B
  <2>2. chain \in Seq(B)
    BY <2>1, SeqMonotonic
  <2> QED
    BY <2>2 DEF B
<1> QED
  BY <1>3, <1>4, <1>5

LEMMA ProduceKeeps ==
  ASSUME CheckpointIInv, step = "merge", NEW base, Produce(TheTree, base), NoConflict
  PROVE  CheckpointIInv'
<1> DEFINE new == Integrated(TheTree)
<1> DEFINE made == {Current, PlaceOf(new)}
<1>1. PlanHolds /\ SlotsHold /\ MergeHolds /\ step \in Merging
  BY DEF CheckpointIInv, Merging
<1>2. /\ commits' = Written(new)
      /\ mergeResult' = [state |-> "integrated", base |-> base, output |-> PlaceOf(new)]
      /\ slots' = [slots EXCEPT ![SlotOf(Unit)].holds = @ \cup made]
      /\ step' = "inspect"
      /\ UNCHANGED <<waveNo, units, chain, place, interruptions>>
  BY DEF Produce
<1>3. TheTree \in Tree /\ Current \in Commits
  BY <1>1, TheTreeIsATree, ChainIs DEF PlanHolds
<1>4. /\ Grows /\ HistoryHolds'
      /\ commits' \in Seq([tree : Tree, past : SUBSET Commits',
                           by : {"source", "attempt", "integration"}])
      /\ \A c \in Commits' : \A d \in commits'[c].past : d < c
      /\ PlaceOf(new) \in Commits' /\ commits'[PlaceOf(new)] = new
      /\ Len(commits') \in Nat /\ Len(commits) <= Len(commits') /\ Commits' = 1..Len(commits')
  BY <1>1, <1>2, <1>3, WritingAdds DEF PlanHolds, Integrated
<1> HIDE DEF new
<1>5. made \subseteq Commits' /\ SlotOf(Unit) \in PoolSlot
  BY <1>1, <1>3, <1>4, UnitIsThere DEF Grows
<1> HIDE DEF made
<1>6. /\ slots \in [PoolSlot -> [repository : {"absent", "staged", "ready"},
                                    holds : SUBSET Commits']]
      /\ units \in [AllUnits -> [behind : 0..Attempts,
                               on : [input : 0..Len(commits'), output : 0..Len(commits'),
                                     ref : {"none", "checkpoints", "integrations"}]]]
      /\ chain \in Seq([input : Commits', output : Commits'])
  BY <1>1, <1>4, TypesGrow DEF PlanHolds
<1>7. slots' \in [PoolSlot -> [repository : {"absent", "staged", "ready"},
                               holds : SUBSET Commits']]
  <2> DEFINE C == Commits'
  <2>1. /\ slots \in [PoolSlot -> [repository : {"absent", "staged", "ready"}, holds : SUBSET C]]
        /\ made \subseteq C /\ SlotOf(Unit) \in PoolSlot
        /\ slots' = [slots EXCEPT ![SlotOf(Unit)].holds = @ \cup made]
    BY <1>2, <1>5, <1>6
  <2> HIDE DEF C
  <2>2. slots' \in [PoolSlot -> [repository : {"absent", "staged", "ready"}, holds : SUBSET C]]
    BY <2>1
  <2> QED
    BY <2>2 DEF C
<1>8. /\ \A s \in PoolSlot : /\ slots[s].repository = "ready" => slots'[s].repository = "ready"
                             /\ slots[s].holds \subseteq slots'[s].holds
      /\ slots'[SlotOf(Unit)].holds = slots[SlotOf(Unit)].holds \cup made
  BY <1>2, <1>5, <1>6
<1>9. CheckpointTypeOK'
  <2>1. /\ waveNo \in 1..Len(Waves) /\ place \in 1..Len(Waves[waveNo])
        /\ interruptions \in 0..MaxInterruptions
    BY <1>1 DEF PlanHolds, CheckpointTypeOK
  <2>2. mergeResult'.state = "integrated"
    BY <1>2
  <2> QED
    BY <1>2, <1>4, <1>6, <1>7, <2>1, <2>2 DEF CheckpointTypeOK
<1>10. ChainHolds' /\ UnitsHold'
  BY <1>1, <1>2, <1>4, ChainStands, UnitsStand DEF PlanHolds
<1>11. WaveHolds'
  <2>1. Candidate' = Candidate
    BY <1>2 DEF Candidate, Unit
  <2> QED
    BY <1>1, <1>2, <2>1 DEF PlanHolds, WaveHolds, Merging
<1>12. SlotsHold'
  BY <1>1, <1>2, <1>4, <1>8, SlotsStand
<1>13. MergeHolds' /\ ResultIsAccepted'
  <2>1. Unit' = Unit /\ NoConflict' = NoConflict /\ Integrated(TheTree)' = new
    BY <1>1, <1>2, <1>4, MergeStands DEF new
  <2>2. commits'[mergeResult'.output] = new /\ mergeResult'.output \in Commits'
    BY <1>2, <1>4
  <2>3. Line(mergeResult.output)' = Line(Current) \cup {mergeResult'.output}
    <3>1. new.past = Line(Current)
      BY DEF new, Integrated
    <3> QED
      BY <2>2, <3>1 DEF Line
  <2>4. Line(Current) \subseteq slots[SlotOf(Unit)].holds
    <3>1. \A i \in DOMAIN CurrentAncestry : CurrentAncestry[i].output \in Here.holds
      BY <1>1 DEF MergeHolds
    <3> QED
      BY <1>1, <3>1, UnitIsThere, ReachesTheHead DEF ReachesBase, Here
  <2>5. Here'.holds = slots[SlotOf(Unit)].holds \cup made
    BY <1>8, <2>1 DEF Here
  <2>6. mergeResult'.output \in made
    BY <1>2 DEF made
  <2> QED
    BY <1>2, <2>1, <2>2, <2>3, <2>4, <2>5, <2>6 DEF MergeHolds, ResultIsAccepted
<1> QED
  BY <1>4, <1>9, <1>10, <1>11, <1>12, <1>13 DEF CheckpointIInv, PlanHolds

LEMMA IntegrateKeeps ==
  ASSUME CheckpointIInv, Integrate
  PROVE  CheckpointIInv'
<1> DEFINE held == Here.holds
<1>1. PlanHolds /\ SlotsHold /\ MergeHolds /\ step \in Merging /\ step = "merge"
  BY DEF CheckpointIInv, Merging, Integrate
<1>2. /\ Line(Candidate.input) \subseteq held
      /\ \A i \in DOMAIN CurrentAncestry : CurrentAncestry[i].output \in held
      /\ place \in Nat \ {0}
  BY <1>1, UnitIsThere, UnitsAre DEF MergeHolds, PlanHolds
<1>3. /\ ReachesBase(held, Current) /\ ReachesBase(held, Candidate.input)
      /\ BuildsOnHead(held) <=> place = 1
      /\ place > 1 => MergeBase(held) = TheBase /\ Candidate.output # Current
  BY <1>1, <1>2, ReachesTheHead, Agreement
<1>4. LET base == MergeBase(held)
      IN  IF Candidate.output = Current THEN Produce(TreeOf(Current), 0)
          ELSE IF BuildsOnHead(held) THEN Produce(TreeOf(Candidate.output), 0)
          ELSE IF ~Conflicts(TreeOf(base), TreeOf(Current), TreeOf(Candidate.output))
          THEN Produce(OverBase(held), base)
          ELSE /\ mergeResult' = [NoMerge EXCEPT !.state = "conflict", !.base = base]
               /\ step' = "conflict"
               /\ UNCHANGED <<commits, slots, waveNo, units, chain, place, interruptions>>
  BY <1>3 DEF Integrate
<1>5. CASE Candidate.output = Current
  <2>1. place = 1
    BY <1>2, <1>3, <1>5
  <2>2. Produce(TreeOf(Current), 0) /\ TheTree = TreeOf(Current)
    BY <1>4, <1>5 DEF TheTree
  <2>3. NoConflict /\ Produce(TheTree, 0)
    BY <2>1, <2>2 DEF NoConflict
  <2> QED
    BY <1>1, <2>3, ProduceKeeps
<1>6. CASE Candidate.output # Current /\ place = 1
  <2>1. Produce(TreeOf(Candidate.output), 0) /\ TheTree = TreeOf(Candidate.output)
    BY <1>3, <1>4, <1>6 DEF TheTree
  <2>2. NoConflict /\ Produce(TheTree, 0)
    BY <2>1, <1>6 DEF NoConflict
  <2> QED
    BY <1>1, <2>2, ProduceKeeps
<1>7. CASE Candidate.output # Current /\ place # 1 /\ NoConflict
  <2>1. ~BuildsOnHead(held) /\ MergeBase(held) = TheBase
    BY <1>2, <1>3, <1>7
  <2>2. ~Conflicts(TreeOf(MergeBase(held)), TreeOf(Current), TreeOf(Candidate.output))
    BY <1>7, <2>1 DEF NoConflict
  <2>3. Produce(OverBase(held), MergeBase(held))
    BY <1>4, <1>7, <2>1, <2>2
  <2>4. OverBase(held) = TheTree
    BY <1>7, <2>1 DEF TheTree, OverBase
  <2> QED
    BY <1>1, <1>7, <2>3, <2>4, ProduceKeeps
<1>8. CASE Candidate.output # Current /\ place # 1 /\ ~NoConflict
  <2>1. /\ ~BuildsOnHead(held) /\ MergeBase(held) = TheBase
        /\ Conflicts(TreeOf(MergeBase(held)), TreeOf(Current), TreeOf(Candidate.output))
    BY <1>2, <1>3, <1>8 DEF NoConflict
  <2>2. /\ mergeResult' = [NoMerge EXCEPT !.state = "conflict", !.base = MergeBase(held)]
        /\ step' = "conflict"
        /\ UNCHANGED <<commits, slots, waveNo, units, chain, place, interruptions>>
    BY <1>4, <1>8, <2>1
  <2>3. mergeResult'.state = "conflict" /\ "conflict" \in Stopped \ {"done", "mismatch"}
    BY <2>2 DEF NoMerge, Stopped
  <2> QED
    BY <1>1, <2>2, <2>3, StoppingKeeps
<1> QED
  BY <1>5, <1>6, <1>7, <1>8

-----------------------------------------------------------------------------
\* The supervisor accepts the integration, and the next unit has its turn.

LEMMA TurnIs ==
  ASSUME PlanHolds, NEW w \in DOMAIN Waves, NEW p \in DOMAIN Waves[w],
         UnitsBefore(w) + p = UnitsBefore(waveNo) + place
  PROVE  w = waveNo /\ p = place
<1>1. /\ w \in 1..Len(Waves) /\ waveNo \in 1..Len(Waves) /\ Len(Waves) \in Nat
      /\ w \in 1..Len(Waves) + 1 /\ waveNo \in 1..Len(Waves) + 1
      /\ p \in 1..Len(Waves[w]) /\ place \in 1..Len(Waves[waveNo])
      /\ Len(Waves[w]) \in Nat /\ Len(Waves[waveNo]) \in Nat
  BY WavesAre, UnitsAre DEF PlanHolds
<1>2. UnitsBefore(w) \in Nat /\ UnitsBefore(waveNo) \in Nat
  BY <1>1, UnitsBeforeIs
<1>3. ~(w < waveNo)
  <2>1. w < waveNo => UnitsBefore(w) + Len(Waves[w]) <= UnitsBefore(waveNo)
    BY <1>1, UnitsBeforeIs
  <2> QED
    BY <1>1, <1>2, <2>1
<1>4. ~(waveNo < w)
  <2>1. waveNo < w => UnitsBefore(waveNo) + Len(Waves[waveNo]) <= UnitsBefore(w)
    BY <1>1, UnitsBeforeIs
  <2> QED
    BY <1>1, <1>2, <2>1
<1>5. w = waveNo
  BY <1>1, <1>3, <1>4
<1> QED
  BY <1>1, <1>2, <1>5

LEMMA AcceptedIs ==
  ASSUME CheckpointIInv, Inspect
  PROVE  /\ step \in Merging
         /\ chain' = Append(chain, [input |-> Current, output |-> mergeResult.output])
         /\ mergeResult' = NoMerge
         /\ NextTurn
         /\ UNCHANGED <<commits, slots, units, interruptions>>
         /\ Len(chain) \in Nat /\ Len(chain') = Len(chain) + 1
         /\ DOMAIN chain' = 1..Len(chain) + 1
         /\ \A i \in 1..Len(chain) : chain'[i] = chain[i]
         /\ chain'[Len(chain) + 1] = [input |-> Current, output |-> mergeResult.output]
         /\ chain' \in Seq([input : Commits, output : Commits])
         /\ mergeResult.output \in Commits /\ Current \in Commits
         /\ Len(chain) = UnitsBefore(waveNo) + place - 1
<1>1. PlanHolds /\ MergeHolds /\ step \in Merging /\ step = "inspect"
  BY DEF CheckpointIInv, Inspect, Merging
<1>2. mergeResult.output \in Commits /\ commits[mergeResult.output] = Integrated(TheTree)
  BY <1>1 DEF MergeHolds
<1>3. ProofFits /\ Recomputed = TheTree
  BY <1>1, TheProofFits, SupervisorComputes
<1>4. /\ chain' = Append(chain, [input |-> Current, output |-> mergeResult.output])
      /\ mergeResult' = NoMerge
      /\ NextTurn
      /\ UNCHANGED <<commits, slots, units, interruptions>>
  BY <1>2, <1>3 DEF Inspect
<1>5. Current \in Commits
  BY <1>1, ChainIs DEF PlanHolds
<1>6. /\ chain' \in Seq([input : Commits, output : Commits])
      /\ Len(chain') = Len(chain) + 1
      /\ \A i \in 1..Len(chain) : chain'[i] = chain[i]
      /\ chain'[Len(chain) + 1] = [input |-> Current, output |-> mergeResult.output]
  <2> DEFINE A == [input : Commits, output : Commits]
  <2> DEFINE e == [input |-> Current, output |-> mergeResult.output]
  <2>1. chain \in Seq(A) /\ e \in A /\ chain' = Append(chain, e)
    BY <1>1, <1>2, <1>4, <1>5 DEF PlanHolds, CheckpointTypeOK
  <2>2. /\ chain' \in Seq(A) /\ Len(chain') = Len(chain) + 1
        /\ \A i \in 1..Len(chain) : chain'[i] = chain[i]
        /\ chain'[Len(chain) + 1] = e
    <3> HIDE DEF A, e
    <3> QED  BY <2>1, AppendProperties
  <2> QED
    BY <2>2
<1>7. Len(chain) \in Nat /\ DOMAIN chain' = 1..Len(chain')
  BY <1>1, <1>6, ChainTyped, ElementsOfSeq DEF PlanHolds
<1>8. Len(chain) = UnitsBefore(waveNo) + place - 1
  BY <1>1 DEF PlanHolds, WaveHolds
<1> QED
  BY <1>1, <1>2, <1>4, <1>5, <1>6, <1>7, <1>8

LEMMA ChainGoesOn ==
  ASSUME CheckpointIInv, Inspect
  PROVE  ChainHolds'
<1> DEFINE n == Len(chain)
<1> DEFINE o == mergeResult.output
<1>1. /\ n \in Nat /\ DOMAIN chain' = 1..n + 1 /\ commits' = commits
      /\ \A i \in 1..n : chain'[i] = chain[i]
      /\ chain'[n + 1] = [input |-> Current, output |-> o]
  BY AcceptedIs
<1>2. PlanHolds /\ MergeHolds /\ step = "inspect"
  BY DEF CheckpointIInv, Inspect
<1>3. commits[o].by = "integration" /\ commits[o].past = Line(Current)
  BY <1>2 DEF MergeHolds, Integrated
<1>4. Line(Current) = {Source} \cup {chain[j].output : j \in 1..n}
  BY <1>2, ChainIs DEF PlanHolds
<1>5. Current = IF n = 0 THEN Source ELSE chain[n].output
  <2>1. n = 0 <=> chain = <<>>
    BY <1>2 DEF PlanHolds, CheckpointTypeOK
  <2> QED
    BY <2>1 DEF Current, Last
<1>6. ASSUME NEW i \in 1..n + 1
      PROVE  /\ chain'[i].input = IF i = 1 THEN Source ELSE chain'[i - 1].output
             /\ commits[chain'[i].output].by = "integration"
             /\ commits[chain'[i].output].past = {Source} \cup {chain'[j].output : j \in 1..i - 1}
  <2>1. CASE i = n + 1
    <3>1. i - 1 = n /\ (i = 1 <=> n = 0)
      BY <1>1, <2>1
    <3>2. n # 0 => chain'[n] = chain[n]
      BY <1>1
    <3>3. \A j \in 1..n : chain'[j] = chain[j]
      BY <1>1
    <3>4. chain'[i].input = Current /\ chain'[i].output = o
      BY <1>1, <2>1
    <3>5. {chain'[j].output : j \in 1..n} = {chain[j].output : j \in 1..n}
      BY <3>3
    <3> HIDE DEF n, o
    <3> QED
      BY <1>3, <1>4, <1>5, <3>1, <3>2, <3>4, <3>5
  <2>2. CASE i # n + 1
    <3>1. i \in 1..n /\ i \in DOMAIN chain /\ (i # 1 => i - 1 \in 1..n)
      BY <1>1, <1>2, <2>2, ChainTyped DEF PlanHolds
    <3>2. /\ chain[i].input = IF i = 1 THEN Source ELSE chain[i - 1].output
          /\ commits[chain[i].output].by = "integration"
          /\ commits[chain[i].output].past = {Source} \cup {chain[j].output : j \in 1..i - 1}
      BY <1>2, <3>1 DEF PlanHolds, ChainHolds
    <3>3. \A j \in 1..i - 1 : j \in 1..n
      BY <1>1, <3>1
    <3>4. {chain'[j].output : j \in 1..i - 1} = {chain[j].output : j \in 1..i - 1}
      BY <1>1, <3>3
    <3> HIDE DEF n, o
    <3> QED
      BY <1>1, <3>1, <3>2, <3>4
  <2> QED
    BY <2>1, <2>2
<1> QED
  BY <1>1, <1>6 DEF ChainHolds

LEMMA SlotsGoOn ==
  ASSUME CheckpointIInv, Inspect, NEW w \in DOMAIN Waves, NEW p \in DOMAIN Waves[w]
  PROVE  TurnInSlot(w, p)'
<1> SUFFICES ASSUME UnitsBefore(w) + p <= Len(chain')
             PROVE  /\ slots'[SlotOf(Waves[w][p])].repository = "ready"
                    /\ Line(chain[UnitsBefore(w) + p].output)' \subseteq slots'[SlotOf(Waves[w][p])].holds
  BY DEF TurnInSlot
<1>1. /\ Len(chain) \in Nat /\ Len(chain') = Len(chain) + 1
      /\ \A i \in 1..Len(chain) : chain'[i] = chain[i]
      /\ chain'[Len(chain) + 1] = [input |-> Current, output |-> mergeResult.output]
      /\ commits' = commits /\ slots' = slots
      /\ Len(chain) = UnitsBefore(waveNo) + place - 1 /\ step \in Merging
  BY AcceptedIs
<1>2. PlanHolds /\ SlotsHold /\ MergeHolds /\ step = "inspect"
  BY DEF CheckpointIInv, Inspect
<1>3. UnitsBefore(w) + p \in 1..Len(chain) + 1
  <2>1. w \in 1..Len(Waves) /\ w \in 1..Len(Waves) + 1 /\ p \in Nat \ {0}
    BY WavesAre
  <2> QED
    BY <1>1, <2>1, UnitsBeforeIs
<1>4. CASE UnitsBefore(w) + p <= Len(chain)
  <2>1. chain'[UnitsBefore(w) + p] = chain[UnitsBefore(w) + p]
    BY <1>1, <1>3, <1>4
  <2>2. TurnInSlot(w, p)
    BY <1>2 DEF SlotsHold
  <2>3. Line(chain[UnitsBefore(w) + p].output)' = Line(chain[UnitsBefore(w) + p].output)
    BY <1>1, <2>1 DEF Line
  <2> QED
    BY <1>1, <1>4, <2>2, <2>3 DEF TurnInSlot
<1>5. CASE UnitsBefore(w) + p = Len(chain) + 1
  <2>1. UnitsBefore(waveNo) \in Nat /\ place \in Nat
    BY <1>2, StartIs, UnitsAre DEF PlanHolds
  <2>2. UnitsBefore(w) + p = UnitsBefore(waveNo) + place
    BY <1>1, <1>5, <2>1
  <2>3. Waves[w][p] = Unit
    BY <1>2, <2>2, TurnIs DEF Unit
  <2>4. Here.repository = "ready" /\ Line(mergeResult.output) \subseteq Here.holds
    BY <1>1, <1>2, UnitIsThere DEF MergeHolds
  <2>5. Line(chain[UnitsBefore(w) + p].output)' = Line(mergeResult.output)
    BY <1>1, <1>5 DEF Line
  <2> QED
    BY <1>1, <2>3, <2>4, <2>5 DEF Here
<1> QED
  BY <1>1, <1>3, <1>4, <1>5

LEMMA InspectKeeps ==
  ASSUME CheckpointIInv, Inspect
  PROVE  CheckpointIInv'
<1> DEFINE n == Len(chain)
<1>1. PlanHolds /\ SlotsHold /\ step = "inspect"
  BY DEF CheckpointIInv, Inspect
<1>2. /\ step \in Merging /\ mergeResult' = NoMerge /\ NextTurn
      /\ UNCHANGED <<commits, slots, units, interruptions>>
      /\ n \in Nat /\ Len(chain') = n + 1
      /\ \A i \in 1..n : chain'[i] = chain[i]
      /\ chain' \in Seq([input : Commits, output : Commits])
      /\ n = UnitsBefore(waveNo) + place - 1
  BY AcceptedIs
<1>3. ChainHolds' /\ \A w \in DOMAIN Waves : \A p \in DOMAIN Waves[w] : TurnInSlot(w, p)'
  BY ChainGoesOn, SlotsGoOn
<1>4. HistoryHolds'
  BY <1>1, <1>2 DEF PlanHolds, HistoryHolds, Commits, Line
<1>5. /\ waveNo \in 1..Len(Waves) /\ place \in 1..Len(Waves[waveNo]) /\ place \in Nat \ {0}
      /\ Len(Waves) \in Nat /\ Len(Waves[waveNo]) \in Nat
      /\ UnitsBefore(waveNo) \in Nat
      /\ UnitsBefore(waveNo + 1) = UnitsBefore(waveNo) + Len(Waves[waveNo])
  BY <1>1, UnitsAre, WavesAre, StartIs, UnitsBeforeIs DEF PlanHolds
<1>6. \A u \in Range(Waves[waveNo]) : units[u].behind = Attempts
  BY <1>1, <1>2 DEF PlanHolds, WaveHolds
<1>7. \A w \in waveNo + 1..Len(Waves) : \A u \in Range(Waves[w]) :
           units[u] = [behind |-> 0, on |-> NoCheckpoint]
  BY <1>1 DEF PlanHolds, WaveHolds
<1>8. ASSUME waveNo' \in 1..Len(Waves), place' \in 1..Len(Waves[waveNo']),
             step' \in {"work", "done"}
      PROVE  CheckpointTypeOK'
  <2>1. mergeResult'.state = "none"
    BY <1>2 DEF NoMerge
  <2>2. CheckpointTypeOK
    BY <1>1 DEF PlanHolds
  <2> QED
    BY <1>2, <1>8, <2>1, <2>2 DEF CheckpointTypeOK, Commits, Stopped
<1>9. ASSUME waveNo' = waveNo PROVE UnitsHold' /\ \A u \in Range(Waves[waveNo']) : UnitInSlot(u)'
  <2>1. StartOf(waveNo)' = StartOf(waveNo)
        /\ (waveNo > 1 => chain'[UnitsBefore(waveNo)] = chain[UnitsBefore(waveNo)])
    <3>1. UnitsBefore(waveNo) # 0 => UnitsBefore(waveNo) \in 1..n
      BY <1>2, <1>5
    <3>2. waveNo > 1 => UnitsBefore(waveNo) # 0
      BY <1>5, LaterWavesStartLater
    <3> QED
      BY <1>2, <1>9, <3>1, <3>2 DEF StartOf
  <2>2. ASSUME NEW u \in Range(Waves[waveNo]) PROVE UnitHolds(u)' /\ UnitInSlot(u)'
    <3>1. UnitHolds(u) /\ UnitInSlot(u)
      BY <1>1 DEF PlanHolds, UnitsHold, SlotsHold
    <3>2. Branch(units[u].on) => Branch(units[u].on)'
      BY <1>2, <1>9, <2>1 DEF Branch, Line, Commits
    <3>3. UnitHolds(u)'
      BY <1>2, <1>9, <2>1, <3>1, <3>2 DEF UnitHolds
    <3>4. UnitInSlot(u)'
      BY <1>2, <3>1 DEF UnitInSlot, StandsOn, Line
    <3> QED
      BY <3>3, <3>4
  <2> QED
    BY <1>9, <2>2 DEF UnitsHold
<1>10. ASSUME step' \in {"work", "done"} PROVE MergeHolds' /\ ResultIsAccepted'
  BY <1>10 DEF MergeHolds, ResultIsAccepted
<1>11. CASE place < Len(Waves[waveNo])
  <2>1. place' = place + 1 /\ step' = "work" /\ waveNo' = waveNo
    BY <1>2, <1>11 DEF NextTurn
  <2>2. WaveHolds'
    BY <1>2, <1>5, <1>6, <1>7, <2>1 DEF WaveHolds, Merging
  <2>3. place' \in 1..Len(Waves[waveNo'])
    BY <1>5, <1>11, <2>1
  <2> QED
    BY <1>3, <1>4, <1>5, <1>8, <1>9, <1>10, <2>1, <2>2, <2>3
       DEF CheckpointIInv, PlanHolds, SlotsHold
<1>12. CASE ~(place < Len(Waves[waveNo])) /\ waveNo < Len(Waves)
  <2>1. place' = 1 /\ step' = "work" /\ waveNo' = waveNo + 1
    BY <1>2, <1>12 DEF NextTurn
  <2>2. waveNo + 1 \in 1..Len(Waves) /\ 1 \in 1..Len(Waves[waveNo + 1])
        /\ waveNo + 1 \in waveNo + 1..Len(Waves)
    BY <1>5, <1>12, WavesAre
  <2>3. WaveHolds'
    <3>1. Len(chain') = UnitsBefore(waveNo + 1) + 1 - 1
      BY <1>2, <1>5, <1>12
    <3>2. \A w \in (waveNo + 1) + 1..Len(Waves) : w \in waveNo + 1..Len(Waves)
      BY <1>5
    <3> QED
      BY <1>2, <1>7, <2>1, <3>1, <3>2 DEF WaveHolds, Merging
  <2>4. \A u \in Range(Waves[waveNo']) : units'[u] = [behind |-> 0, on |-> NoCheckpoint]
    BY <1>2, <1>7, <2>1, <2>2
  <2>5. UnitsHold' /\ \A u \in Range(Waves[waveNo']) : UnitInSlot(u)'
    BY <2>4 DEF UnitsHold, UnitHolds, UnitInSlot
  <2> QED
    BY <1>3, <1>4, <1>8, <1>10, <2>1, <2>2, <2>3, <2>5
       DEF CheckpointIInv, PlanHolds, SlotsHold
<1>13. CASE ~(place < Len(Waves[waveNo])) /\ ~(waveNo < Len(Waves))
  <2>1. place' = place /\ step' = "done" /\ waveNo' = waveNo
    BY <1>2, <1>13 DEF NextTurn
  <2>2. WaveHolds'
    BY <1>2, <1>5, <1>6, <1>7, <2>1 DEF WaveHolds, Merging
  <2> QED
    BY <1>3, <1>4, <1>5, <1>8, <1>9, <1>10, <2>1, <2>2
       DEF CheckpointIInv, PlanHolds, SlotsHold
<1> QED
  BY <1>11, <1>12, <1>13

-----------------------------------------------------------------------------
\* The attempts.

\* What an attempt starts on: the source, in the first wave; the integration the
\* wave started on; or the unit's own branch.
LEMMA BoundaryIs ==
  ASSUME PlanHolds, step = "work", NEW u \in Range(Waves[waveNo]), units[u].behind < Attempts
  PROVE  /\ place = 1
         /\ Boundary(u) = NoCheckpoint \/ Boundary(u).ref \in {"checkpoints", "integrations"}
         /\ \/ /\ Boundary(u) = NoCheckpoint /\ waveNo = 1 /\ InputOf(u) = Source
               /\ StartOf(waveNo) = Source
            \/ /\ Boundary(u).ref = "integrations" /\ waveNo > 1
               /\ Boundary(u).output = StartOf(waveNo) /\ InputOf(u) = StartOf(waveNo)
               /\ UnitsBefore(waveNo) \in 1..Len(chain)
               /\ Boundary(u).input = chain[UnitsBefore(waveNo)].input
            \/ /\ Branch(Boundary(u)) /\ Boundary(u) = units[u].on /\ InputOf(u) = Boundary(u).output
         /\ Boundary(u) \in [input : 0..Len(commits), output : 0..Len(commits),
                             ref : {"none", "checkpoints", "integrations"}]
<1> DEFINE k == UnitsBefore(waveNo)
<1>1. place = 1
  BY UnitsAre, CheckpointAssumption DEF PlanHolds, WaveHolds
<1>2. /\ Len(chain) = k /\ k \in Nat /\ waveNo \in 1..Len(Waves) /\ Len(Waves) \in Nat
      /\ (k = 0 <=> waveNo = 1) /\ (waveNo = 1 => StartOf(waveNo) = Source)
  <2>1. Len(chain) = k + 1 - 1 /\ k \in 0..Len(chain) /\ waveNo \in 1..Len(Waves)
    BY <1>1, StartIs, UnitsAre DEF PlanHolds, WaveHolds
  <2> QED
    BY <2>1, ChainTyped, LaterWavesStartLater, StartIs, WavesAre DEF PlanHolds
<1>3. UnitHolds(u) /\ units[u].behind \in 0..Attempts /\ Attempts \in Nat
      /\ units[u].on \in [input : 0..Len(commits), output : 0..Len(commits),
                          ref : {"none", "checkpoints", "integrations"}]
  BY UnitsAre, CheckpointAssumption DEF PlanHolds, UnitsHold
<1>4. Len(commits) \in Nat
  BY CommitsAre DEF PlanHolds
<1>5. CASE units[u].behind > 0
  <2>1. \/ /\ waveNo > 1 /\ units[u].on.ref = "integrations"
           /\ units[u].on.output = StartOf(waveNo)
           /\ units[u].on.input = chain[k].input
        \/ Branch(units[u].on)
    BY <1>3, <1>5 DEF UnitHolds
  <2>2. units[u].on.ref \in {"checkpoints", "integrations"}
    BY <2>1 DEF Branch
  <2>3. units[u].on # NoCheckpoint
    BY <2>2 DEF NoCheckpoint
  <2>4. Boundary(u) = units[u].on /\ InputOf(u) = units[u].on.output
    BY <2>3 DEF Boundary, InputOf
  <2>5. waveNo > 1 => k \in 1..Len(chain)
    BY <1>2
  <2> QED
    BY <1>1, <1>3, <2>1, <2>2, <2>4, <2>5
<1>6. CASE units[u].behind = 0 /\ chain = <<>>
  <2>1. Boundary(u) = NoCheckpoint /\ InputOf(u) = Source
    BY <1>3, <1>6 DEF UnitHolds, Boundary, InputOf
  <2>2. waveNo = 1
    BY <1>2, <1>6
  <2>3. NoCheckpoint \in [input : 0..Len(commits), output : 0..Len(commits),
                          ref : {"none", "checkpoints", "integrations"}]
    BY <1>4 DEF NoCheckpoint
  <2> QED
    BY <1>1, <1>2, <2>1, <2>2, <2>3
<1>7. CASE units[u].behind = 0 /\ chain # <<>>
  <2>1. Boundary(u) = [input |-> Last(chain).input, output |-> Last(chain).output,
                       ref |-> "integrations"]
    BY <1>3, <1>7 DEF UnitHolds, Boundary
  <2>2. k # 0
    BY <1>2, <1>7 DEF PlanHolds, CheckpointTypeOK
  <2>3. Last(chain) = chain[k] /\ StartOf(waveNo) = chain[k].output /\ k \in 1..Len(chain)
        /\ waveNo > 1
    BY <1>2, <2>2 DEF Last, StartOf
  <2>4. chain[k].input \in 1..Len(commits) /\ chain[k].output \in 1..Len(commits)
    BY <2>3, ChainTyped, CommitsAre DEF PlanHolds
  <2>5. Boundary(u) # NoCheckpoint
    BY <2>1 DEF NoCheckpoint
  <2>6. InputOf(u) = StartOf(waveNo)
    BY <2>1, <2>3, <2>5 DEF InputOf
  <2> HIDE DEF k
  <2>7. Boundary(u) \in [input : 0..Len(commits), output : 0..Len(commits),
                         ref : {"none", "checkpoints", "integrations"}]
    BY <1>4, <2>1, <2>3, <2>4
  <2> QED
    BY <1>1, <2>1, <2>3, <2>6, <2>7 DEF k
<1> QED
  BY <1>3, <1>5, <1>6, <1>7

LEMMA InputIs ==
  ASSUME PlanHolds, step = "work", NEW u \in Range(Waves[waveNo]), units[u].behind < Attempts
  PROVE  /\ InputOf(u) \in Commits
         /\ StartOf(waveNo) \in Line(InputOf(u))
         /\ InputOf(u) = StartOf(waveNo) \/ commits[InputOf(u)].by = "attempt"
         /\ \A d \in Line(InputOf(u)) : d \in Line(StartOf(waveNo)) \/ commits[d].by = "attempt"
         /\ Boundary(u) # NoCheckpoint => Bundled(Boundary(u)) \subseteq Commits
<1>1. /\ StartOf(waveNo) \in Commits /\ StartOf(waveNo) \in Line(StartOf(waveNo))
      /\ (waveNo = 1 => StartOf(waveNo) = Source)
  BY StartIs DEF PlanHolds, Line
<1>2. CASE Boundary(u) = NoCheckpoint /\ waveNo = 1 /\ InputOf(u) = Source
  BY <1>1, <1>2
<1>3. CASE /\ Boundary(u).ref = "integrations"
           /\ Boundary(u).output = StartOf(waveNo) /\ InputOf(u) = StartOf(waveNo)
           /\ UnitsBefore(waveNo) \in 1..Len(chain)
           /\ Boundary(u).input = chain[UnitsBefore(waveNo)].input
  <2>1. Boundary(u).input \in Commits
    BY <1>3, ChainTyped DEF PlanHolds
  <2> QED
    BY <1>1, <1>3, <2>1 DEF Bundled
<1>4. CASE Branch(Boundary(u)) /\ InputOf(u) = Boundary(u).output
  <2> DEFINE c == Boundary(u)
  <2>1. c.ref = "checkpoints" /\ c.input \in Commits /\ c.output \in Commits
    BY <1>4 DEF Branch
  <2>2. Bundled(c) \subseteq Commits
    BY <2>1, CommitsAre DEF PlanHolds, Bundled
  <2>3. CASE waveNo = 1 /\ c.input = Source /\ c.output = Source
    BY <1>1, <1>4, <2>1, <2>2, <2>3
  <2>4. CASE ~(waveNo = 1 /\ c.input = Source /\ c.output = Source)
    <3>1. /\ commits[c.output].by = "attempt" /\ commits[c.output].past = Line(c.input)
          /\ StartOf(waveNo) \in Line(c.input)
          /\ \A d \in Line(c.input) : d \in Line(StartOf(waveNo)) \/ commits[d].by = "attempt"
      BY <1>4, <2>4 DEF Branch
    <3>2. Line(c.output) = Line(c.input) \cup {c.output}
      BY <3>1 DEF Line
    <3> QED
      BY <1>4, <2>1, <2>2, <3>1, <3>2
  <2> QED
    BY <2>3, <2>4
<1> QED
  BY <1>2, <1>3, <1>4, BoundaryIs

LEMMA SlotIsBrought ==
  ASSUME PlanHolds, step = "work", NEW u \in Range(Waves[waveNo]), units[u].behind < Attempts,
         slots' = [slots EXCEPT ![SlotOf(u)] = WithInput(u)]
  PROVE  /\ slots' \in [PoolSlot -> [repository : {"absent", "staged", "ready"},
                                     holds : SUBSET Commits]]
         /\ \A s \in PoolSlot : /\ slots[s].repository = "ready" => slots'[s].repository = "ready"
                                /\ slots[s].holds \subseteq slots'[s].holds
         /\ slots'[SlotOf(u)] = WithInput(u) /\ WithInput(u).repository = "ready"
<1> DEFINE brought == IF Boundary(u) = NoCheckpoint THEN {Source} ELSE Bundled(Boundary(u))
<1>1. slots \in [PoolSlot -> [repository : {"absent", "staged", "ready"}, holds : SUBSET Commits]]
      /\ SlotOf(u) \in PoolSlot
  BY UnitsAre DEF PlanHolds, CheckpointTypeOK
<1>2. brought \subseteq Commits
  BY InputIs DEF PlanHolds, HistoryHolds
<1>3. WithInput(u) = [repository |-> "ready", holds |-> slots[SlotOf(u)].holds \cup brought]
  BY DEF WithInput
<1> HIDE DEF brought
<1>4. /\ WithInput(u) \in [repository : {"absent", "staged", "ready"}, holds : SUBSET Commits]
      /\ WithInput(u).repository = "ready" /\ slots[SlotOf(u)].holds \subseteq WithInput(u).holds
  BY <1>1, <1>2, <1>3
<1> QED
  BY <1>1, <1>4

\* What the unit stands on when an attempt is behind it.
LEMMA EditedIs ==
  ASSUME PlanHolds, step = "work", NEW u \in Range(Waves[waveNo]), units[u].behind < Attempts,
         ReachesBase(WithInput(u).holds, InputOf(u)),
         NEW tree \in Tree, Edited(u, tree), chain' = chain, waveNo' = waveNo
  PROVE  /\ Grows /\ HistoryHolds'
         /\ commits' \in Seq([tree : Tree, past : SUBSET Commits',
                              by : {"source", "attempt", "integration"}])
         /\ \A c \in Commits' : \A d \in commits'[c].past : d < c
         /\ Len(commits') \in Nat /\ Len(commits) <= Len(commits') /\ Commits' = 1..Len(commits')
         /\ \E on \in [input : 0..Len(commits'), output : 0..Len(commits'),
                       ref : {"none", "checkpoints", "integrations"}] :
              /\ units' = [units EXCEPT ![u] = [behind |-> units[u].behind + 1, on |-> on]]
              /\ \/ /\ waveNo > 1 /\ on.ref = "integrations" /\ on.output = StartOf(waveNo)
                    /\ on.input = chain[UnitsBefore(waveNo)].input
                 \/ Branch(on)'
              /\ Line(IF on.ref = "integrations" THEN on.output ELSE on.input)'
                   \subseteq WithInput(u).holds
<1>1. /\ CheckpointTypeOK /\ HistoryHolds /\ ChainHolds
      /\ Len(commits) \in Nat /\ Commits = 1..Len(commits)
  BY CommitsAre DEF PlanHolds
<1>2. /\ InputOf(u) \in Commits /\ StartOf(waveNo) \in Line(InputOf(u))
      /\ InputOf(u) = StartOf(waveNo) \/ commits[InputOf(u)].by = "attempt"
      /\ \A d \in Line(InputOf(u)) : d \in Line(StartOf(waveNo)) \/ commits[d].by = "attempt"
      /\ Line(InputOf(u)) \subseteq WithInput(u).holds
  BY InputIs DEF ReachesBase
<1>3. CASE tree = commits[InputOf(u)].tree
  <2>1. units' = [units EXCEPT ![u] = [behind |-> @.behind + 1, on |-> Unchanged(u)]]
        /\ commits' = commits
    BY <1>3 DEF Edited
  <2>2. Grows /\ HistoryHolds' /\ Commits' = Commits
    BY <1>1, <2>1 DEF Grows, HistoryHolds, Line, Commits
  <2>3. commits' \in Seq([tree : Tree, past : SUBSET Commits',
                              by : {"source", "attempt", "integration"}])
        /\ \A c \in Commits' : \A d \in commits'[c].past : d < c
    BY <1>1, <2>1, <2>2 DEF CheckpointTypeOK
  <2>4. PICK on : on = Unchanged(u)
    OBVIOUS
  <2>5. on \in [input : 0..Len(commits'), output : 0..Len(commits'),
                ref : {"none", "checkpoints", "integrations"}]
    <3>1. CASE Boundary(u) = NoCheckpoint
      <4>1. on = [input |-> 1, output |-> 1, ref |-> "checkpoints"] /\ 1 \in 0..Len(commits)
        BY <1>1, <2>4, <3>1 DEF Unchanged, Source, HistoryHolds
      <4> QED
        BY <2>1, <4>1
    <3>2. CASE Boundary(u) # NoCheckpoint
      BY <2>1, <2>4, <3>2, BoundaryIs DEF Unchanged
    <3> QED
      BY <3>1, <3>2
  <2>6. \/ /\ waveNo > 1 /\ on.ref = "integrations" /\ on.output = StartOf(waveNo)
           /\ on.input = chain[UnitsBefore(waveNo)].input
           /\ InputOf(u) = on.output
        \/ Branch(on) /\ on.ref = "checkpoints" /\ Line(on.input) \subseteq Line(InputOf(u))
    <3>1. CASE Boundary(u) = NoCheckpoint /\ waveNo = 1 /\ InputOf(u) = Source
      BY <1>1, <2>4, <3>1 DEF Unchanged, Branch, HistoryHolds
    <3>2. CASE /\ Boundary(u).ref = "integrations" /\ waveNo > 1
               /\ Boundary(u).output = StartOf(waveNo) /\ InputOf(u) = StartOf(waveNo)
               /\ Boundary(u).input = chain[UnitsBefore(waveNo)].input
      BY <2>4, <3>2 DEF Unchanged, NoCheckpoint
    <3>3. CASE Branch(Boundary(u)) /\ InputOf(u) = Boundary(u).output
      <4>1. on = Boundary(u)
        BY <2>4, <3>3 DEF Unchanged, NoCheckpoint, Branch
      <4>2. Branch(on) /\ InputOf(u) = on.output
        BY <3>3, <4>1
      <4>3. Line(on.input) \subseteq Line(on.output)
        BY <4>2 DEF Branch, Line
      <4> QED
        BY <4>2, <4>3 DEF Branch
    <3> QED
      BY <3>1, <3>2, <3>3, BoundaryIs
  <2>7. Branch(on) => Branch(on)'
    BY <2>2, BranchStands
  <2>8. Line(IF on.ref = "integrations" THEN on.output ELSE on.input)'
          \subseteq WithInput(u).holds
    BY <1>2, <2>1, <2>6 DEF Line
  <2>9. units' = [units EXCEPT ![u] = [behind |-> units[u].behind + 1, on |-> on]]
    BY <2>1, <2>4
  <2>10. Len(commits') \in Nat /\ Len(commits) <= Len(commits') /\ Commits' = 1..Len(commits')
    BY <1>1, <2>1, <2>2
  <2> QED
    BY <2>2, <2>3, <2>5, <2>6, <2>7, <2>8, <2>9, <2>10
<1>4. CASE tree # commits[InputOf(u)].tree
  <2> DEFINE new == [tree |-> tree, past |-> Line(InputOf(u)), by |-> "attempt"]
  <2>1. /\ commits' = Written(new)
        /\ units' = [units EXCEPT ![u] =
                   [behind |-> @.behind + 1,
                    on |-> [input |-> InputOf(u), output |-> PlaceOf(new), ref |-> "checkpoints"]]]
    BY <1>4 DEF Edited
  <2>2. /\ Grows /\ HistoryHolds'
        /\ commits' \in Seq([tree : Tree, past : SUBSET Commits',
                             by : {"source", "attempt", "integration"}])
        /\ \A c \in Commits' : \A d \in commits'[c].past : d < c
        /\ PlaceOf(new) \in Commits' /\ commits'[PlaceOf(new)] = new
        /\ Len(commits') \in Nat /\ Len(commits) <= Len(commits') /\ Commits' = 1..Len(commits')
    BY <1>1, <1>2, <2>1, WritingAdds
  <2> HIDE DEF new
  <2>3. PICK on : on = [input |-> InputOf(u), output |-> PlaceOf(new), ref |-> "checkpoints"]
    OBVIOUS
  <2>4. InputOf(u) \in 0..Len(commits') /\ PlaceOf(new) \in 0..Len(commits')
    BY <1>1, <1>2, <2>2
  <2>5. on \in [input : 0..Len(commits'), output : 0..Len(commits'),
                ref : {"none", "checkpoints", "integrations"}]
    BY <2>3, <2>4
  <2>6. on.input = InputOf(u) /\ on.output = PlaceOf(new) /\ on.ref = "checkpoints"
    BY <2>3
  <2>7. commits'[on.input] = commits[InputOf(u)] /\ on.input \in Commits'
    BY <1>2, <2>2, <2>6 DEF Grows
  <2>8. Line(on.input)' = Line(InputOf(u))
    BY <2>6, <2>7 DEF Line
  <2>9. /\ StartOf(waveNo)' = StartOf(waveNo)
        /\ Line(StartOf(waveNo))' = Line(StartOf(waveNo))
    <3>1. StartOf(waveNo) \in Commits /\ StartOf(waveNo)' = StartOf(waveNo)
      BY StartIs DEF PlanHolds, StartOf
    <3> QED
      BY <2>2, <3>1 DEF Grows, Line
  <2>10. \A d \in Line(InputOf(u)) : commits'[d] = commits[d]
    BY <1>1, <1>2, <2>2, CommitsAre DEF Grows
  <2>11. Branch(on)'
    <3>1. commits'[on.output].by = "attempt" /\ commits'[on.output].past = Line(InputOf(u))
      BY <2>2, <2>6 DEF new
    <3>2. on.output \in Commits'
      BY <2>2, <2>6
    <3>3. on.input = StartOf(waveNo) \/ commits'[on.input].by = "attempt"
      BY <1>2, <2>6, <2>7
    <3>4. \A d \in Line(InputOf(u)) :
             d \in Line(StartOf(waveNo)) \/ commits'[d].by = "attempt"
      BY <1>2, <2>10
    <3> QED
      BY <1>2, <2>6, <2>7, <2>8, <2>9, <3>1, <3>2, <3>3, <3>4 DEF Branch
  <2>12. Line(IF on.ref = "integrations" THEN on.output ELSE on.input)'
          \subseteq WithInput(u).holds
    <3>1. Line(IF on.ref = "integrations" THEN on.output ELSE on.input)' = Line(on.input)'
      BY <2>6
    <3> QED
      BY <1>2, <2>8, <3>1
  <2>13. units' = [units EXCEPT ![u] = [behind |-> units[u].behind + 1, on |-> on]]
    BY <2>1, <2>3
  <2> QED
    BY <2>2, <2>5, <2>11, <2>12, <2>13
<1> QED
  BY <1>3, <1>4

LEMMA AttemptKeeps ==
  ASSUME CheckpointIInv, NEW u \in AllUnits, Attempt(u)
  PROVE  CheckpointIInv'
<1>1. /\ PlanHolds /\ SlotsHold /\ step = "work" /\ u \in Range(Waves[waveNo])
      /\ units[u].behind < Attempts
      /\ mergeResult.state \in {"none", "integrated", "conflict"}
  BY DEF CheckpointIInv, Attempt, PlanHolds, CheckpointTypeOK
<1>2. CASE ~CanMaterialize(u) \/ ~ReachesBase(WithInput(u).holds, InputOf(u))
  <2>1. Stop("fence") \/ Stop("missing")
    BY <1>2 DEF Attempt
  <2>2. {"fence", "missing"} \subseteq Stopped \ {"done", "mismatch"}
    BY DEF Stopped
  <2>3. CASE Stop("fence")
    BY <1>1, <2>2, <2>3, StoppingKeeps DEF Stop
  <2>4. CASE Stop("missing")
    BY <1>1, <2>2, <2>4, StoppingKeeps DEF Stop
  <2> QED
    BY <2>1, <2>3, <2>4
<1>3. CASE CanMaterialize(u) /\ ReachesBase(WithInput(u).holds, InputOf(u))
  <2>1. PICK tree \in Tree :
          /\ Edited(u, tree)
          /\ slots' = [slots EXCEPT ![SlotOf(u)] = WithInput(u)]
          /\ UNCHANGED <<waveNo, chain, place, step, mergeResult, interruptions>>
    BY <1>3 DEF Attempt
  <2>2. /\ slots' \in [PoolSlot -> [repository : {"absent", "staged", "ready"},
                                     holds : SUBSET Commits]]
        /\ \A s \in PoolSlot : /\ slots[s].repository = "ready" => slots'[s].repository = "ready"
                               /\ slots[s].holds \subseteq slots'[s].holds
        /\ slots'[SlotOf(u)] = WithInput(u) /\ WithInput(u).repository = "ready"
    BY <1>1, <2>1, SlotIsBrought
  <2>3. /\ Grows /\ HistoryHolds'
        /\ commits' \in Seq([tree : Tree, past : SUBSET Commits',
                              by : {"source", "attempt", "integration"}])
        /\ \A c \in Commits' : \A d \in commits'[c].past : d < c
        /\ Len(commits') \in Nat /\ Len(commits) <= Len(commits') /\ Commits' = 1..Len(commits')
    BY <1>1, <1>3, <2>1, EditedIs
  <2>4. PICK on \in [input : 0..Len(commits'), output : 0..Len(commits'),
                     ref : {"none", "checkpoints", "integrations"}] :
              /\ units' = [units EXCEPT ![u] = [behind |-> units[u].behind + 1, on |-> on]]
              /\ \/ /\ waveNo > 1 /\ on.ref = "integrations" /\ on.output = StartOf(waveNo)
                    /\ on.input = chain[UnitsBefore(waveNo)].input
                 \/ Branch(on)'
              /\ Line(IF on.ref = "integrations" THEN on.output ELSE on.input)'
                   \subseteq WithInput(u).holds
    BY <1>1, <1>3, <2>1, EditedIs
  <2>5. /\ slots \in [PoolSlot -> [repository : {"absent", "staged", "ready"},
                                    holds : SUBSET Commits']]
        /\ units \in [AllUnits -> [behind : 0..Attempts,
                               on : [input : 0..Len(commits'), output : 0..Len(commits'),
                                     ref : {"none", "checkpoints", "integrations"}]]]
        /\ chain \in Seq([input : Commits', output : Commits'])
    BY <1>1, <2>3, TypesGrow DEF PlanHolds
  <2>6. units[u].behind \in 0..Attempts /\ Attempts \in Nat
    BY <1>1, UnitsAre, CheckpointAssumption DEF PlanHolds
  <2>7. units' \in [AllUnits -> [behind : 0..Attempts,
                               on : [input : 0..Len(commits'), output : 0..Len(commits'),
                                     ref : {"none", "checkpoints", "integrations"}]]]
    <3> DEFINE B == [input : 0..Len(commits'), output : 0..Len(commits'),
                     ref : {"none", "checkpoints", "integrations"}]
    <3>1. on \in B /\ units \in [AllUnits -> [behind : 0..Attempts, on : B]]
          /\ units' = [units EXCEPT ![u] = [behind |-> units[u].behind + 1, on |-> on]]
          /\ units[u].behind + 1 \in 0..Attempts
      BY <1>1, <2>4, <2>5, <2>6
    <3> HIDE DEF B
    <3>2. units' \in [AllUnits -> [behind : 0..Attempts, on : B]]
      BY <3>1
    <3> QED
      BY <3>2 DEF B
  <2>8. /\ units'[u] = [behind |-> units[u].behind + 1, on |-> on]
        /\ \A v \in AllUnits : v # u => units'[v] = units[v]
    BY <2>4, <2>5
  <2>9. CheckpointTypeOK'
    <3>1. slots' \in [PoolSlot -> [repository : {"absent", "staged", "ready"},
                                    holds : SUBSET Commits']]
      <4>1. Commits \subseteq Commits'
        BY <2>3 DEF Grows
      <4>2. slots' \in [PoolSlot -> [repository : {"absent", "staged", "ready"},
                                     holds : SUBSET Commits]]
        BY <2>2
      <4> QED
        BY <4>1, <4>2
    <3>2. CheckpointTypeOK
      BY <1>1 DEF PlanHolds
    <3> QED
      BY <2>1, <2>3, <2>5, <2>7, <3>1, <3>2 DEF CheckpointTypeOK
  <2>10. ChainHolds'
    BY <1>1, <2>1, <2>3, ChainStands DEF PlanHolds
  <2>11. place = 1
    BY <1>1, BoundaryIs
  <2>12. WaveHolds'
    <3>1. \A w \in waveNo + 1..Len(Waves) : \A v \in Range(Waves[w]) : v \in AllUnits /\ v # u
      <4> SUFFICES ASSUME NEW w \in waveNo + 1..Len(Waves), NEW v \in Range(Waves[w])
                   PROVE  v \in AllUnits /\ v # u
        OBVIOUS
      <4>1. w \in 1..Len(Waves) /\ w # waveNo /\ waveNo \in 1..Len(Waves)
        BY <1>1, UnitsAre, WavesAre DEF PlanHolds
      <4>2. PICK p \in DOMAIN Waves[w] : Waves[w][p] = v
        BY DEF Range
      <4>3. PICK q \in DOMAIN Waves[waveNo] : Waves[waveNo][q] = u
        BY <1>1 DEF Range
      <4> QED
        BY <4>1, <4>2, <4>3, WavesAre, WavesAssumption
    <3>2. WaveHolds /\ step' = "work" /\ place' = 1
      BY <1>1, <2>1, <2>11 DEF PlanHolds
    <3> QED
      BY <1>1, <2>1, <2>8, <3>1, <3>2 DEF WaveHolds, Merging
  <2>13. ASSUME NEW v \in Range(Waves[waveNo]) PROVE UnitHolds(v)' /\ UnitInSlot(v)'
    <3>1. v \in AllUnits /\ UnitInSlot(v)
      BY <1>1, UnitsAre DEF PlanHolds, SlotsHold
    <3>2. CASE v # u
      BY <1>1, <2>1, <2>2, <2>3, <2>8, <3>1, <3>2, UnitStands, UnitSlotStands
    <3>3. CASE v = u
      <4>1. units'[v].behind > 0 /\ units'[v].behind # 0 /\ units'[v].on = on
        BY <2>6, <2>8, <3>3
      <4>2. StartOf(waveNo)' = StartOf(waveNo)
        BY <2>1 DEF StartOf
      <4>3. Branch(on)' => Branch(units[v].on)'
        BY <4>1 DEF Branch
      <4>4. UnitHolds(v)'
        BY <2>1, <2>4, <4>1, <4>2, <4>3 DEF UnitHolds
      <4>5. StandsOn(v)' = IF on.ref = "integrations" THEN on.output ELSE on.input
        BY <4>1 DEF StandsOn
      <4>6. Line(StandsOn(v))' \subseteq WithInput(u).holds
        BY <2>4, <4>5 DEF Line
      <4>7. UnitInSlot(v)'
        BY <2>2, <3>3, <4>6 DEF UnitInSlot
      <4> QED
        BY <4>4, <4>7
    <3> QED
      BY <3>2, <3>3
  <2>14. UnitsHold' /\ \A v \in Range(Waves[waveNo']) : UnitInSlot(v)'
    BY <2>1, <2>13 DEF UnitsHold
  <2>15. ASSUME NEW w \in DOMAIN Waves, NEW p \in DOMAIN Waves[w] PROVE TurnInSlot(w, p)'
    <3>1. CASE UnitsBefore(w) + p <= Len(chain)
      BY <1>1, <2>1, <2>2, <2>3, <3>1, TurnSlotStands DEF SlotsHold
    <3>2. CASE ~(UnitsBefore(w) + p <= Len(chain))
      BY <2>1, <3>2 DEF TurnInSlot
    <3> QED
      BY <3>1, <3>2
  <2>16. MergeHolds' /\ ResultIsAccepted'
    BY <1>1, <2>1 DEF MergeHolds, ResultIsAccepted
  <2> QED
    BY <2>3, <2>9, <2>10, <2>12, <2>14, <2>15, <2>16 DEF CheckpointIInv, PlanHolds, SlotsHold
<1> QED
  BY <1>2, <1>3

-----------------------------------------------------------------------------
\* The invariant.

LEMMA CheckpointStarts ==
  ASSUME CheckpointInit
  PROVE  CheckpointIInv
<1> DEFINE first == [tree |-> [p \in Paths |-> Start], past |-> {}, by |-> "source"]
<1>1. /\ PoolWidth \in Nat \ {0} /\ Attempts \in Nat \ {0} /\ MaxInterruptions \in Nat
      /\ Start \in Contents
  BY CheckpointAssumption
<1>2. /\ commits = <<first>>
      /\ slots = [s \in PoolSlot |-> [repository |-> "absent", holds |-> {}]]
      /\ waveNo = 1 /\ place = 1 /\ chain = <<>> /\ step = "work"
      /\ units = [u \in AllUnits |-> [behind |-> 0, on |-> NoCheckpoint]]
      /\ mergeResult = NoMerge /\ interruptions = 0
  BY DEF CheckpointInit
<1>3. Len(commits) = 1 /\ Commits = {1} /\ commits[1] = first
  BY <1>2 DEF Commits
<1>4. /\ 1 \in 1..Len(Waves) /\ 1 \in 1..Len(Waves[1]) /\ Len(Waves) \in Nat
      /\ \A w \in 1..Len(Waves) : Range(Waves[w]) \subseteq AllUnits
  BY WavesAre
<1>5. CheckpointTypeOK
  <2>1. commits \in Seq([tree : Tree, past : SUBSET Commits,
                         by : {"source", "attempt", "integration"}])
    <3>1. first \in [tree : Tree, past : SUBSET Commits, by : {"source", "attempt", "integration"}]
      BY <1>1 DEF Tree
    <3> HIDE DEF first
    <3> QED
      BY <1>2, <3>1
  <2>2. \A c \in Commits : \A d \in commits[c].past : d < c
    BY <1>3
  <2>3. slots \in [PoolSlot -> [repository : {"absent", "staged", "ready"}, holds : SUBSET Commits]]
    BY <1>2
  <2>4. units \in [AllUnits -> [behind : 0..Attempts,
                               on : [input : 0..Len(commits), output : 0..Len(commits),
                                     ref : {"none", "checkpoints", "integrations"}]]]
    BY <1>1, <1>2, <1>3 DEF NoCheckpoint
  <2>5. chain \in Seq([input : Commits, output : Commits])
    BY <1>2
  <2>6. mergeResult.state = "none"
    BY <1>2 DEF NoMerge
  <2>7. waveNo \in 1..Len(Waves) /\ place \in 1..Len(Waves[waveNo])
    BY <1>2, <1>4
  <2>8. step = "work" /\ interruptions \in 0..MaxInterruptions
    BY <1>1, <1>2
  <2> QED
    BY <2>1, <2>2, <2>3, <2>4, <2>5, <2>6, <2>7, <2>8 DEF CheckpointTypeOK
<1>6. HistoryHolds
  BY <1>3 DEF HistoryHolds, Line, Source
<1>7. ChainHolds
  BY <1>2 DEF ChainHolds
<1>8. WaveHolds
  <2>1. Len(chain) = UnitsBefore(waveNo) + place - 1
    BY <1>2, UnitsBeforeIs
  <2>2. \A w \in waveNo + 1..Len(Waves) : w \in 1..Len(Waves)
    BY <1>2, <1>4
  <2> QED
    BY <1>2, <1>4, <2>1, <2>2 DEF WaveHolds, Merging
<1>9. ASSUME NEW u \in Range(Waves[waveNo]) PROVE UnitHolds(u) /\ UnitInSlot(u)
  <2>1. units[u] = [behind |-> 0, on |-> NoCheckpoint]
    BY <1>2, <1>4
  <2> QED
    BY <2>1 DEF UnitHolds, UnitInSlot
<1>10. ASSUME NEW w \in DOMAIN Waves, NEW p \in DOMAIN Waves[w] PROVE TurnInSlot(w, p)
  <2>1. UnitsBefore(w) \in Nat /\ p \in Nat \ {0}
    <3>1. w \in 1..Len(Waves) /\ w \in 1..Len(Waves) + 1 /\ p \in Nat \ {0}
      BY WavesAre
    <3> QED
      BY <3>1, UnitsBeforeIs
  <2>2. Len(chain) = 0
    BY <1>2
  <2> QED
    BY <2>1, <2>2 DEF TurnInSlot
<1>11. MergeHolds /\ ResultIsAccepted
  BY <1>2 DEF MergeHolds, ResultIsAccepted
<1> QED
  BY <1>5, <1>6, <1>7, <1>8, <1>9, <1>10, <1>11
     DEF CheckpointIInv, PlanHolds, UnitsHold, SlotsHold

LEMMA CheckpointStepKeeps ==
  ASSUME CheckpointIInv, [CheckpointNext]_checkpointVars
  PROVE  CheckpointIInv'
<1>1. CASE UNCHANGED checkpointVars
  <2>1. UNCHANGED <<commits, slots, waveNo, units, chain, place, step, mergeResult, interruptions>>
    BY <1>1 DEF checkpointVars
  <2>2. PlanHolds'
    BY <2>1, PlanStands DEF CheckpointIInv, PlanHolds, CheckpointTypeOK
  <2>3. Grows
    BY <2>1 DEF Grows, Commits
  <2>4. SlotsHold'
    BY <2>1, <2>3, SlotsStand DEF CheckpointIInv
  <2>5. step \in Merging => /\ Unit' = Unit /\ CurrentAncestry' = CurrentAncestry
                            /\ NoConflict' = NoConflict
                            /\ Integrated(TheTree)' = Integrated(TheTree)
    BY <2>1, <2>3, MergeStands DEF CheckpointIInv
  <2>6. MergeHolds' /\ ResultIsAccepted'
    <3>1. step = "merge" \/ step = "inspect" => step \in Merging
      BY DEF Merging
    <3> QED
      BY <2>1, <2>5, <3>1 DEF CheckpointIInv, MergeHolds, ResultIsAccepted, Here, Line, Commits
  <2> QED
    BY <2>2, <2>4, <2>6 DEF CheckpointIInv
<1>2. ASSUME NEW s \in PoolSlot, CloneInterrupted(s) PROVE CheckpointIInv'
  BY <1>2, CloneInterruptedKeeps
<1>3. ASSUME NEW u \in AllUnits, Attempt(u) PROVE CheckpointIInv'
  BY <1>3, AttemptKeeps
<1>4. CASE Plan
  BY <1>4, PlanKeeps
<1>5. CASE FetchAncestry
  BY <1>5, FetchKeeps
<1>6. CASE Integrate
  BY <1>6, IntegrateKeeps
<1>7. CASE Inspect
  BY <1>7, InspectKeeps
<1> QED
  BY <1>1, <1>2, <1>3, <1>4, <1>5, <1>6, <1>7 DEF CheckpointNext

\* The state of the checkpoints has its type: a commit is made of commits that are
\* there, and a slot holds no others.
THEOREM CheckpointTypeCorrect == CheckpointSpec => []CheckpointTypeOK
<1>1. CheckpointIInv => CheckpointTypeOK
  BY DEF CheckpointIInv, PlanHolds
<1> QED
  BY <1>1, CheckpointStarts, CheckpointStepKeeps, PTL DEF CheckpointSpec

\* Whatever the plan and its pool, the supervisor computes the tree that the executor
\* made (kernel-checkpoint-bundle.ts), from another set of commits.
THEOREM ResultsAreAccepted == CheckpointSpec => []ResultIsAccepted
<1>1. CheckpointIInv => ResultIsAccepted
  BY DEF CheckpointIInv
<1> QED
  BY <1>1, CheckpointStarts, CheckpointStepKeeps, PTL DEF CheckpointSpec

LEMMA BothSidesAreKept ==
  ASSUME CheckpointIInv
  PROVE  MergedKeepsBoth
<1> SUFFICES ASSUME step = "inspect", waveNo = 1 \/ place = 1 \/ Candidate.input = WaveStart
             PROVE  TreeOf(mergeResult.output) = Wanted
  BY DEF MergedKeepsBoth
<1>1. PlanHolds /\ MergeHolds /\ step \in Merging /\ step # "done"
  BY DEF CheckpointIInv, Merging
<1>2. WaveStart = StartOf(waveNo) /\ (waveNo = 1 => StartOf(waveNo) = Source)
  BY <1>1, StartIs DEF PlanHolds
<1>3. place = 1 \/ TheBase = StartOf(waveNo)
  BY <1>2 DEF TheBase
<1>4. TreeOf(mergeResult.output) = TheTree /\ NoConflict
  BY <1>1 DEF MergeHolds, TreeOf, Integrated
<1> QED
  BY <1>1, <1>3, <1>4, BothAreKept

\* Whatever the plan and its pool, a merge has what the unit changed and, elsewhere,
\* what the head has (integrate-checkpoint.mjs): in the first wave, for the first unit
\* of a wave, and for one that stands on the head its wave began with.
THEOREM MergesKeepBoth == CheckpointSpec => []MergedKeepsBoth
BY BothSidesAreKept, CheckpointStarts, CheckpointStepKeeps, PTL DEF CheckpointSpec

\* A unit that starts on an integration starts in a slot that is close to it.
LEMMA SlotIsClose ==
  ASSUME PlanFits, CheckpointIInv, step = "work",
         NEW u \in Range(Waves[waveNo]), units[u].behind = 0, waveNo > 1
  PROVE  LET k == UnitsBefore(waveNo)
         IN  /\ slots[SlotOf(u)].repository = "ready"
             /\ Line(chain[k].output) \subseteq
                  slots[SlotOf(u)].holds \cup {chain[k].input, chain[k].output}
<1> DEFINE k == UnitsBefore(waveNo)
<1>1. PlanHolds /\ SlotsHold
  BY DEF CheckpointIInv
<1>2. units[u].behind < Attempts
  BY CheckpointAssumption
<1>3. /\ waveNo \in 2..Len(Waves) /\ waveNo \in 1..Len(Waves) /\ waveNo \in 1..Len(Waves) + 1
      /\ Len(Waves) \in Nat
  BY <1>1, UnitsAre, WavesAre DEF PlanHolds
<1>4. k \in Nat \ {0} /\ Len(chain) = k
  <2>1. place = 1
    BY <1>1, <1>2, BoundaryIs
  <2>2. k \in Nat /\ k # 0
    BY <1>3, UnitsBeforeIs, LaterWavesStartLater
  <2>3. Len(chain) = k + 1 - 1
    BY <1>1, <2>1 DEF PlanHolds, WaveHolds
  <2> QED
    BY <2>2, <2>3
<1>5. PICK v \in 1..waveNo - 1 : \E p \in DOMAIN Waves[v] :
         SlotOf(Waves[v][p]) = SlotOf(u) /\ UnitsBefore(v) + p + 2 >= k
  BY <1>3 DEF PlanFits
<1>6. PICK p \in DOMAIN Waves[v] :
         SlotOf(Waves[v][p]) = SlotOf(u) /\ UnitsBefore(v) + p + 2 >= k
  BY <1>5
<1> DEFINE j == UnitsBefore(v) + p
<1>7. j \in 1..k /\ j + 2 >= k
  <2>1. /\ v \in 1..Len(Waves) /\ v \in 1..Len(Waves) + 1 /\ v < waveNo
    BY <1>3
  <2>2. p \in 1..Len(Waves[v]) /\ Len(Waves[v]) \in Nat
    BY <2>1, WavesAre
  <2>3. UnitsBefore(v) \in Nat /\ UnitsBefore(v) + Len(Waves[v]) <= k
    BY <1>3, <2>1, UnitsBeforeIs
  <2> QED
    BY <1>4, <1>6, <2>2, <2>3
<1>8. /\ slots[SlotOf(u)].repository = "ready"
      /\ Line(chain[j].output) \subseteq slots[SlotOf(u)].holds
  <2>1. v \in DOMAIN Waves
    BY <1>3, WavesAre
  <2>2. j <= Len(chain)
    BY <1>4, <1>7
  <2>3. TurnInSlot(v, p)
    BY <1>1, <2>1 DEF SlotsHold
  <2> QED
    BY <1>6, <2>2, <2>3 DEF TurnInSlot
<1>9. /\ Line(chain[k].output) = {Source} \cup {chain[i].output : i \in 1..k}
      /\ Line(chain[j].output) = {Source} \cup {chain[i].output : i \in 1..j}
      /\ chain[k].input = IF k = 1 THEN Source ELSE chain[k - 1].output
  <2>1. k \in 1..Len(chain) /\ j \in 1..Len(chain) /\ k \in DOMAIN chain
    BY <1>1, <1>4, <1>7, ChainTyped DEF PlanHolds
  <2>2. /\ Line(chain[k].output) = {Source} \cup {chain[i].output : i \in 1..k}
        /\ Line(chain[j].output) = {Source} \cup {chain[i].output : i \in 1..j}
    <3> HIDE DEF k, j
    <3> QED  BY <1>1, <2>1, ChainIs DEF PlanHolds
  <2>3. chain[k].input = IF k = 1 THEN Source ELSE chain[k - 1].output
    BY <1>1, <2>1 DEF PlanHolds, ChainHolds
  <2> QED
    BY <2>2, <2>3
<1> HIDE DEF k, j
<1>10. ASSUME NEW i \in 1..k
      PROVE  chain[i].output \in slots[SlotOf(u)].holds \cup {chain[k].input, chain[k].output}
  <2>1. i \in 1..j \/ i = k \/ (i = k - 1 /\ k # 1)
    BY <1>4, <1>7
  <2> QED
    BY <1>8, <1>9, <2>1
<1>11. Line(chain[k].output) \subseteq slots[SlotOf(u)].holds \cup {chain[k].input, chain[k].output}
  BY <1>8, <1>9, <1>10
<1> QED
  BY <1>8, <1>11 DEF k

LEMMA AttemptSucceeds ==
  ASSUME PlanFits, CheckpointIInv, step = "work",
         NEW u \in Range(Waves[waveNo]), units[u].behind < Attempts
  PROVE  CanMaterialize(u) /\ ReachesBase(WithInput(u).holds, InputOf(u))
<1>1. PlanHolds /\ SlotsHold /\ UnitHolds(u) /\ UnitInSlot(u)
      /\ units[u].behind \in 0..Attempts /\ Attempts \in Nat
  BY UnitsAre, CheckpointAssumption DEF CheckpointIInv, PlanHolds, UnitsHold, SlotsHold
<1>2. WithInput(u).holds = slots[SlotOf(u)].holds \cup
          (IF Boundary(u) = NoCheckpoint THEN {Source} ELSE Bundled(Boundary(u)))
  BY DEF WithInput
<1>3. CASE Boundary(u) = NoCheckpoint /\ InputOf(u) = Source
  <2>1. Line(Source) = {Source}
    BY <1>1 DEF PlanHolds, HistoryHolds, Line
  <2> QED
    BY <1>2, <1>3, <2>1 DEF CanMaterialize, ReachesBase
<1>4. CASE /\ Boundary(u).ref = "integrations" /\ waveNo > 1
           /\ Boundary(u).output = StartOf(waveNo) /\ InputOf(u) = StartOf(waveNo)
           /\ UnitsBefore(waveNo) \in 1..Len(chain)
           /\ Boundary(u).input = chain[UnitsBefore(waveNo)].input
  <2>1. Boundary(u) # NoCheckpoint
    BY <1>4 DEF NoCheckpoint
  <2>2. Bundled(Boundary(u)) = {Boundary(u).input, Boundary(u).output}
    BY <1>4 DEF Bundled
  <2>3. StartOf(waveNo) = chain[UnitsBefore(waveNo)].output
    BY <1>4 DEF StartOf
  <2>4. CASE units[u].behind = 0
    BY <1>2, <1>4, <2>1, <2>2, <2>3, <2>4, SlotIsClose DEF CanMaterialize, ReachesBase
  <2>5. CASE units[u].behind > 0
    <3>1. units[u].on # NoCheckpoint
      BY <1>1, <2>5 DEF UnitHolds, Branch, NoCheckpoint
    <3>2. Boundary(u) = units[u].on
      BY <3>1 DEF Boundary
    <3>3. StandsOn(u) = InputOf(u)
      BY <1>4, <3>2 DEF StandsOn
    <3> QED
      BY <1>1, <1>2, <2>5, <3>3 DEF UnitInSlot, CanMaterialize, ReachesBase
  <2> QED
    BY <1>1, <2>4, <2>5
<1>5. CASE Branch(Boundary(u)) /\ Boundary(u) = units[u].on /\ InputOf(u) = Boundary(u).output
  <2>1. Boundary(u).ref = "checkpoints" /\ Boundary(u) # NoCheckpoint
    BY <1>5 DEF Branch, NoCheckpoint
  <2>2. units[u].behind > 0
    BY <1>1, <1>5, <2>1 DEF UnitHolds
  <2>3. slots[SlotOf(u)].repository = "ready"
    BY <1>1, <2>2 DEF UnitInSlot
  <2>4. Bundled(Boundary(u)) = Line(InputOf(u))
    BY <1>5, <2>1 DEF Bundled
  <2> QED
    BY <1>2, <2>1, <2>3, <2>4 DEF CanMaterialize, ReachesBase
<1> QED
  BY <1>1, <1>3, <1>4, <1>5, BoundaryIs

LEMMA NothingGoesMissing ==
  ASSUME PlanFits, CheckpointIInv, NothingIsMissing, [CheckpointNext]_checkpointVars
  PROVE  NothingIsMissing'
<1>1. PlanHolds /\ SlotsHold /\ MergeHolds
  BY DEF CheckpointIInv
<1>2. CASE UNCHANGED checkpointVars
  BY <1>2 DEF checkpointVars, NothingIsMissing
<1>3. ASSUME NEW s \in PoolSlot, CloneInterrupted(s) PROVE NothingIsMissing'
  BY <1>3 DEF CloneInterrupted, NothingIsMissing
<1>4. ASSUME NEW u \in AllUnits, Attempt(u) PROVE NothingIsMissing'
  <2>1. step = "work" /\ u \in Range(Waves[waveNo]) /\ units[u].behind < Attempts
    BY <1>4 DEF Attempt
  <2>2. step' = step
    BY <1>4, <2>1, AttemptSucceeds DEF Attempt
  <2> QED
    BY <2>2 DEF NothingIsMissing
<1>5. CASE Plan
  BY <1>5 DEF Plan, NothingIsMissing
<1>6. CASE FetchAncestry
  <2>1. step \in Merging
    BY <1>6 DEF FetchAncestry, Merging
  <2>2. step' = "merge"
    BY <1>1, <1>6, <2>1, UnitIsThere, FetchSucceeds DEF FetchAncestry
  <2> QED
    BY <2>2 DEF NothingIsMissing
<1>7. CASE Integrate
  <2>1. step \in Merging /\ step = "merge"
    BY <1>7 DEF Integrate, Merging
  <2>2. ReachesBase(Here.holds, Current) /\ ReachesBase(Here.holds, Candidate.input)
    BY <1>1, <2>1, UnitIsThere, ReachesTheHead DEF MergeHolds
  <2>3. step' \in {"inspect", "conflict"}
    BY <1>7, <2>2 DEF Integrate, Produce
  <2> QED
    BY <2>3 DEF NothingIsMissing
<1>8. CASE Inspect
  BY <1>8, AcceptedIs DEF NextTurn, NothingIsMissing
<1> QED
  BY <1>2, <1>3, <1>4, <1>5, <1>6, <1>7, <1>8 DEF CheckpointNext

\* In a plan that fits its pool, every commit that a sandbox is asked for is in its
\* slot (daytona/kernel-adapter.ts), the result of a merge is accepted, and both sides
\* are in it.
THEOREM CheckpointsAreSafe == PlanFits => (CheckpointSpec => []CheckpointSafe)
<1> SUFFICES ASSUME PlanFits PROVE CheckpointSpec => []CheckpointSafe
  OBVIOUS
<1> DEFINE I == CheckpointIInv /\ NothingIsMissing
<1>1. CheckpointInit => I
  BY CheckpointStarts DEF CheckpointInit, NothingIsMissing
<1>2. I /\ [CheckpointNext]_checkpointVars => I'
  BY CheckpointStepKeeps, NothingGoesMissing
<1>3. I => CheckpointSafe
  BY BothSidesAreKept DEF CheckpointSafe, CheckpointIInv
<1> QED
  BY <1>1, <1>2, <1>3, PTL DEF CheckpointSpec
=============================================================================
