-------------------------- MODULE ExecutionProofs ---------------------------
(***************************************************************************)
(* Proofs about what is executed: the release that serves an epoch, the    *)
(* definitions a run is pinned to, an attempt in its sandbox, the units of *)
(* a structured plan, and the composition of these and of the checkpoints. *)
(***************************************************************************)
EXTENDS MCExecution, CheckpointProofs, FiniteSetTheorems, WellFoundedInduction, TLAPS

(***************************************************************************)
(* For any items, releases and bounds: work does not change releases under *)
(* way.  The acceptance moves the pin only while nothing is in progress,   *)
(* and whatever is in progress has been served by the pinned release       *)
(* alone, which the supervisor that runs then is of.                       *)
(***************************************************************************)

InProgress == {"pending", "processing", "queued", "leased"}

\* What an item has been served by, by how far it has come.
ServedByThePin ==
  \A i \in Items :
    /\ item[i] = "out" => served[i] = {}
    /\ item[i] \in InProgress => served[i] \subseteq {pinned}
    /\ \A r, q \in served[i] : r = q

\* A supervisor that takes in work, or has work to go on with, is of the pin.
WorksUnderThePin ==
  Up /\ (~shut \/ \E i \in Items : item[i] \in InProgress) => running = pinned

ReleaseIInv == ReleaseTypeOK /\ ServedByThePin /\ WorksUnderThePin

LEMMA ReleaseInitially == ReleaseInit => ReleaseIInv
BY ReleaseAssumption
DEF ReleaseInit, ReleaseIInv, ReleaseTypeOK, ServedByThePin, WorksUnderThePin, Up, ItemStates,
    InProgress

\* A step on an item, by a supervisor that is of the pin, keeps the invariant:
\* the item that is taken in is new or was served by the pin.
LEMMA WorkKeeps ==
  ASSUME ReleaseIInv, NEW i \in Items, NEW from \in ItemStates \ {"done"},
         NEW to \in ItemStates \ {"out"}, Work(i, from, to),
         from = "out" => ~shut
  PROVE  ReleaseIInv'
<1>1. ReleaseTypeOK'
  BY DEF ReleaseIInv, ReleaseTypeOK, Work, Up
<1>2. running = pinned
  BY DEF ReleaseIInv, ReleaseTypeOK, WorksUnderThePin, Work, ItemStates, InProgress
<1>3. served[i] \subseteq {pinned}
  BY DEF ReleaseIInv, ServedByThePin, Work, ItemStates, InProgress
<1>4. served'[i] \subseteq {pinned} /\ item'[i] = to
  BY <1>2, <1>3 DEF ReleaseIInv, ReleaseTypeOK, Work
<1>5. \A j \in Items \ {i} : served'[j] = served[j] /\ item'[j] = item[j]
  BY DEF ReleaseIInv, ReleaseTypeOK, Work
<1>6. ServedByThePin'
  BY <1>4, <1>5 DEF ReleaseIInv, ServedByThePin, Work
<1>7. WorksUnderThePin'
  BY <1>2 DEF WorksUnderThePin, Work
<1> QED
  BY <1>1, <1>6, <1>7 DEF ReleaseIInv

LEMMA ReleaseInductive == ReleaseIInv /\ [ReleaseNext]_releaseVars => ReleaseIInv'
<1> SUFFICES ASSUME ReleaseIInv, [ReleaseNext]_releaseVars PROVE ReleaseIInv'
  OBVIOUS
<1> USE ReleaseAssumption DEF ReleaseIInv, ReleaseTypeOK, ServedByThePin, WorksUnderThePin, Up
<1>1. CASE BootRelease
  BY <1>1 DEF BootRelease, MayOpen
<1>2. CASE Crash
  BY <1>2 DEF Crash
<1>3. CASE CloseIngress
  BY <1>3 DEF CloseIngress, Change
<1>4. CASE OpenIngress
  BY <1>4 DEF OpenIngress
<1>5. ASSUME NEW i \in Items,
             \/ Ingest(i) \/ LeaseEvent(i) \/ HandleEvent(i) \/ RecoverEvent(i)
             \/ LeaseAttempt(i) \/ AttemptSettles(i) \/ RecoverAttempt(i)
      PROVE  ReleaseIInv'
  <2>1. \E from \in ItemStates \ {"done"}, to \in ItemStates \ {"out"} :
          Work(i, from, to) /\ (from = "out" => ~shut)
    BY <1>5
    DEF Ingest, LeaseEvent, HandleEvent, RecoverEvent, LeaseAttempt, AttemptSettles,
        RecoverAttempt, ItemStates
  <2> QED
    BY <2>1, WorkKeeps
<1>6. ASSUME NEW r \in Releases, Accept(r) PROVE ReleaseIInv'
  <2>1. \A i \in Items : item[i] \notin InProgress
    BY <1>6 DEF Accept, Quiesced, InProgress
  <2> QED
    BY <1>6, <2>1 DEF Accept, Quiesced, Change
<1>7. ASSUME NEW r \in Releases, Deploy(r) PROVE ReleaseIInv'
  BY <1>7 DEF Deploy, Change
<1>8. CASE UNCHANGED releaseVars
  BY <1>8 DEF releaseVars
<1> QED
  BY <1>1, <1>2, <1>3, <1>4, <1>5, <1>6, <1>7, <1>8 DEF ReleaseNext

LEMMA ReleaseInvariance == ReleaseSpec => []ReleaseIInv
BY ReleaseInitially, ReleaseInductive, PTL DEF ReleaseSpec

\* The pins, the machine and the items keep their types (the epoch row and the
\* rows of inbox_events and attempts that the acceptance looks at).
THEOREM ReleaseTypeCorrect == ReleaseSpec => []ReleaseTypeOK
<1>1. ReleaseIInv => ReleaseTypeOK
  BY DEF ReleaseIInv
<1> QED
  BY <1>1, ReleaseInvariance, PTL

\* accept-release.mjs beside a running supervisor, deployments in any order and
\* crashes: an item is served by one release, and an open epoch by its pin.
THEOREM ReleaseIsSafe == ReleaseSpec => []ReleaseSafe
<1>1. ReleaseIInv => ReleaseSafe
  BY DEF ReleaseIInv, ServedByThePin, WorksUnderThePin, ReleaseSafe, OneReleasePerItem,
         OpenUnderThePin
<1> QED
  BY <1>1, ReleaseInvariance, PTL

-----------------------------------------------------------------------------
(***************************************************************************)
(* For any identities, bodies, commits and releases: what is pinned is all *)
(* that the config selects and nothing else, and what a reduction goes by  *)
(* is what was pinned.  WalkHolds is the invariant of the walk: what is    *)
(* selected and what is yet to be looked up together hold all that they    *)
(* select, and nothing that the config does not.                           *)
(***************************************************************************)

OriginOf(n) == IF n \in Core THEN "platform" ELSE "repository"

\* Every entry comes from the channel that owns its identity, and what is
\* selected parses.
ChannelsHold ==
  /\ loaded \in [DOMAIN loaded -> Entries]
  /\ \A n \in DOMAIN loaded : loaded[n].origin = OriginOf(n)
  /\ selected \in [DOMAIN selected -> Entries]
  /\ \A n \in DOMAIN selected :
       selected[n].origin = OriginOf(n) /\ selected[n].body \in Bodies

\* While it walks, the compiler has loaded the files of its commit and of the
\* running release, has selected only what the config selects, and has yet to
\* look at all that its selection selects.
WalkHolds ==
  admission = "walking" =>
    /\ Loadable
    /\ \A n \in Names : n \in DOMAIN loaded <=> BodyOf(tree, n) # Absent
    /\ \A n \in DOMAIN loaded : loaded[n].body = BodyOf(tree, n)
    /\ \A n \in DOMAIN selected : n \in DOMAIN loaded /\ selected[n] = loaded[n]
    /\ wanted \cup DOMAIN selected \subseteq Closure(tree)
    /\ Config \in wanted \cup DOMAIN selected
    /\ \A n \in DOMAIN selected :
         Selects[n][selected[n].body] \subseteq wanted \cup DOMAIN selected

\* A reduction goes by a bundle that is pinned and that it found trusted.
ReductionHolds ==
  /\ IF resolving THEN admission = "pinned" /\ Trusted ELSE used = {}
  /\ resolved # Nothing => admission = "pinned" /\ resolved = selected

ClosureIInv == ClosureTypeOK /\ ChannelsHold /\ WalkHolds /\ ReductionHolds

\* The files in both channels are files.
LEMMA FilesAreFiles ==
  ASSUME ClosureTypeOK
  PROVE  tree \in Files /\ catalog \in Files /\ head \in Files
<1>1. NoFiles \in Files
  BY DEF NoFiles, Files
<1> QED
  BY <1>1, ClosureAssumption DEF ClosureTypeOK

\* What a commit selects is closed under selection, and is the least such set.
LEMMA ClosureIsClosed ==
  ASSUME NEW held
  PROVE  /\ Config \in Closure(held)
         /\ \A n \in Closure(held) : BodyOf(held, n) \in Bodies =>
              Selects[n][BodyOf(held, n)] \subseteq Closure(held)
         /\ \A S \in SUBSET Names : ClosedSet(held, S) => Closure(held) \subseteq S
<1> USE ClosureAssumption
<1>1. Config \in Closure(held)
  BY DEF Closure, ClosedSet
<1>2. ASSUME NEW n \in Closure(held), BodyOf(held, n) \in Bodies,
             NEW m \in Selects[n][BodyOf(held, n)]
      PROVE  m \in Closure(held)
  <2>1. m \in Names
    BY <1>2 DEF Closure
  <2>2. ASSUME NEW S \in SUBSET Names, ClosedSet(held, S) PROVE m \in S
    <3>1. n \in S
      BY <1>2, <2>2 DEF Closure
    <3> QED
      BY <3>1, <1>2, <2>2 DEF ClosedSet
  <2> QED
    BY <2>1, <2>2 DEF Closure
<1>3. \A S \in SUBSET Names : ClosedSet(held, S) => Closure(held) \subseteq S
  BY DEF Closure
<1> QED
  BY <1>1, <1>2, <1>3

\* Whether the files load is a matter of the commit and of the released files.
LEMMA LoadableStays ==
  ASSUME UNCHANGED <<tree, catalog>>
  PROVE  Loadable' <=> Loadable
BY DEF Loadable, Readable, Mirrors, Joins, Distinct, Indexed, Mine, Loads, Present

\* The released files lie in the core namespace, and what both channels hold is
\* what is loaded of them.
LEMMA ChannelsHeld ==
  ASSUME tree \in Files, catalog \in Files
  PROVE  /\ Indexed => Present(catalog) \subseteq Core
         /\ Present(catalog) \subseteq Core => Held(tree) = Mine \cup Present(catalog)
<1> USE ClosureAssumption
<1>1. ASSUME Indexed, NEW n \in Present(catalog)
      PROVE  n \in Core
  <2>1. Owner[n] \in Present(catalog) /\ Owner[n] \in Names /\ n \in Names
    BY <1>1 DEF Indexed, Present
  <2>2. Owner[n] # Absent
    BY <2>1
  <2>3. Owner[Owner[n]] = Owner[n] /\ (n \in Core <=> Owner[n] \in Core)
    BY <2>1, <2>2
  <2> QED
    BY <1>1, <2>1, <2>3 DEF Indexed
<1>2. Present(catalog) \subseteq Core => Held(tree) = Mine \cup Present(catalog)
  BY DEF Held, BodyOf, Mine, Loads, Present
<1> QED
  BY <1>1, <1>2

\* The two passes over the files ask what a commit has to be.
LEMMA LoadableIsInPlace ==
  ASSUME tree \in Files, catalog \in Files
  PROVE  Loadable <=> InPlace(tree)
<1> USE ClosureAssumption
<1>1. ASSUME Loadable PROVE InPlace(tree)
  <2>1. Present(catalog) \subseteq Core /\ Held(tree) = Mine \cup Present(catalog)
    BY <1>1, ChannelsHeld DEF Loadable
  <2>2. \A n \in Core : tree[n] \in {Absent, catalog[n]}
    BY <1>1 DEF Loadable, Mirrors, Present
  <2>3. ASSUME NEW n \in Held(tree)
        PROVE  BodyOf(tree, n) # Unreadable /\ Owner[n] \in Held(tree)
    <3>1. BodyOf(tree, n) # Unreadable
      BY <1>1 DEF Loadable, Readable, Held, BodyOf
    <3>2. Owner[n] \in Mine \cup Present(catalog)
      BY <1>1, <2>1 DEF Loadable, Indexed
    <3> QED
      BY <2>1, <3>1, <3>2
  <2>4. \A names \in Clashes : ~(names \subseteq Held(tree))
    BY <1>1, <2>1 DEF Loadable, Distinct
  <2>5. Cardinality(Held(tree)) <= MaxFiles /\ Cardinality(Present(tree)) <= MaxFiles
    BY <1>1, <2>1 DEF Loadable, Joins, Readable
  <2> QED
    BY <2>1, <2>2, <2>3, <2>4, <2>5 DEF InPlace
<1>2. ASSUME InPlace(tree) PROVE Loadable
  <2>1. Present(catalog) \subseteq Core /\ Held(tree) = Mine \cup Present(catalog)
    BY <1>2, ChannelsHeld DEF InPlace
  <2>2. \A n \in Held(tree) : BodyOf(tree, n) # Unreadable /\ Owner[n] \in Held(tree)
    BY <1>2 DEF InPlace
  <2>3. Mirrors
    BY <1>2 DEF InPlace, Mirrors, Present
  <2>4. \A n \in Names : tree[n] # Unreadable /\ catalog[n] # Unreadable
    <3>1. ASSUME NEW n \in Names PROVE catalog[n] # Unreadable
      BY <2>1, <2>2 DEF Held, BodyOf, Present
    <3>2. ASSUME NEW n \in Names \ Core PROVE tree[n] # Unreadable
      BY <2>2 DEF Held, BodyOf
    <3>3. ASSUME NEW n \in Core PROVE tree[n] # Unreadable
      BY <1>2, <3>1 DEF InPlace
    <3> QED
      BY <3>1, <3>2, <3>3
  <2>5. Cardinality(Held(tree)) <= MaxFiles /\ Cardinality(Present(tree)) <= MaxFiles
    BY <1>2 DEF InPlace
  <2>6. Cardinality(Present(catalog)) <= MaxFiles
    <3>1. IsFiniteSet(Held(tree))
      BY FS_Subset DEF Held
    <3>2. /\ IsFiniteSet(Present(catalog))
          /\ Cardinality(Present(catalog)) <= Cardinality(Held(tree))
      BY <2>1, <3>1, FS_Subset
    <3>3. Cardinality(Held(tree)) \in Nat /\ Cardinality(Present(catalog)) \in Nat
      BY <3>1, <3>2, FS_CardinalityType
    <3> QED
      BY <2>5, <3>2, <3>3
  <2>7. Mine \cap Core = {}
    BY DEF Mine, Loads
  <2>8. Joins
    BY <2>1, <2>5, <2>7 DEF Joins
  <2>9. Distinct
    BY <1>2, <2>1 DEF InPlace, Distinct
  <2>10. \A n \in Held(tree) : n \in Core <=> Owner[n] \in Core
    BY <2>2 DEF Held
  <2>11. Indexed
    <3>1. \A n \in Mine : Owner[n] \in Mine
      BY <2>1, <2>2, <2>7, <2>10
    <3>2. \A n \in Present(catalog) : Owner[n] \in Present(catalog)
      BY <2>1, <2>2, <2>7, <2>10
    <3> QED
      BY <2>1, <3>1, <3>2 DEF Indexed
  <2> QED
    BY <2>3, <2>4, <2>5, <2>6, <2>8, <2>9, <2>11 DEF Loadable, Readable
<1> QED
  BY <1>1, <1>2

LEMMA ClosureInitially == ClosureInit => ClosureIInv
<1> SUFFICES ASSUME ClosureInit PROVE ClosureIInv
  OBVIOUS
<1> USE ClosureAssumption DEF ClosureInit
<1>1. DOMAIN Nothing = {} /\ Nothing \in [DOMAIN Nothing -> Entries]
  BY DEF Nothing
<1>2. ClosureTypeOK
  <2>1. \A f \in {loaded, selected, resolved} :
          DOMAIN f \subseteq Names /\ \A n \in DOMAIN f : f[n] \in Entries
    BY <1>1
  <2>2. 0 \in 0..MaxCommits /\ 0 \in 0..MaxReleases
    OBVIOUS
  <2> QED
    BY <2>1, <2>2 DEF ClosureTypeOK
<1>3. ChannelsHold
  BY <1>1 DEF ChannelsHold
<1>4. WalkHolds /\ ReductionHolds
  BY DEF WalkHolds, ReductionHolds
<1> QED
  BY <1>2, <1>3, <1>4 DEF ClosureIInv

-----------------------------------------------------------------------------
(* What changes beside the run                                              *)

LEMMA CommitKeepsIt ==
  ASSUME ClosureIInv, NEW t \in Trees, Commit(t)
  PROVE  ClosureIInv'
<1> USE ClosureAssumption DEF Commit, release, compiling, reducing, ClosureIInv
<1>1. ClosureTypeOK'
  BY DEF ClosureTypeOK
<1>2. ChannelsHold' /\ ReductionHolds'
  BY DEF ChannelsHold, ReductionHolds, Trusted
<1>3. WalkHolds'
  BY LoadableStays DEF WalkHolds, Closure, ClosedSet, BodyOf
<1> QED
  BY <1>1, <1>2, <1>3

LEMMA ReleaseKeepsIt ==
  ASSUME ClosureIInv, NEW c \in Catalogs, NEW e \in Environments, Release(c, e)
  PROVE  ClosureIInv'
<1> USE ClosureAssumption DEF Release, compiling, ClosureIInv
<1>1. ClosureTypeOK'
  <2>1. (\A f \in {loaded, selected, resolved} :
           DOMAIN f \subseteq Names /\ \A n \in DOMAIN f : f[n] \in Entries)'
    BY DEF ClosureTypeOK
  <2>2. pushes' \in 0..MaxCommits /\ releases' \in 0..MaxReleases
    BY DEF ClosureTypeOK
  <2>3. /\ admission' \in {"asked", "loading", "walking", "pinned", "refused"}
        /\ head' \in Trees /\ catalog' \in Catalogs /\ tree' \in Trees \cup {NoFiles}
        /\ wanted' \subseteq Names
        /\ environment' \in Environments /\ compiledIn' \in Environments
    BY DEF ClosureTypeOK
  <2> QED
    BY <2>1, <2>2, <2>3 DEF ClosureTypeOK
<1>2. ChannelsHold' /\ ReductionHolds'
  BY DEF ChannelsHold, ReductionHolds
<1>3. WalkHolds'
  BY DEF WalkHolds
<1> QED
  BY <1>1, <1>2, <1>3

-----------------------------------------------------------------------------
(* Admission                                                                *)

LEMMA RefuseKeepsIt ==
  ASSUME ClosureIInv, admission # "pinned", Refuse
  PROVE  ClosureIInv'
<1> USE DEF Refuse, release, compiling, reducing, ClosureIInv
<1>1. ClosureTypeOK'
  BY DEF ClosureTypeOK
<1>2. ChannelsHold' /\ ReductionHolds'
  BY DEF ChannelsHold, ReductionHolds
<1>3. WalkHolds'
  BY DEF WalkHolds
<1> QED
  BY <1>1, <1>2, <1>3

LEMMA ReadCommitKeepsIt ==
  ASSUME ClosureIInv, ReadCommit
  PROVE  ClosureIInv'
<1> USE DEF ReadCommit, release, reducing, ClosureIInv
<1>1. ClosureTypeOK'
  BY DEF ClosureTypeOK
<1>2. ChannelsHold' /\ ReductionHolds'
  BY DEF ChannelsHold, ReductionHolds
<1>3. WalkHolds'
  BY DEF WalkHolds
<1> QED
  BY <1>1, <1>2, <1>3

\* What is loaded of a commit and a release whose channels are apart.
Channels ==
  [n \in Mine \cup Present(catalog) |->
     IF n \in Mine THEN [body |-> tree[n], origin |-> "repository"]
                   ELSE [body |-> catalog[n], origin |-> "platform"]]

LEMMA ChannelsAreApart ==
  ASSUME ClosureTypeOK, Loadable
  PROVE  /\ DOMAIN Channels \subseteq Names
         /\ Channels \in [DOMAIN Channels -> Entries]
         /\ \A n \in DOMAIN Channels : /\ Channels[n].origin = OriginOf(n)
                                       /\ Channels[n].body = BodyOf(tree, n)
         /\ \A n \in Names : n \in DOMAIN Channels <=> BodyOf(tree, n) # Absent
<1> USE ClosureAssumption, FilesAreFiles
<1>0. Present(catalog) \subseteq Core /\ Held(tree) = Mine \cup Present(catalog)
  BY ChannelsHeld DEF Loadable
<1>1. DOMAIN Channels = Mine \cup Present(catalog)
  BY DEF Channels
<1>2. ASSUME NEW n \in DOMAIN Channels
      PROVE  /\ n \in Names /\ Channels[n] \in Entries
             /\ Channels[n].origin = OriginOf(n)
             /\ Channels[n].body = BodyOf(tree, n)
  <2>1. CASE n \in Mine
    <3>1. n \in Names /\ n \notin Core /\ tree[n] \in Bodies \cup {Malformed}
      BY <2>1 DEF Mine, Loads, Present, Files, Loadable, Readable
    <3>2. Channels[n] = [body |-> tree[n], origin |-> "repository"]
      BY <1>1, <1>2, <2>1, <3>1 DEF Channels
    <3> QED
      BY <3>1, <3>2 DEF Entries, Origins, OriginOf, BodyOf
  <2>2. CASE n \notin Mine
    <3>1. n \in Present(catalog)
      BY <1>1, <1>2, <2>2
    <3>2. n \in Names /\ n \in Core /\ catalog[n] \in Bodies \cup {Malformed}
      BY <1>0, <3>1 DEF Present, Files, Loadable, Readable
    <3>3. Channels[n] = [body |-> catalog[n], origin |-> "platform"]
      BY <1>1, <1>2, <2>2, <3>2 DEF Channels
    <3> QED
      BY <3>2, <3>3 DEF Entries, Origins, OriginOf, BodyOf
  <2> QED
    BY <2>1, <2>2
<1>3. ASSUME NEW n \in Names
      PROVE  n \in DOMAIN Channels <=> BodyOf(tree, n) # Absent
  BY <1>0, <1>1 DEF Held
<1>4. Channels \in [DOMAIN Channels -> Entries]
  <2>1. Channels = [n \in DOMAIN Channels |-> Channels[n]]
    BY DEF Channels
  <2> QED
    BY <2>1, <1>2
<1> QED
  BY <1>2, <1>3, <1>4

LEMMA LoadKeepsIt ==
  ASSUME ClosureIInv, Load
  PROVE  ClosureIInv'
<1>1. CASE ~Loadable
  <2>1. Refuse /\ admission # "pinned"
    BY <1>1 DEF Load
  <2> QED
    BY <2>1, RefuseKeepsIt
<1>2. CASE Loadable
  <2>1. /\ loaded' = Channels
        /\ admission = "loading" /\ admission' = "walking"
        /\ wanted' = {Config} /\ selected' = Nothing
        /\ UNCHANGED <<head, pushes, releases, tree, compiledIn>>
        /\ UNCHANGED <<catalog, environment>> /\ UNCHANGED reducing
    BY <1>2 DEF Load, Channels, release
  <2>2. /\ DOMAIN Channels \subseteq Names
        /\ Channels \in [DOMAIN Channels -> Entries]
        /\ \A n \in DOMAIN Channels : /\ Channels[n].origin = OriginOf(n)
                                      /\ Channels[n].body = BodyOf(tree, n)
        /\ \A n \in Names : n \in DOMAIN Channels <=> BodyOf(tree, n) # Absent
    BY <1>2, ChannelsAreApart DEF ClosureIInv
  <2>3. DOMAIN Nothing = {} /\ Nothing \in [DOMAIN Nothing -> Entries]
    BY DEF Nothing
  <2>4. ~resolving /\ used = {} /\ resolved = Nothing
    BY <2>1 DEF ClosureIInv, ReductionHolds
  <2>5. ClosureTypeOK'
    <3>1. \A n \in DOMAIN Channels : Channels[n] \in Entries
      BY <2>2
    <3>2. (\A f \in {loaded, selected, resolved} :
             DOMAIN f \subseteq Names /\ \A n \in DOMAIN f : f[n] \in Entries)'
      BY <2>1, <2>2, <2>3, <2>4, <3>1 DEF reducing
    <3>3. used' \subseteq DOMAIN selected'
      BY <2>1, <2>4 DEF reducing
    <3> QED
      BY <2>1, <3>2, <3>3, ClosureAssumption DEF ClosureIInv, ClosureTypeOK, reducing
  <2>6. ChannelsHold'
    BY <2>1, <2>2, <2>3 DEF ChannelsHold
  <2>7. ReductionHolds'
    BY <2>1, <2>4 DEF ReductionHolds, reducing
  <2>8. WalkHolds'
    <3>1. Loadable'
      BY <1>2, <2>1, LoadableStays
    <3>2. /\ \A n \in Names : BodyOf(tree, n)' = BodyOf(tree, n)
          /\ Closure(tree)' = Closure(tree)
      BY <2>1 DEF BodyOf, Closure, ClosedSet
    <3>3. Config \in Closure(tree)
      BY ClosureIsClosed
    <3> QED
      BY <2>1, <2>2, <2>3, <3>1, <3>2, <3>3 DEF WalkHolds
  <2> QED
    BY <2>5, <2>6, <2>7, <2>8 DEF ClosureIInv
<1> QED
  BY <1>1, <1>2

LEMMA RequireKeepsIt ==
  ASSUME ClosureIInv, NEW n \in Names, Require(n)
  PROVE  ClosureIInv'
<1>1. CASE n \notin DOMAIN loaded \/ ~Parses(n)
  <2>1. Refuse /\ admission # "pinned"
    BY <1>1 DEF Require
  <2> QED
    BY <2>1, RefuseKeepsIt
<1>2. CASE n \in DOMAIN loaded /\ Parses(n)
  <2>1. /\ admission = "walking" /\ n \in wanted
        /\ selected' = [m \in DOMAIN selected \cup {n} |-> loaded[m]]
        /\ wanted' = (wanted \cup Follows(n)) \ DOMAIN selected'
        /\ UNCHANGED <<head, pushes, releases, admission, tree, loaded, compiledIn>>
        /\ UNCHANGED <<catalog, environment>> /\ UNCHANGED reducing
    BY <1>2 DEF Require, release
  <2>2. ~resolving /\ used = {} /\ resolved = Nothing
    BY <2>1 DEF ClosureIInv, ReductionHolds
  <2>3. loaded[n] \in Entries /\ loaded[n].body \in Bodies
    BY <1>2, ClosureAssumption DEF ClosureIInv, ChannelsHold, Parses, Entries
  <2>4. Follows(n) \subseteq Names /\ Follows(n) = Selects[n][loaded[n].body]
    BY <2>3, ClosureAssumption DEF Follows
  <2>5. DOMAIN selected' = DOMAIN selected \cup {n}
    BY <2>1
  <2>6. \A m \in DOMAIN selected : m \in DOMAIN loaded /\ selected[m] = loaded[m]
    BY <2>1 DEF ClosureIInv, WalkHolds
  <2>7. \A m \in DOMAIN selected' : m \in DOMAIN loaded /\ selected'[m] = loaded[m]
    BY <1>2, <2>1, <2>5, <2>6
  <2>8. \A m \in DOMAIN selected : selected'[m] = selected[m]
    BY <2>5, <2>6, <2>7
  <2>9. ClosureTypeOK'
    <3>1. /\ DOMAIN selected' \subseteq Names
          /\ \A m \in DOMAIN selected' : selected'[m] \in Entries
      <4>1. \A m \in DOMAIN loaded : loaded[m] \in Entries
        BY DEF ClosureIInv, ChannelsHold
      <4>2. DOMAIN selected \subseteq Names
        BY DEF ClosureIInv, ClosureTypeOK
      <4> QED
        BY <2>5, <2>7, <4>1, <4>2
    <3>2. wanted' \subseteq Names
      BY <2>1, <2>4 DEF ClosureIInv, ClosureTypeOK
    <3> QED
      BY <2>1, <2>2, <2>5, <3>1, <3>2 DEF ClosureIInv, ClosureTypeOK, reducing
  <2>10. ChannelsHold'
    <3>1. selected' \in [DOMAIN selected' -> Entries]
      BY <2>1, <2>5, <2>7 DEF ClosureIInv, ChannelsHold
    <3>2. \A m \in DOMAIN selected' :
            selected'[m].origin = OriginOf(m) /\ selected'[m].body \in Bodies
      BY <2>3, <2>5, <2>7, <2>8 DEF ClosureIInv, ChannelsHold
    <3> QED
      BY <2>1, <3>1, <3>2 DEF ClosureIInv, ChannelsHold
  <2>11. ReductionHolds'
    BY <2>1, <2>2 DEF ReductionHolds, reducing
  <2>12. WalkHolds'
    <3>1. Loadable'
      BY <2>1, LoadableStays DEF ClosureIInv, WalkHolds
    <3>2. /\ \A m \in Names : BodyOf(tree, m)' = BodyOf(tree, m)
          /\ Closure(tree)' = Closure(tree)
      BY <2>1 DEF BodyOf, Closure, ClosedSet
    <3>3. /\ wanted \cup DOMAIN selected \subseteq Closure(tree)
          /\ Config \in wanted \cup DOMAIN selected
          /\ \A m \in DOMAIN selected :
               Selects[m][selected[m].body] \subseteq wanted \cup DOMAIN selected
          /\ \A m \in Names : m \in DOMAIN loaded <=> BodyOf(tree, m) # Absent
          /\ \A m \in DOMAIN loaded : loaded[m].body = BodyOf(tree, m)
      BY <2>1 DEF ClosureIInv, WalkHolds
    <3>4. Follows(n) \subseteq Closure(tree)
      BY <1>2, <2>1, <2>3, <2>4, <3>3, ClosureIsClosed
    <3>5. wanted' \cup DOMAIN selected' = wanted \cup DOMAIN selected \cup Follows(n)
      BY <2>1, <2>5
    <3>6. \A m \in DOMAIN selected' :
            Selects[m][selected'[m].body] \subseteq wanted' \cup DOMAIN selected'
      BY <2>4, <2>5, <2>7, <2>8, <3>3, <3>5
    <3>7. wanted' \cup DOMAIN selected' \subseteq Closure(tree)
      BY <3>3, <3>4, <3>5
    <3>8. Config \in wanted' \cup DOMAIN selected'
      BY <3>3, <3>5
    <3>9. \A m \in DOMAIN loaded' : loaded'[m].body = BodyOf(tree, m)'
      BY <2>1, <3>3 DEF BodyOf
    <3>10. DOMAIN loaded' = DOMAIN loaded
      BY <2>1
    <3>11. \A m \in DOMAIN selected' : m \in DOMAIN loaded' /\ selected'[m] = loaded'[m]
      BY <2>1, <2>7
    <3>12. \A m \in Names : m \in DOMAIN loaded' <=> BodyOf(tree, m)' # Absent
      BY <2>1, <3>2, <3>3
    <3>13. wanted' \cup DOMAIN selected' \subseteq Closure(tree)'
      BY <3>2, <3>7
    <3> QED
      BY <3>1, <3>6, <3>8, <3>9, <3>11, <3>12, <3>13 DEF WalkHolds
  <2> QED
    BY <2>9, <2>10, <2>11, <2>12 DEF ClosureIInv
<1> QED
  BY <1>1, <1>2

LEMMA PinKeepsIt ==
  ASSUME ClosureIInv, Pin
  PROVE  ClosureIInv'
<1> USE DEF Pin, release, reducing, ClosureIInv
<1>1. ClosureTypeOK'
  BY DEF ClosureTypeOK
<1>2. ChannelsHold' /\ ReductionHolds'
  BY DEF ChannelsHold, ReductionHolds
<1>3. WalkHolds'
  BY DEF WalkHolds
<1> QED
  BY <1>1, <1>2, <1>3

-----------------------------------------------------------------------------
(* Reductions                                                               *)

LEMMA ResolveKeepsIt ==
  ASSUME ClosureIInv, Resolve
  PROVE  ClosureIInv'
<1> USE ClosureAssumption DEF Resolve, release, compiling, ClosureIInv
<1>1. ClosureTypeOK'
  BY DEF ClosureTypeOK
<1>2. ChannelsHold' /\ ReductionHolds'
  BY DEF ChannelsHold, ReductionHolds, Trusted
<1>3. WalkHolds'
  BY DEF WalkHolds
<1> QED
  BY <1>1, <1>2, <1>3

LEMMA ResolveEntryKeepsIt ==
  ASSUME ClosureIInv, NEW n \in Names, ResolveEntry(n)
  PROVE  ClosureIInv'
<1> USE ClosureAssumption DEF ResolveEntry, release, compiling, ClosureIInv
<1>1. Selects[n][selected[n].body] \subseteq Names
  BY DEF ChannelsHold
<1>2. ClosureTypeOK'
  BY <1>1 DEF ClosureTypeOK
<1>3. ChannelsHold' /\ ReductionHolds'
  BY DEF ChannelsHold, ReductionHolds, Trusted
<1>4. WalkHolds'
  BY DEF WalkHolds, ReductionHolds
<1> QED
  BY <1>2, <1>3, <1>4

\* The reduction goes by exactly what was selected.
LEMMA ResolvedIsSelected ==
  ASSUME ClosureIInv, Resolved
  PROVE  resolved' = selected
BY DEF Resolved, Closed, SourceTree, ClosureIInv, ChannelsHold

LEMMA ResolvedKeepsIt ==
  ASSUME ClosureIInv, Resolved
  PROVE  ClosureIInv'
<1> USE ResolvedIsSelected DEF Resolved, release, compiling, ClosureIInv
<1>1. ClosureTypeOK'
  BY DEF ClosureTypeOK
<1>2. ChannelsHold' /\ ReductionHolds'
  BY DEF ChannelsHold, ReductionHolds
<1>3. WalkHolds'
  BY DEF WalkHolds, ReductionHolds
<1> QED
  BY <1>1, <1>2, <1>3

LEMMA ClosureInductive == ClosureIInv /\ [ClosureNext]_closureVars => ClosureIInv'
<1> SUFFICES ASSUME ClosureIInv, [ClosureNext]_closureVars PROVE ClosureIInv'
  OBVIOUS
<1>1. CASE Compiles
  BY <1>1, ReadCommitKeepsIt, LoadKeepsIt, RequireKeepsIt, PinKeepsIt DEF Compiles
<1>2. CASE Reduces
  BY <1>2, ResolveKeepsIt, ResolveEntryKeepsIt, ResolvedKeepsIt DEF Reduces
<1>3. CASE \E t \in Trees : Commit(t)
  BY <1>3, CommitKeepsIt
<1>4. CASE \E c \in Catalogs, e \in Environments : Release(c, e)
  BY <1>4, ReleaseKeepsIt
<1>5. CASE UNCHANGED closureVars
  <2> USE <1>5 DEF closureVars, ClosureIInv
  <2>1. ClosureTypeOK'
    BY DEF ClosureTypeOK
  <2>2. ChannelsHold' /\ ReductionHolds'
    BY DEF ChannelsHold, ReductionHolds, Trusted
  <2>3. WalkHolds'
    BY LoadableStays DEF WalkHolds, Closure, ClosedSet, BodyOf
  <2> QED
    BY <2>1, <2>2, <2>3
<1> QED
  BY <1>1, <1>2, <1>3, <1>4, <1>5 DEF ClosureNext

LEMMA ClosureInvariance == ClosureSpec => []ClosureIInv
BY ClosureInitially, ClosureInductive, PTL DEF ClosureSpec

\* What is pinned and what is refused.
Admits ==
  /\ admission' = "refused" /\ admission # "refused" => ~Compilable(tree)
  /\ admission' = "pinned" /\ admission # "pinned" =>
       /\ Compilable(tree)
       /\ selected = [n \in Closure(tree) |->
            [body |-> BodyOf(tree, n),
             origin |-> IF n \in Core THEN "platform" ELSE "repository"]]

LEMMA LoadRefusesRightly ==
  ASSUME ClosureIInv, Load
  PROVE  Admits
<1>1. tree \in Files /\ catalog \in Files
  BY FilesAreFiles DEF ClosureIInv
<1>2. CASE ~Loadable
  <2>1. ~Compilable(tree)
    BY <1>1, <1>2, LoadableIsInPlace DEF Compilable
  <2> QED
    BY <1>2, <2>1 DEF Admits, Load, Refuse
<1>3. CASE Loadable
  <2>1. admission' = "walking"
    BY <1>3 DEF Load
  <2> QED
    BY <2>1 DEF Admits
<1> QED
  BY <1>2, <1>3

LEMMA RequireRefusesRightly ==
  ASSUME ClosureIInv, NEW n \in Names, Require(n)
  PROVE  Admits
<1>1. CASE n \notin DOMAIN loaded \/ ~Parses(n)
  <2>1. n \in Closure(tree)
    BY DEF Require, ClosureIInv, WalkHolds
  <2>2. BodyOf(tree, n) \notin Bodies
    BY <1>1, ClosureAssumption DEF Require, ClosureIInv, WalkHolds, Parses
  <2> QED
    BY <1>1, <2>1, <2>2 DEF Admits, Compilable, Require, Refuse
<1>2. CASE n \in DOMAIN loaded /\ Parses(n)
  <2>1. admission' = "walking"
    BY <1>2 DEF Require
  <2> QED
    BY <2>1 DEF Admits
<1> QED
  BY <1>1, <1>2

LEMMA PinAdmitsExactly ==
  ASSUME ClosureIInv, Pin
  PROVE  Admits
<1>1. /\ admission = "walking" /\ wanted = {}
      /\ Loadable
      /\ \A n \in DOMAIN selected : selected[n].body = BodyOf(tree, n)
      /\ DOMAIN selected \subseteq Closure(tree)
      /\ Config \in DOMAIN selected
      /\ \A n \in DOMAIN selected : Selects[n][selected[n].body] \subseteq DOMAIN selected
  BY DEF Pin, ClosureIInv, WalkHolds
<1>2. DOMAIN selected \subseteq Names
  BY DEF ClosureIInv, ClosureTypeOK
<1>3. DOMAIN selected = Closure(tree)
  <2>1. ClosedSet(tree, DOMAIN selected)
    BY <1>1 DEF ClosedSet
  <2> QED
    BY <1>1, <1>2, <2>1, ClosureIsClosed
<1>4. Compilable(tree)
  <2>1. tree \in Files /\ catalog \in Files
    BY FilesAreFiles DEF ClosureIInv
  <2>2. InPlace(tree)
    BY <1>1, <2>1, LoadableIsInPlace
  <2>3. \A n \in Closure(tree) : BodyOf(tree, n) \in Bodies
    BY <1>1, <1>3 DEF ClosureIInv, ChannelsHold
  <2> QED
    BY <2>2, <2>3 DEF Compilable
<1>5. ASSUME NEW n \in Closure(tree)
      PROVE  selected[n] = [body |-> BodyOf(tree, n),
                            origin |-> IF n \in Core THEN "platform" ELSE "repository"]
  <2>1. selected[n] \in Entries /\ selected[n].origin = OriginOf(n)
    BY <1>3, <1>5 DEF ClosureIInv, ChannelsHold
  <2>2. selected[n].body = BodyOf(tree, n)
    BY <1>1, <1>3, <1>5
  <2> QED
    BY <2>1, <2>2 DEF Entries, OriginOf
<1>6. selected \in [Closure(tree) -> Entries]
  BY <1>3 DEF ClosureIInv, ChannelsHold
<1>7. selected = [n \in Closure(tree) |->
            [body |-> BodyOf(tree, n),
             origin |-> IF n \in Core THEN "platform" ELSE "repository"]]
  BY <1>5, <1>6
<1> QED
  BY <1>1, <1>4, <1>7 DEF Admits, Pin

LEMMA StepAdmits == ClosureIInv /\ [ClosureNext]_closureVars => Admits
<1> SUFFICES ASSUME ClosureIInv, [ClosureNext]_closureVars PROVE Admits
  OBVIOUS
<1>1. CASE ReadCommit
  BY <1>1 DEF ReadCommit, Admits
<1>2. CASE Reduces
  <2>1. admission' = admission
    BY <1>2 DEF Reduces, Resolve, ResolveEntry, Resolved
  <2> QED
    BY <2>1 DEF Admits
<1>3. CASE (\E t \in Trees : Commit(t)) \/ (\E c \in Catalogs, e \in Environments : Release(c, e))
  BY <1>3 DEF Commit, Release, Admits
<1>4. CASE UNCHANGED closureVars
  BY <1>4 DEF closureVars, Admits
<1> QED
  BY <1>1, <1>2, <1>3, <1>4, LoadRefusesRightly, RequireRefusesRightly, PinAdmitsExactly
  DEF ClosureNext, Compiles

\* What a reduction takes up while no other release starts.
TakesUpReleased ==
  resolving /\ ~resolving' /\ releases' = releases =>
    /\ environment = compiledIn
    /\ \A n \in DOMAIN resolved' \cap Core : resolved'[n].body = catalog[n]

LEMMA StepIsReleased == ClosureIInv /\ [ClosureNext]_closureVars => TakesUpReleased
<1> SUFFICES ASSUME ClosureIInv, [ClosureNext]_closureVars, resolving
             PROVE  /\ environment = compiledIn
                    /\ \A n \in DOMAIN resolved' \cap Core : resolved'[n].body = catalog[n]
  BY DEF TakesUpReleased
<1>0. environment = compiledIn
  BY DEF ClosureIInv, ReductionHolds, Trusted
<1>1. \A m \in DOMAIN selected \cap Core : selected[m].body = catalog[m]
  BY DEF ClosureIInv, ReductionHolds, ChannelsHold, OriginOf, Trusted
<1>2. resolved' = selected \/ resolved' = Nothing
  <2>1. CASE Resolved
    BY <2>1, ResolvedIsSelected
  <2>2. CASE ~Resolved
    <3>1. resolved' = resolved
      BY <2>2 DEF ClosureNext, Compiles, ReadCommit, Load, Refuse, Require, Pin, Reduces,
                  Resolve, ResolveEntry, Commit, Release, closureVars, reducing
    <3> QED
      BY <3>1 DEF ClosureIInv, ReductionHolds
  <2> QED
    BY <2>1, <2>2
<1>3. DOMAIN Nothing = {}
  BY DEF Nothing
<1> QED
  BY <1>0, <1>1, <1>2, <1>3

\* The walk over the definitions, what is pinned and what a reduction reads keep
\* their types.
THEOREM ClosureTypeCorrect == ClosureSpec => []ClosureTypeOK
<1>1. ClosureIInv => ClosureTypeOK
  BY DEF ClosureIInv
<1> QED
  BY <1>1, ClosureInvariance, PTL

\* For any identities, bodies, trees and releases: what is pinned is all that the
\* config selects and nothing else, of a commit whose files all lie where they
\* may; a reduction goes by what was pinned, and the core definitions it takes up
\* and the environment they were compiled in are those of the release that runs.
THEOREM ClosureIsSafe == ClosureSpec => ClosureSafe
<1>1. ClosureIInv => ResumedAsAdmitted
  BY DEF ClosureIInv, ReductionHolds, ResumedAsAdmitted
<1>2. ClosureSpec => []ResumedAsAdmitted
  BY <1>1, ClosureInvariance, PTL
<1>3. ClosureIInv /\ [ClosureNext]_closureVars => [Admits]_closureVars
  BY StepAdmits
<1>4. ClosureSpec => AdmittedExactly
  BY <1>3, ClosureInvariance, PTL DEF ClosureSpec, AdmittedExactly, Admits
<1>5. ClosureIInv /\ [ClosureNext]_closureVars => [TakesUpReleased]_closureVars
  BY StepIsReleased
<1>6. ClosureSpec => CoreIsReleased
  BY <1>5, ClosureInvariance, PTL DEF ClosureSpec, CoreIsReleased, TakesUpReleased
<1> QED
  BY <1>2, <1>4, <1>6, PTL DEF ClosureSafe

-----------------------------------------------------------------------------
(***************************************************************************)
(* For any proposals and limits: an attempt is executed once.  The         *)
(* invariant has two halves, what the call of the supervisor holds and     *)
(* what the sandbox holds; a step of the one keeps the other as long as    *)
(* complete work and its candidate stand, which is what SealHolds and      *)
(* RecordHolds say.                                                        *)
(***************************************************************************)

\* The lease of an attempt is the last one minted, a call holds one until the work
\* is complete, and a new one is minted for the work once more than it was retried
\* and for every correction.
LeaseHolds ==
  /\ lease \in {0, minted}
  /\ call \notin {"idle", "asking"} => lease # 0
  /\ standing \in Ended \cup {"work_complete"} => lease = 0
  /\ call \notin {"idle", "open", "asking"} => standing \in {"running", "result_pending"}
  /\ call = "asking" => standing = "work_complete"
  /\ minted <= retries + 1 + corrections
  /\ lease = 0 /\ standing = "pending" => minted <= retries + corrections
  /\ lease = 0 /\ Correcting => corrections <= CorrectionLimit
  /\ standing \in {"pending", "running", "work_complete"} => corrections = 0

\* What is recorded or to be corrected is the work of an agent with its session.
RecordHolds ==
  /\ Correcting \/ standing = "work_complete" => action = "agent" /\ bound
  /\ recordedAs # Unset => standing = "recorded"
  /\ recordedAs \in Proposals => engine /\ staged = recordedAs
  /\ recordedAs # Unset /\ action = "agent" => bound /\ checkpoint

\* The runner that is alive has yet to seal its lease, unless it exits; it works
\* only as long as the work is not complete.
RunnerHolds ==
  /\ OneRunner
  /\ \A r \in runners :
       /\ r.step \notin {"seal", "exit"} => sealed[r.lease] = Unset
       /\ r.step = "seal" => sealed[r.lease] = "partial"
       /\ r.step \in {"open", "seal", "exit"} => r.verdict \in Verdicts
       /\ r.step = "agent" => ~engine
       /\ r.step \in {"tail", "correct"} => engine
       /\ r.step = "correct" => checkpoint
       /\ r.verdict \in Proposals => engine /\ checkpoint /\ staged = r.verdict
  /\ runs = IF engine THEN 1 ELSE 0

\* What is sealed for an agent is the candidate that stands.
SealHolds ==
  /\ \A l \in Leases : sealed[l] \in Proposals =>
       engine /\ checkpoint /\ staged = sealed[l]
  /\ action = "command" =>
       /\ ~engine
       /\ \A r \in runners : /\ r.step \in {"start", "command", "open", "seal", "exit"}
                             /\ r.verdict \in {"exit", "retry", "fail", Unset}
       /\ \A l \in Leases : sealed[l] \in {"exit", "retry", "fail", "partial", Unset}
  /\ action = "agent" =>
       /\ \A r \in runners : r.step # "command" /\ r.verdict # "exit"
       /\ \A l \in Leases : sealed[l] # "exit"

AttemptTyped ==
  /\ action \in Actions
  /\ standing \in {"pending", "running", "work_complete", "result_pending"} \cup Ended
  /\ why \in {Unset, "outcome", "exhausted", "unavailable"}
  /\ lease \in Leases \cup {0} /\ minted \in Leases \cup {0}
  /\ generation \in Nat /\ retries \in 0..RetryLimit
  /\ corrections \in 0..(CorrectionLimit + 1)
  /\ bound \in BOOLEAN /\ late \in BOOLEAN
  /\ diagnosed \subseteq 0..RetryLimit
  /\ recordedAs \in Complete \cup {Unset}
  /\ call \in {"idle", "open", "entered", "fenced", "prepared", "polling",
               "adopted", "closing", "asking"}
FilesTyped ==
  /\ fence \in Int /\ fence >= -1
  /\ sealed \in [Leases -> Verdicts \cup {Unset, "partial"}]
  /\ sessions \subseteq Leases /\ forensics \subseteq Leases
  /\ engine \in BOOLEAN /\ checkpoint \in BOOLEAN
  /\ staged \in Proposals \cup {Unset} /\ rejected \in BOOLEAN
  /\ runners \subseteq Runners
  /\ runs \in Nat

\* The supervisor's half and the sandbox's half of the inductive invariant.
CallHolds == AttemptTyped /\ LeaseHolds /\ RecordHolds
SandboxHolds == FilesTyped /\ RunnerHolds /\ SealHolds
AttemptIInv == CallHolds /\ SandboxHolds /\ errors \in 0..MaxErrors

LEMMA LeasesAreNumbers == Leases \subseteq Nat \ {0}
BY LimitsAssumption DEF Leases

LEMMA IsTyped == ExecutionTypeOK <=> AttemptTyped /\ FilesTyped /\ errors \in 0..MaxErrors
BY DEF ExecutionTypeOK, AttemptTyped, FilesTyped

LEMMA AttemptInitially == ExecutionInit => AttemptIInv
<1> SUFFICES ASSUME ExecutionInit PROVE AttemptIInv
  OBVIOUS
<1> USE LimitsAssumption, UnsetAssumption DEF ExecutionInit
<1>1. sealed \in [Leases -> Verdicts \cup {Unset, "partial"}]
  OBVIOUS
<1>2. AttemptTyped
  <2>1. 0 \in 0..RetryLimit /\ 0 \in 0..(CorrectionLimit + 1)
    OBVIOUS
  <2> QED
    BY <2>1 DEF AttemptTyped
<1>3. FilesTyped
  <2>1. fence \in Int /\ fence >= -1 /\ runs \in Nat
    OBVIOUS
  <2>2. runners \subseteq Runners /\ sessions \subseteq Leases /\ forensics \subseteq Leases
    OBVIOUS
  <2> QED
    BY <1>1, <2>1, <2>2 DEF FilesTyped
<1>4. LeaseHolds /\ RecordHolds
  BY DEF LeaseHolds, RecordHolds, Correcting, Ended
<1>5. RunnerHolds
  BY DEF RunnerHolds, OneRunner
<1>6. SealHolds
  BY DEF SealHolds
<1> QED
  BY <1>2, <1>3, <1>4, <1>5, <1>6 DEF AttemptIInv, CallHolds, SandboxHolds

-----------------------------------------------------------------------------
(* How a lease ends                                                         *)

\* A call that is in the sandbox, with the lease it runs under.
LEMMA CallHasItsLease ==
  ASSUME CallHolds, call \notin {"idle", "open", "asking"}
  PROVE  /\ lease \in Leases /\ lease = minted
         /\ standing \in {"running", "result_pending"}
         /\ recordedAs = Unset
         /\ ~Correcting => corrections = 0 /\ standing = "running"
BY DEF CallHolds, AttemptTyped, LeaseHolds, RecordHolds, Correcting

LEMMA ThrewHolds ==
  ASSUME CallHolds, call \notin {"idle", "open", "asking"}, Threw, UNCHANGED files
  PROVE  CallHolds'
<1> USE CallHasItsLease, LimitsAssumption, LeasesAreNumbers DEF CallHolds, Threw, Finish, leased, files
<1>1. AttemptTyped'
  BY DEF AttemptTyped, Ended
<1>2. LeaseHolds'
  BY DEF AttemptTyped, LeaseHolds, Correcting, Ended
<1>3. RecordHolds'
  BY DEF RecordHolds, Correcting
<1> QED
  BY <1>1, <1>2, <1>3

LEMMA HandToHumanHolds ==
  ASSUME CallHolds, call \notin {"idle", "open", "asking"}, HandToHuman, UNCHANGED files
  PROVE  CallHolds'
<1> USE CallHasItsLease, LimitsAssumption, LeasesAreNumbers DEF CallHolds, HandToHuman, Finish, leased, files
<1>1. AttemptTyped'
  BY DEF AttemptTyped, Ended
<1>2. LeaseHolds'
  BY DEF AttemptTyped, LeaseHolds, Correcting, Ended
<1>3. RecordHolds'
  BY DEF RecordHolds, Correcting
<1> QED
  BY <1>1, <1>2, <1>3

LEMMA WorkFailedHolds ==
  ASSUME CallHolds, call \notin {"idle", "open", "asking"}, ~Correcting,
         NEW retryable, NEW evidence, WorkFailed(retryable, evidence), UNCHANGED files
  PROVE  CallHolds'
<1> USE CallHasItsLease, LimitsAssumption, LeasesAreNumbers DEF CallHolds, Finish, leased, files
<1>1. /\ UNCHANGED <<action, minted, corrections, late, recordedAs>>
      /\ diagnosed' \in {diagnosed, diagnosed \cup {retries}}
      /\ \/ /\ retries < RetryLimit
            /\ standing' = "pending" /\ retries' = retries + 1 /\ bound' = FALSE
            /\ lease' = 0 /\ generation' = 0 /\ call' = "idle" /\ UNCHANGED why
         \/ /\ standing' = "failed" /\ why' = "outcome"
            /\ lease' = 0 /\ generation' = 0 /\ call' = "idle"
            /\ UNCHANGED <<retries, bound>>
  BY DEF WorkFailed
<1>2. AttemptTyped'
  <2>1. diagnosed' \subseteq 0..RetryLimit
    BY <1>1 DEF AttemptTyped
  <2>2. retries' \in 0..RetryLimit
    BY <1>1 DEF AttemptTyped
  <2>3. /\ lease' = 0 /\ generation' = 0 /\ call' = "idle"
        /\ standing' \in {"pending", "failed"} /\ why' \in {why, "outcome"}
        /\ bound' \in {bound, FALSE}
    BY <1>1
  <2> QED
    BY <1>1, <2>1, <2>2, <2>3 DEF AttemptTyped, Ended
<1>3. LeaseHolds'
  BY <1>1 DEF AttemptTyped, LeaseHolds, Correcting, Ended
<1>4. RecordHolds'
  BY <1>1 DEF RecordHolds, Correcting
<1> QED
  BY <1>2, <1>3, <1>4

LEMMA FailedHolds ==
  ASSUME CallHolds, call \notin {"idle", "open", "asking"}, UNCHANGED files,
         NEW retryable, NEW evidence, Failed(retryable, evidence)
  PROVE  CallHolds'
BY HandToHumanHolds, WorkFailedHolds DEF Failed

\* A sealed result that is taken, with the session it may need.
LEMMA RecordKeepsIt ==
  ASSUME CallHolds, SandboxHolds, call \notin {"idle", "open", "asking"}, UNCHANGED files,
         sealed[lease] \in Complete, SessionKnown, Record(sealed[lease])
  PROVE  CallHolds'
<1> USE CallHasItsLease, LimitsAssumption, LeasesAreNumbers DEF CallHolds, Record, Finish, leased, files
<1>1. AttemptTyped'
  <2>1. (bound \/ lease \in sessions) \in BOOLEAN
    BY Zenon DEF AttemptTyped
  <2> QED
    BY <2>1 DEF AttemptTyped, Ended
<1>2. LeaseHolds'
  BY DEF AttemptTyped, LeaseHolds, Correcting, Ended
<1>3. sealed[lease] \in Proposals => engine /\ checkpoint /\ staged = sealed[lease]
  BY DEF SandboxHolds, SealHolds
<1>4. action = "agent" => sealed[lease] \in Proposals
  BY DEF SandboxHolds, SealHolds, Complete
<1>5. action = "agent" => bound'
  BY DEF RecordHolds, SessionKnown
<1>6. recordedAs' = sealed[lease] /\ standing' = "recorded"
  OBVIOUS
<1>7. RecordHolds'
  BY <1>3, <1>4, <1>5, <1>6 DEF RecordHolds, Correcting
<1> QED
  BY <1>1, <1>2, <1>7

LEMMA CompleteWorkHolds ==
  ASSUME CallHolds, SandboxHolds, call \notin {"idle", "open", "asking"}, UNCHANGED files,
         sealed[lease] = "pending", SessionKnown, ~Correcting, CompleteWork
  PROVE  CallHolds'
<1> USE CallHasItsLease, LimitsAssumption, LeasesAreNumbers DEF CallHolds, CompleteWork, files
<1>1. AttemptTyped'
  <2>1. (bound \/ lease \in sessions) \in BOOLEAN
    BY Zenon DEF AttemptTyped
  <2> QED
    BY <2>1 DEF AttemptTyped
<1>2. LeaseHolds'
  BY DEF AttemptTyped, LeaseHolds, Correcting, Ended
<1>3. action = "agent"
  BY ActionsAssumption, UnsetAssumption DEF SandboxHolds, SealHolds, AttemptTyped
<1>4. bound'
  BY <1>3 DEF RecordHolds, SessionKnown
<1>5. RecordHolds'
  BY <1>3, <1>4 DEF RecordHolds, Correcting
<1> QED
  BY <1>1, <1>2, <1>5

LEMMA AskForCorrectionHolds ==
  ASSUME CallHolds, AskForCorrection
  PROVE  CallHolds'
<1> USE LimitsAssumption DEF CallHolds, AskForCorrection, leased, files
<1>1. AttemptTyped'
  BY DEF AttemptTyped
<1>2. LeaseHolds'
  BY DEF AttemptTyped, LeaseHolds, Correcting, Ended
<1>3. RecordHolds'
  BY DEF LeaseHolds, RecordHolds, Correcting
<1> QED
  BY <1>1, <1>2, <1>3

LEMMA AskAgainHolds ==
  ASSUME CallHolds, call \notin {"idle", "open", "asking"}, UNCHANGED files,
         Correcting, corrections < CorrectionLimit, AskAgain
  PROVE  CallHolds'
<1> USE CallHasItsLease, LimitsAssumption, LeasesAreNumbers DEF CallHolds, AskAgain, attempt, files
<1>1. AttemptTyped'
  BY DEF AttemptTyped
<1>2. LeaseHolds'
  BY DEF AttemptTyped, LeaseHolds, Correcting, Ended
<1>3. RecordHolds'
  BY DEF RecordHolds, Correcting
<1> QED
  BY <1>1, <1>2, <1>3

LEMMA SettledHolds ==
  ASSUME CallHolds, SandboxHolds, call \notin {"idle", "open", "asking"}, UNCHANGED files,
         SessionKnown, Settled(sealed[lease])
  PROVE  CallHolds'
<1>1. CASE Correcting
  BY <1>1, RecordKeepsIt, AskAgainHolds, HandToHumanHolds
  DEF Settled, CorrectionSettled
<1>2. CASE ~Correcting
  <2>1. CASE WorkFailed(sealed[lease] = "retry", FALSE)
    BY <1>2, <2>1, WorkFailedHolds
  <2>2. CASE ~WorkFailed(sealed[lease] = "retry", FALSE)
    BY <1>2, <2>2, RecordKeepsIt, CompleteWorkHolds, HandToHumanHolds
    DEF Settled, WorkSettled
  <2> QED
    BY <2>1, <2>2
<1> QED
  BY <1>1, <1>2

-----------------------------------------------------------------------------
(* The supervisor's steps                                                   *)

\* What the supervisor does beside the sandbox leaves the sandbox as it is.
LEMMA SandboxKept ==
  ASSUME SandboxHolds, UNCHANGED <<action, files, runs>>, runners' \subseteq runners
  PROVE  SandboxHolds'
<1> USE DEF SandboxHolds, files
<1>1. FilesTyped'
  BY DEF FilesTyped
<1>2. RunnerHolds'
  BY DEF RunnerHolds, OneRunner
<1>3. SealHolds'
  BY DEF SealHolds
<1> QED
  BY <1>1, <1>2, <1>3

LEMMA LeaseKeepsIt ==
  ASSUME CallHolds, Lease
  PROVE  CallHolds'
<1> USE LimitsAssumption DEF CallHolds, Lease, files
<1>1. /\ minted \in Nat /\ retries \in Nat /\ corrections \in Nat
      /\ retries <= RetryLimit
  BY LeasesAreNumbers DEF AttemptTyped
<1>2. corrections' <= CorrectionLimit + 1 /\ corrections' \in Nat
  BY <1>1 DEF LeaseHolds, Correcting
<1>3. minted + 1 <= retries + 1 + corrections'
  BY <1>1 DEF LeaseHolds, Correcting
<1>4. minted' \in Leases
  BY <1>1, <1>2, <1>3 DEF Leases
<1>5. corrections' \in 0..(CorrectionLimit + 1)
  BY <1>2
<1>6. AttemptTyped'
  BY <1>4, <1>5 DEF AttemptTyped
<1>7. LeaseHolds'
  BY <1>1, <1>2, <1>3, <1>4 DEF LeaseHolds, Correcting, Ended
<1>8. RecordHolds'
  BY DEF RecordHolds, Correcting
<1> QED
  BY <1>6, <1>7, <1>8

LEMMA CallKeepsIt ==
  ASSUME CallHolds, UNCHANGED <<attempt, lease, files>>, generation' \in Nat,
         \/ call' = "idle" \/ (call' = "open" /\ lease # 0)
         \/ /\ call \notin {"idle", "open", "asking"}
            /\ call' \in {"fenced", "prepared", "polling", "adopted", "closing"}
  PROVE  CallHolds'
<1> USE DEF CallHolds, attempt, files
<1>1. AttemptTyped'
  BY DEF AttemptTyped
<1>2. LeaseHolds'
  BY DEF LeaseHolds, Correcting
<1>3. RecordHolds'
  BY DEF RecordHolds, Correcting
<1> QED
  BY <1>1, <1>2, <1>3

LEMMA RefuseCorrectionHolds ==
  ASSUME CallHolds, RefuseCorrection
  PROVE  CallHolds'
<1> USE LimitsAssumption, LeasesAreNumbers DEF CallHolds, RefuseCorrection, Finish, files
<1>1. AttemptTyped'
  BY DEF AttemptTyped, Ended
<1>2. LeaseHolds'
  BY DEF AttemptTyped, LeaseHolds, Correcting, Ended
<1>3. RecordHolds'
  BY DEF RecordHolds, Correcting
<1> QED
  BY <1>1, <1>2, <1>3

LEMMA StartLeaseHolds ==
  ASSUME CallHolds, StartLease
  PROVE  CallHolds'
<1> USE LimitsAssumption DEF CallHolds, StartLease, files, leased
<1>1. lease # 0 /\ standing \notin Ended \cup {"work_complete"}
  BY DEF LeaseHolds
<1>2. standing' = standing \/ (standing' = "running" /\ standing \in {"pending", "running"})
  BY <1>1 DEF AttemptTyped, Correcting
<1>3. AttemptTyped'
  BY <1>2 DEF AttemptTyped
<1>4. LeaseHolds'
  BY <1>1, <1>2 DEF AttemptTyped, LeaseHolds, Correcting, Ended
<1>5. RecordHolds'
  BY <1>1, <1>2 DEF RecordHolds, Correcting, Ended
<1> QED
  BY <1>3, <1>4, <1>5

LEMMA RefreshFenceHolds ==
  ASSUME AttemptIInv, RefreshFence
  PROVE  CallHolds' /\ SandboxHolds'
<1> USE DEF AttemptIInv, RefreshFence, attempt, leased
<1>1. AttemptTyped' /\ LeaseHolds' /\ RecordHolds'
  BY DEF CallHolds, AttemptTyped, LeaseHolds, RecordHolds, Correcting
<1>2. FilesTyped'
  BY DEF CallHolds, AttemptTyped, SandboxHolds, FilesTyped
<1>3. RunnerHolds' /\ SealHolds'
  BY DEF SandboxHolds, RunnerHolds, OneRunner, SealHolds
<1> QED
  BY <1>1, <1>2, <1>3 DEF CallHolds, SandboxHolds

LEMMA DispatchHolds ==
  ASSUME AttemptIInv, Dispatch
  PROVE  CallHolds' /\ SandboxHolds'
<1>1. /\ call = "prepared" /\ UNCHANGED <<attempt, leased, files, runs, errors>>
      /\ call' \in {"closing", "adopted", "polling"}
      /\ \/ runners' = runners
         \/ /\ runners = {} /\ sealed[lease] = Unset
            /\ runners' = {Worker(lease)}
  <2>1. call = "prepared" /\ UNCHANGED <<attempt, leased, files, runs, errors>>
    BY DEF Dispatch
  <2>2. PICK identified \in BOOLEAN :
          call' = CASE ~identified -> "closing"
                    [] identified /\ runners # {} -> "adopted"
                    [] identified /\ ~(runners # {}) -> "polling"
    BY DEF Dispatch
  <2>3. call' \in {"closing", "adopted", "polling"}
    BY <2>2
  <2>4. runners' = IF runners # {} \/ AlreadyRan THEN runners ELSE {Worker(lease)}
    BY DEF Dispatch
  <2> QED
    BY <2>1, <2>3, <2>4 DEF AlreadyRan
<1>2. CallHolds'
  BY <1>1, CallKeepsIt DEF AttemptIInv, CallHolds, AttemptTyped, leased
<1>3. CASE runners' = runners
  BY <1>1, <1>2, <1>3, SandboxKept DEF AttemptIInv, attempt
<1>4. CASE runners = {} /\ sealed[lease] = Unset /\ runners' = {Worker(lease)}
  <2>1. lease \in Leases
    BY <1>1, CallHasItsLease DEF AttemptIInv
  <2>2. Worker(lease) \in Runners
    BY <2>1 DEF Worker, Runners, Steps
  <2>3. /\ Worker(lease).lease = lease /\ Worker(lease).step = "start"
        /\ Worker(lease).verdict = Unset
    BY DEF Worker
  <2> HIDE DEF Worker
  <2> USE <1>1, <1>4, <2>1, <2>2, <2>3, UnsetAssumption
      DEF AttemptIInv, SandboxHolds, files, attempt
  <2>4. FilesTyped'
    BY DEF FilesTyped
  <2>5. RunnerHolds'
    BY DEF RunnerHolds, OneRunner
  <2>6. SealHolds'
    BY DEF SealHolds
  <2> QED
    BY <1>2, <2>4, <2>5, <2>6
<1> QED
  BY <1>1, <1>3, <1>4

LEMMA BindSessionHolds ==
  ASSUME CallHolds, BindSession
  PROVE  CallHolds'
<1> USE DEF CallHolds, BindSession, Collecting, leased, files
<1>1. AttemptTyped'
  BY DEF AttemptTyped
<1>2. LeaseHolds'
  BY DEF LeaseHolds, Correcting
<1>3. RecordHolds'
  BY DEF RecordHolds, Correcting
<1> QED
  BY <1>1, <1>2, <1>3

LEMMA CorrectionExpiresHolds ==
  ASSUME CallHolds, CorrectionExpires
  PROVE  CallHolds'
<1> USE DEF CallHolds, CorrectionExpires, leased, files
<1>1. AttemptTyped'
  BY DEF AttemptTyped
<1>2. LeaseHolds'
  BY DEF LeaseHolds, Correcting
<1>3. RecordHolds'
  BY DEF RecordHolds, Correcting
<1> QED
  BY <1>1, <1>2, <1>3

\* The settled, failed and given-up calls leave the files as they are.
LEMMA EndedKeepsAction ==
  /\ \A v : Settled(v) => action' = action
  /\ \A a, b : Failed(a, b) => action' = action
  /\ Threw => action' = action
BY DEF Settled, CorrectionSettled, WorkSettled, Record, CompleteWork, AskAgain, HandToHuman,
       Failed, WorkFailed, Threw, attempt

LEMMA CollectHolds ==
  ASSUME AttemptIInv, Collect
  PROVE  CallHolds' /\ SandboxHolds'
<1>1. call \notin {"idle", "open", "asking"} /\ UNCHANGED <<files, runners, runs, errors>>
  BY DEF Collect, Collecting
<1>2. CASE SessionKnown /\ Settled(sealed[lease])
  <2>1. CallHolds'
    BY <1>1, <1>2, SettledHolds DEF AttemptIInv
  <2> QED
    BY <1>1, <1>2, <2>1, EndedKeepsAction, SandboxKept DEF AttemptIInv
<1>3. CASE Threw
  BY <1>1, <1>3, ThrewHolds, EndedKeepsAction, SandboxKept DEF AttemptIInv
<1> QED
  BY <1>2, <1>3 DEF Collect

LEMMA CloseSessionHolds ==
  ASSUME AttemptIInv, CloseSession
  PROVE  CallHolds' /\ SandboxHolds'
<1>1. /\ call = "closing" /\ runners' \subseteq runners
      /\ UNCHANGED <<files, runs, errors>>
  BY DEF CloseSession
<1>2. CASE Sealed(lease) /\ SessionKnown
  <2>1. Settled(sealed[lease])
    BY <1>2 DEF CloseSession
  <2>2. CallHolds'
    BY <1>1, <1>2, <2>1, SettledHolds DEF AttemptIInv
  <2> QED
    BY <1>1, <2>1, <2>2, EndedKeepsAction, SandboxKept DEF AttemptIInv
<1>3. CASE Sealed(lease) /\ ~SessionKnown
  <2>1. Threw
    BY <1>3 DEF CloseSession
  <2> QED
    BY <1>1, <2>1, ThrewHolds, EndedKeepsAction, SandboxKept DEF AttemptIInv
<1>4. CASE ~Sealed(lease)
  <2>1. Failed(TRUE, lease \in forensics)
    BY <1>4 DEF CloseSession
  <2>2. CallHolds'
    BY <1>1, <2>1, FailedHolds DEF AttemptIInv
  <2> QED
    BY <1>1, <2>1, <2>2, EndedKeepsAction, SandboxKept DEF AttemptIInv
<1> QED
  BY <1>2, <1>3, <1>4

LEMMA FailingCallHolds ==
  ASSUME AttemptIInv, ExpireBeforeDispatch \/ CloseUnverified \/ FenceRefuses \/ ProviderError
  PROVE  CallHolds' /\ SandboxHolds'
<1>1. call \notin {"idle", "open", "asking"} /\ UNCHANGED <<files, runners, runs>>
  BY DEF ExpireBeforeDispatch, CloseUnverified, FenceRefuses, ProviderError
<1>2. CASE Threw
  BY <1>1, <1>2, ThrewHolds, EndedKeepsAction, SandboxKept DEF AttemptIInv
<1>3. CASE Failed(TRUE, FALSE)
  <2>1. CallHolds'
    BY <1>1, <1>3, FailedHolds DEF AttemptIInv
  <2> QED
    BY <1>1, <1>3, <2>1, EndedKeepsAction, SandboxKept DEF AttemptIInv
<1>4. CASE Failed(FALSE, FALSE)
  <2>1. CallHolds'
    BY <1>1, <1>4, FailedHolds DEF AttemptIInv
  <2> QED
    BY <1>1, <1>4, <2>1, EndedKeepsAction, SandboxKept DEF AttemptIInv
<1> QED
  BY <1>2, <1>3, <1>4 DEF ExpireBeforeDispatch, CloseUnverified, FenceRefuses, ProviderError

-----------------------------------------------------------------------------
(* The runner's steps                                                       *)

\* The supervisor's half survives what a runner does, as long as what is recorded
\* stands.
LEMMA CallKept ==
  ASSUME CallHolds, UNCHANGED <<attempt, leased, call>>,
         engine => engine', checkpoint => checkpoint',
         engine /\ staged # Unset => staged' = staged
  PROVE  CallHolds'
<1> USE UnsetAssumption DEF CallHolds, attempt, leased
<1>1. AttemptTyped'
  BY DEF AttemptTyped
<1>2. LeaseHolds'
  BY DEF LeaseHolds, Correcting
<1>3. RecordHolds'
  BY DEF RecordHolds, Correcting
<1> QED
  BY <1>1, <1>2, <1>3

\* The one runner moves on.
LEMMA RunnerMoves ==
  ASSUME AttemptIInv, NEW r \in runners, NEW s \in Steps,
         NEW v \in Verdicts \cup {Unset}, Goes(r, s, v)
  PROVE  \E q \in Runners : /\ runners' = {q}
                            /\ q.lease = r.lease /\ q.step = s /\ q.verdict = v
<1>1. runners = {r} /\ r \in Runners
  BY DEF AttemptIInv, SandboxHolds, FilesTyped, RunnerHolds, OneRunner
<1> DEFINE q == [r EXCEPT !.step = s, !.verdict = v]
<1>2. q \in Runners /\ q.lease = r.lease /\ q.step = s /\ q.verdict = v
  BY <1>1 DEF Runners
<1>3. runners' = {q}
  BY <1>1 DEF Goes
<1> QED
  BY <1>2, <1>3

\* What the files become when the runner moves on: nothing is sealed, the engine's
\* state and the checkpoint stay, and what was staged for complete work stays.
LEMMA SandboxMoves ==
  ASSUME AttemptIInv, NEW r \in runners, NEW s \in Steps,
         NEW v \in Verdicts \cup {Unset}, Goes(r, s, v),
         UNCHANGED <<action, fence, forensics, sealed>>,
         sessions' \subseteq Leases, engine' \in BOOLEAN, checkpoint' \in BOOLEAN,
         rejected' \in BOOLEAN, staged' \in Proposals \cup {Unset},
         engine => engine', checkpoint => checkpoint',
         engine /\ staged # Unset => staged' = staged,
         runs' = IF engine' THEN 1 ELSE 0,
         r.step \notin {"seal", "exit"}, s \notin {"seal", "exit"},
         s = "open" => v \in Verdicts,
         s = "agent" => ~engine', s \in {"tail", "correct"} => engine',
         s = "correct" => checkpoint',
         v \in Proposals => engine' /\ checkpoint' /\ staged' = v,
         action = "command" => /\ ~engine' /\ s \in {"start", "command", "open"}
                               /\ v \in {"exit", "retry", "fail", Unset},
         action = "agent" => s # "command" /\ v # "exit"
  PROVE  SandboxHolds'
<1>1. PICK q \in Runners : runners' = {q} /\ q.lease = r.lease /\ q.step = s /\ q.verdict = v
  BY RunnerMoves
<1>2. FilesTyped'
  BY <1>1 DEF AttemptIInv, SandboxHolds, FilesTyped
<1>3. RunnerHolds'
  <2>1. sealed[r.lease] = Unset
    BY DEF AttemptIInv, SandboxHolds, RunnerHolds
  <2>2. OneRunner'
    BY <1>1 DEF OneRunner
  <2> QED
    BY <1>1, <2>1, <2>2 DEF RunnerHolds
<1>4. SealHolds'
  <2>1. \A l \in Leases : sealed[l] \in Proposals => engine' /\ checkpoint' /\ staged' = sealed[l]
    BY UnsetAssumption DEF AttemptIInv, SandboxHolds, SealHolds
  <2> QED
    BY <1>1, <2>1 DEF AttemptIInv, SandboxHolds, SealHolds
<1> QED
  BY <1>2, <1>3, <1>4 DEF SandboxHolds

\* Facts of the runner that is about to move.
LEMMA RunnerIs ==
  ASSUME AttemptIInv, NEW r \in runners
  PROVE  /\ r \in Runners /\ runs = IF engine THEN 1 ELSE 0
         /\ r.step = "agent" => ~engine
         /\ r.step \in {"tail", "correct"} => engine
         /\ r.step = "correct" => checkpoint
         /\ action = "command" =>
              ~engine /\ r.step \in {"start", "command", "open", "seal", "exit"}
         /\ action = "agent" => r.step # "command"
         /\ action \in {"agent", "command"}
         /\ sessions \subseteq Leases /\ engine \in BOOLEAN /\ checkpoint \in BOOLEAN
         /\ rejected \in BOOLEAN /\ staged \in Proposals \cup {Unset}
         /\ Correcting => action = "agent"
BY ActionsAssumption DEF AttemptIInv, SandboxHolds, FilesTyped, RunnerHolds, SealHolds,
   CallHolds, AttemptTyped, RecordHolds

LEMMA Vocabulary ==
  /\ Verdicts = Proposals \cup {"exit", "pending", "retry", "fail", "human"}
  /\ Proposals \cap {"exit", "pending", "retry", "fail", "human"} = {}
  /\ Unset \notin Verdicts /\ "partial" \notin Verdicts \cup {Unset}
BY UnsetAssumption DEF Verdicts, Complete

LEMMA RunnerStartsHolds ==
  ASSUME AttemptIInv, NEW r \in runners, RunnerStarts(r)
  PROVE  CallHolds' /\ SandboxHolds'
<1> DEFINE corrects == Correcting /\ r.lease = minted
<1>0. /\ r.step = "start" /\ SupervisorKept
      /\ UNCHANGED <<sealed, sessions, forensics, engine, checkpoint, runs, errors>>
  BY DEF RunnerStarts
<1>1. \/ /\ checkpoint /\ engine /\ action = "agent" /\ Goes(r, "correct", Unset)
         /\ UNCHANGED <<staged, rejected>>
      \/ /\ action = "agent" /\ Goes(r, "open", "human") /\ UNCHANGED <<staged, rejected>>
      \/ action = "command" /\ Goes(r, "command", Unset) /\ UNCHANGED <<staged, rejected>>
      \/ action = "agent" /\ engine /\ Goes(r, "tail", Unset) /\ UNCHANGED <<staged, rejected>>
      \/ /\ action = "agent" /\ ~engine /\ Goes(r, "agent", Unset)
         /\ staged' = Unset /\ rejected' = FALSE
  <2>1. CASE corrects
    BY <2>1, RunnerIs DEF RunnerStarts, Seals
  <2>2. CASE ~corrects /\ action = "command"
    BY <2>2 DEF RunnerStarts
  <2>3. CASE ~corrects /\ action = "agent" /\ engine
    BY <2>3 DEF RunnerStarts
  <2>4. CASE ~corrects /\ action = "agent" /\ ~engine
    BY <2>4 DEF RunnerStarts
  <2> QED
    BY <2>1, <2>2, <2>3, <2>4, RunnerIs
<1>2. engine /\ staged # Unset => staged' = staged
  BY <1>1
<1>3. CallHolds'
  BY <1>0, <1>2, CallKept DEF AttemptIInv, SupervisorKept
<1>4. SandboxHolds'
  <2> USE <1>0, <1>2, RunnerIs, SandboxMoves, Vocabulary DEF SupervisorKept, attempt, Steps
  <2>1. CASE checkpoint /\ engine /\ action = "agent" /\ Goes(r, "correct", Unset)
             /\ UNCHANGED <<staged, rejected>>
    BY <2>1
  <2>2. CASE action = "agent" /\ Goes(r, "open", "human") /\ UNCHANGED <<staged, rejected>>
    BY <2>2
  <2>3. CASE action = "command" /\ Goes(r, "command", Unset) /\ UNCHANGED <<staged, rejected>>
    BY <2>3
  <2>4. CASE action = "agent" /\ engine /\ Goes(r, "tail", Unset) /\ UNCHANGED <<staged, rejected>>
    BY <2>4
  <2>5. CASE action = "agent" /\ ~engine /\ Goes(r, "agent", Unset)
             /\ staged' = Unset /\ rejected' = FALSE
    BY <2>5
  <2> QED
    BY <1>1, <2>1, <2>2, <2>3, <2>4, <2>5
<1> QED
  BY <1>3, <1>4

\* A runner that goes on without a word on the candidate or the checkpoint.
LEMMA QuietMoveHolds ==
  ASSUME AttemptIInv, NEW r \in runners, SupervisorKept,
         UNCHANGED <<sealed, sessions, forensics, engine, checkpoint, staged, rejected, runs>>,
         NEW v \in Verdicts \ Proposals, Goes(r, "open", v),
         r.step \in {"agent", "command", "tail", "correct"},
         v = "exit" => action = "command",
         action = "command" => v \in {"exit", "retry", "fail"}
  PROVE  CallHolds' /\ SandboxHolds'
<1>1. CallHolds'
  BY CallKept DEF AttemptIInv, SupervisorKept
<1>2. SandboxHolds'
  BY RunnerIs, SandboxMoves, Vocabulary DEF SupervisorKept, attempt, Steps
<1> QED
  BY <1>1, <1>2

LEMMA AgentReportsHolds ==
  ASSUME AttemptIInv, NEW r \in runners, AgentReports(r)
  PROVE  CallHolds' /\ SandboxHolds'
<1> USE DEF AgentReports, SupervisorKept
<1>1. CallHolds'
  BY CallKept DEF AttemptIInv
<1>2. r.lease \in Leases
  BY RunnerIs DEF Runners
<1>3. FilesTyped' /\ RunnerHolds' /\ SealHolds'
  BY <1>2 DEF AttemptIInv, SandboxHolds, FilesTyped, RunnerHolds, OneRunner, SealHolds, attempt
<1> QED
  BY <1>1, <1>3 DEF SandboxHolds

LEMMA AgentSubmitsHolds ==
  ASSUME AttemptIInv, NEW r \in runners, AgentSubmits(r)
  PROVE  CallHolds' /\ SandboxHolds'
<1> USE DEF AgentSubmits, SupervisorKept
<1>1. CallHolds'
  BY CallKept DEF AttemptIInv
<1>2. FilesTyped'
  BY DEF AttemptIInv, SandboxHolds, FilesTyped
<1>3. \A p \in Proposals : staged = p => staged' = p
  BY UnsetAssumption
<1>4. RunnerHolds' /\ SealHolds'
  BY <1>3 DEF AttemptIInv, SandboxHolds, RunnerHolds, OneRunner, SealHolds, attempt
<1> QED
  BY <1>1, <1>2, <1>4 DEF SandboxHolds

LEMMA AgentCompletesHolds ==
  ASSUME AttemptIInv, NEW r \in runners, AgentCompletes(r)
  PROVE  CallHolds' /\ SandboxHolds'
<1>1. /\ r.step = "agent" /\ SupervisorKept
      /\ UNCHANGED <<sealed, sessions, forensics, checkpoint, staged, rejected, errors>>
  BY DEF AgentCompletes
<1>2. action = "agent" /\ ~engine
  BY <1>1, RunnerIs
<1>3. CASE r.lease \in sessions
  <2>1. Goes(r, "tail", Unset) /\ engine' = TRUE /\ runs' = runs + 1
    BY <1>3 DEF AgentCompletes
  <2>2. runs' = 1
    BY <1>2, <2>1, RunnerIs
  <2>3. CallHolds'
    BY <1>1, <1>2, <2>1, CallKept DEF AttemptIInv, SupervisorKept
  <2>4. SandboxHolds'
    BY <1>1, <1>2, <2>1, <2>2, RunnerIs, SandboxMoves, Vocabulary
    DEF SupervisorKept, attempt, Steps
  <2> QED
    BY <2>3, <2>4
<1>4. CASE r.lease \notin sessions
  <2>1. Goes(r, "open", "retry") /\ UNCHANGED <<engine, runs>>
    BY <1>4 DEF AgentCompletes, Seals
  <2> QED
    BY <1>1, <1>2, <2>1, QuietMoveHolds, Vocabulary
<1> QED
  BY <1>3, <1>4

LEMMA RunnerFailsHolds ==
  ASSUME AttemptIInv, NEW r \in runners, AgentFails(r) \/ ContextFails(r) \/ CommandEnds(r)
  PROVE  CallHolds' /\ SandboxHolds'
<1>1. /\ SupervisorKept
      /\ UNCHANGED <<sealed, sessions, forensics, engine, checkpoint, staged, rejected, runs>>
  BY DEF AgentFails, ContextFails, CommandEnds
<1>2. \/ r.step = "agent" /\ \E v \in {"retry", "fail", "human"} : Goes(r, "open", v)
      \/ r.step = "command" /\ \E v \in {"exit", "retry", "fail"} : Goes(r, "open", v)
  BY DEF AgentFails, ContextFails, CommandEnds, Seals
<1> QED
  BY <1>1, <1>2, RunnerIs, QuietMoveHolds, Vocabulary

LEMMA OfferedKeeps ==
  ASSUME AttemptIInv, NEW r \in runners, NEW final \in Finals, Offered(final)
  PROVE  /\ staged' = Kept(final) /\ staged' \in Proposals \cup {Unset}
         /\ rejected' \in BOOLEAN
         /\ staged # Unset => staged' = staged
<1>1. rejected' \in BOOLEAN
  BY Zenon DEF Offered
<1> QED
  BY <1>1, RunnerIs DEF Offered, Kept

\* A turn that ends with a verdict on what is staged then.
LEMMA TurnEndsHolds ==
  ASSUME AttemptIInv, NEW r \in runners, r.step \in {"tail", "correct"}, SupervisorKept,
         checkpoint' \in {checkpoint, TRUE}, UNCHANGED <<sealed, sessions, forensics, engine, runs>>,
         staged' \in Proposals \cup {Unset}, rejected' \in BOOLEAN,
         staged # Unset => staged' = staged,
         NEW v \in Verdicts, v # "exit", Goes(r, "open", v),
         v \in Proposals => staged' = v /\ checkpoint' = TRUE
  PROVE  CallHolds' /\ SandboxHolds'
<1>1. action = "agent" /\ engine /\ checkpoint' \in BOOLEAN
  BY RunnerIs
<1>2. checkpoint => checkpoint'
  OBVIOUS
<1>3. CallHolds'
  BY <1>2, CallKept DEF AttemptIInv, SupervisorKept
<1>4. SandboxHolds'
  BY <1>1, <1>2, RunnerIs, SandboxMoves DEF SupervisorKept, attempt, Steps
<1> QED
  BY <1>3, <1>4

LEMMA SubmittedHolds ==
  ASSUME AttemptIInv, NEW r \in runners, NEW final \in Finals, Submitted(r, final),
         r.step \in {"tail", "correct"}, SupervisorKept, checkpoint' = TRUE,
         UNCHANGED <<sealed, sessions, forensics, engine, runs>>
  PROVE  CallHolds' /\ SandboxHolds'
<1> DEFINE v == IF Kept(final) # Unset /\ final \in {"missing", "garbage", Kept(final)}
                  THEN Kept(final) ELSE "pending"
<1>1. Offered(final) /\ Goes(r, "open", v)
  BY DEF Submitted, Seals
<1>2. /\ staged' = Kept(final) /\ staged' \in Proposals \cup {Unset}
      /\ rejected' \in BOOLEAN
      /\ staged # Unset => staged' = staged
  BY <1>1, OfferedKeeps
<1>3. v \in Verdicts /\ v # "exit"
  BY <1>2, Vocabulary
<1>4. v \in Proposals => staged' = v /\ checkpoint' = TRUE
  BY <1>2, Vocabulary
<1> HIDE DEF v
<1> QED
  BY <1>1, <1>2, <1>3, <1>4, TurnEndsHolds

LEMMA GivesUpHolds ==
  ASSUME AttemptIInv, NEW r \in runners, NEW v \in {"fail", "human"}, GivesUp(r, v),
         r.step \in {"tail", "correct"}, SupervisorKept, checkpoint' \in {checkpoint, TRUE},
         UNCHANGED <<sealed, sessions, forensics, engine, runs>>
  PROVE  CallHolds' /\ SandboxHolds'
<1>1. Goes(r, "open", v) /\ v \in Verdicts /\ v # "exit" /\ v \notin Proposals
  BY Vocabulary DEF GivesUp, Seals
<1>2. /\ staged' \in Proposals \cup {Unset} /\ rejected' \in BOOLEAN
      /\ staged # Unset => staged' = staged
  <2>1. CASE UNCHANGED <<staged, rejected>>
    BY <2>1, RunnerIs
  <2>2. CASE \E final \in Finals : Offered(final)
    BY <2>2, OfferedKeeps
  <2> QED
    BY <2>1, <2>2 DEF GivesUp
<1> QED
  BY <1>1, <1>2, TurnEndsHolds

LEMMA TailEndsHolds ==
  ASSUME AttemptIInv, NEW r \in runners, TailEnds(r)
  PROVE  CallHolds' /\ SandboxHolds'
<1>1. /\ r.step = "tail" /\ SupervisorKept
      /\ UNCHANGED <<sealed, sessions, forensics, engine, runs, errors>>
  BY DEF TailEnds
<1>2. CASE (\E final \in Finals : Submitted(r, final)) /\ checkpoint' = TRUE
  BY <1>1, <1>2, SubmittedHolds
<1>3. CASE GivesUp(r, "fail") /\ checkpoint' \in {checkpoint, TRUE}
  BY <1>1, <1>3, GivesUpHolds
<1> QED
  BY <1>2, <1>3 DEF TailEnds

LEMMA CorrectionEndsHolds ==
  ASSUME AttemptIInv, NEW r \in runners, CorrectionEnds(r)
  PROVE  CallHolds' /\ SandboxHolds'
<1>1. /\ r.step = "correct" /\ SupervisorKept
      /\ UNCHANGED <<sealed, sessions, forensics, engine, checkpoint, runs, errors>>
  BY DEF CorrectionEnds
<1>2. checkpoint' \in {checkpoint, TRUE} /\ checkpoint' = TRUE
  BY <1>1, RunnerIs
<1>3. CASE \E final \in Finals : Submitted(r, final)
  BY <1>1, <1>2, <1>3, SubmittedHolds
<1>4. CASE GivesUp(r, "human")
  BY <1>1, <1>2, <1>4, GivesUpHolds
<1> QED
  BY <1>3, <1>4 DEF CorrectionEnds

LEMMA SealingHolds ==
  ASSUME AttemptIInv, NEW r \in runners, OpenResult(r) \/ SealResult(r)
  PROVE  CallHolds' /\ SandboxHolds'
<1>1. /\ SupervisorKept
      /\ UNCHANGED <<sessions, forensics, engine, checkpoint, staged, rejected, runs, errors>>
  BY DEF OpenResult, SealResult
<1>2. CallHolds'
  BY <1>1, CallKept DEF AttemptIInv, SupervisorKept
<1>3. /\ r \in Runners /\ r.lease \in Leases
      /\ r.step \in {"open", "seal", "exit"} => r.verdict \in Verdicts
      /\ r.verdict \in Proposals => engine /\ checkpoint /\ staged = r.verdict
      /\ action = "command" => ~engine /\ r.verdict \in {"exit", "retry", "fail", Unset}
      /\ action = "agent" => r.verdict # "exit"
  BY DEF AttemptIInv, SandboxHolds, FilesTyped, RunnerHolds, SealHolds, Runners
<1> USE Vocabulary DEF AttemptIInv, SandboxHolds
<1>4. CASE OpenResult(r)
  <2>1. PICK q \in Runners : /\ runners' = {q} /\ q.lease = r.lease /\ q.step = "seal"
                             /\ q.verdict = r.verdict
    BY <1>3, <1>4, RunnerMoves DEF OpenResult, Steps
  <2>2. sealed' = [sealed EXCEPT ![r.lease] = "partial"] /\ r.step = "open"
    BY <1>4 DEF OpenResult
  <2>3. FilesTyped'
    BY <1>1, <2>1, <2>2 DEF FilesTyped, SupervisorKept
  <2>4. /\ sealed'[r.lease] = "partial"
        /\ \A l \in Leases : l # r.lease => sealed'[l] = sealed[l]
    BY <1>3, <2>2 DEF FilesTyped
  <2>5. RunnerHolds'
    BY <1>1, <1>3, <2>1, <2>2, <2>4 DEF RunnerHolds, OneRunner
  <2>6. SealHolds'
    BY <1>1, <1>3, <2>1, <2>4 DEF SealHolds, SupervisorKept, attempt
  <2> QED
    BY <1>2, <2>3, <2>5, <2>6
<1>5. CASE SealResult(r)
  <2>1. PICK q \in Runners : /\ runners' = {q} /\ q.lease = r.lease /\ q.step = "exit"
                             /\ q.verdict = r.verdict
    BY <1>3, <1>5, RunnerMoves DEF SealResult, Steps, Runners
  <2>2. sealed' = [sealed EXCEPT ![r.lease] = r.verdict] /\ r.step = "seal"
    BY <1>5 DEF SealResult
  <2>3. FilesTyped'
    BY <1>1, <1>3, <2>1, <2>2 DEF FilesTyped, SupervisorKept
  <2>4. /\ sealed'[r.lease] = r.verdict
        /\ \A l \in Leases : l # r.lease => sealed'[l] = sealed[l]
    BY <1>3, <2>2 DEF FilesTyped
  <2>5. RunnerHolds'
    BY <1>1, <1>3, <2>1, <2>2, <2>4 DEF RunnerHolds, OneRunner
  <2>6. SealHolds'
    BY <1>1, <1>3, <2>1, <2>4 DEF SealHolds, SupervisorKept, attempt
  <2> QED
    BY <1>2, <2>3, <2>5, <2>6
<1> QED
  BY <1>4, <1>5

LEMMA RunnerEndsHolds ==
  ASSUME AttemptIInv, NEW r \in runners, RunnerExits(r) \/ RunnerDies(r)
  PROVE  CallHolds' /\ SandboxHolds'
<1>1. /\ SupervisorKept /\ runners' \subseteq runners
      /\ UNCHANGED <<sealed, sessions, engine, checkpoint, staged, rejected, runs>>
      /\ forensics' \in {forensics, forensics \cup {r.lease}}
  BY DEF RunnerExits, RunnerDies
<1>2. CallHolds'
  BY <1>1, CallKept DEF AttemptIInv, SupervisorKept
<1>3. r.lease \in Leases
  BY RunnerIs DEF Runners
<1>4. FilesTyped' /\ RunnerHolds' /\ SealHolds'
  BY <1>1, <1>3 DEF AttemptIInv, SandboxHolds, FilesTyped, RunnerHolds, OneRunner, SealHolds,
                     SupervisorKept, attempt
<1> QED
  BY <1>2, <1>4 DEF SandboxHolds

-----------------------------------------------------------------------------
LEMMA AttemptInductive == AttemptIInv /\ [ExecutionNext]_executionVars => AttemptIInv'
<1> SUFFICES ASSUME AttemptIInv, [ExecutionNext]_executionVars PROVE AttemptIInv'
  OBVIOUS
<1>0. errors' \in 0..MaxErrors
  <2>1. errors' = errors \/ (errors < MaxErrors /\ errors' = errors + 1)
    BY DEF ExecutionNext, executionVars, CallStep, Lease, RecoverLease,
     RefuseCorrection, StartLease, RefreshFence, FenceRefuses, Collect, PrepareInputs, Dispatch,
     CommandExits, Deadline, CloseSession, AskForCorrection, RunnerStep, RunnerStarts, AgentCompletes, AgentFails,
     ContextFails, CommandEnds, TailEnds, CorrectionEnds, OpenResult, SealResult, RunnerExits,
     BindSession, ExpireBeforeDispatch, CloseUnverified, SupervisorCrash, ProviderError,
     CorrectionExpires, AgentReports, AgentSubmits, RunnerDies, Fails
  <2> QED
    BY <2>1, LimitsAssumption DEF AttemptIInv
<1>1. CASE \/ Lease \/ RefuseCorrection \/ StartLease \/ BindSession \/ CorrectionExpires
           \/ AskForCorrection
  <2>1. CallHolds'
    BY <1>1, LeaseKeepsIt, RefuseCorrectionHolds, StartLeaseHolds, BindSessionHolds,
       CorrectionExpiresHolds, AskForCorrectionHolds DEF AttemptIInv
  <2>2. SandboxHolds'
    BY <1>1, SandboxKept
    DEF AttemptIInv, Lease, RefuseCorrection, StartLease, BindSession, CorrectionExpires,
        AskForCorrection
  <2> QED
    BY <1>0, <2>1, <2>2 DEF AttemptIInv
<1>2. CASE RecoverLease \/ PrepareInputs \/ CommandExits \/ Deadline \/ SupervisorCrash
  <2>0. generation \in Nat
    BY DEF AttemptIInv, CallHolds, AttemptTyped
  <2>1. UNCHANGED <<attempt, lease, files, runners, runs>> /\ generation' \in Nat
    BY <1>2, <2>0 DEF RecoverLease, PrepareInputs, CommandExits, Deadline, SupervisorCrash, leased
  <2>2. \/ call' = "idle" \/ (call' = "open" /\ lease # 0)
        \/ call \notin {"idle", "open", "asking"} /\ call' \in {"prepared", "closing"}
    BY <1>2 DEF RecoverLease, PrepareInputs, CommandExits, Deadline, SupervisorCrash
  <2>3. CallHolds'
    BY <2>1, <2>2, CallKeepsIt DEF AttemptIInv
  <2> QED
    BY <1>0, <2>1, <2>3, SandboxKept DEF AttemptIInv, attempt
<1>3. CASE \/ RefreshFence \/ Dispatch \/ Collect \/ CloseSession \/ FenceRefuses
           \/ ExpireBeforeDispatch \/ CloseUnverified \/ ProviderError
  BY <1>0, <1>3, RefreshFenceHolds, DispatchHolds, CollectHolds, CloseSessionHolds,
     FailingCallHolds DEF AttemptIInv
<1>4. ASSUME NEW r \in runners,
             \/ RunnerStarts(r) \/ AgentCompletes(r) \/ AgentFails(r) \/ ContextFails(r)
             \/ CommandEnds(r) \/ TailEnds(r) \/ CorrectionEnds(r)
             \/ OpenResult(r) \/ SealResult(r) \/ RunnerExits(r)
             \/ AgentReports(r) \/ AgentSubmits(r) \/ RunnerDies(r)
      PROVE  AttemptIInv'
  BY <1>0, <1>4, RunnerStartsHolds, AgentCompletesHolds, RunnerFailsHolds, TailEndsHolds,
     CorrectionEndsHolds, SealingHolds, RunnerEndsHolds, AgentReportsHolds, AgentSubmitsHolds
  DEF AttemptIInv
<1>5. CASE UNCHANGED executionVars
  <2>1. CallHolds'
    BY <1>5, CallKept DEF AttemptIInv, executionVars, files
  <2> QED
    BY <1>0, <1>5, <2>1, SandboxKept DEF AttemptIInv, executionVars, attempt
<1> QED
  BY <1>1, <1>2, <1>3, <1>4, <1>5 DEF ExecutionNext, CallStep, RunnerStep

LEMMA AttemptInvariance == ExecutionSpec => []AttemptIInv
BY AttemptInitially, AttemptInductive, PTL DEF ExecutionSpec

\* A step of each kind, as the action properties see it.
LeavesQuiet ==
  lease # 0 /\ lease' = 0 /\ standing' \notin Ended /\ call # "prepared" =>
    \A r \in runners' : r.lease = lease => r.step = "exit"
KeepsStaged == engine /\ staged # Unset => staged' = staged
KeepsSealed == \A l \in Leases : Sealed(l) => sealed'[l] = sealed[l]

LEMMA StepKeepsSealed == AttemptIInv /\ [ExecutionNext]_executionVars => KeepsSealed
<1> SUFFICES ASSUME AttemptIInv, [ExecutionNext]_executionVars,
                    NEW l \in Leases, Sealed(l)
             PROVE  sealed'[l] = sealed[l]
  BY DEF KeepsSealed
<1>1. ASSUME NEW r \in runners, OpenResult(r) \/ SealResult(r)
      PROVE  sealed'[l] = sealed[l]
  <2>1. r.lease # l
    BY <1>1, Vocabulary DEF AttemptIInv, SandboxHolds, RunnerHolds, Sealed, OpenResult, SealResult
  <2> QED
    BY <1>1, <2>1 DEF OpenResult, SealResult, AttemptIInv, SandboxHolds, FilesTyped
<1>2. CASE UNCHANGED sealed
  BY <1>2
<1> QED
  BY <1>1, <1>2
  DEF ExecutionNext, executionVars, files, CallStep, Lease, RecoverLease,
     RefuseCorrection, StartLease, RefreshFence, FenceRefuses, Collect, PrepareInputs, Dispatch,
     CommandExits, Deadline, CloseSession, AskForCorrection, RunnerStep, RunnerStarts, AgentCompletes, AgentFails,
     ContextFails, CommandEnds, TailEnds, CorrectionEnds, RunnerExits,
     BindSession, ExpireBeforeDispatch, CloseUnverified, SupervisorCrash, ProviderError,
     CorrectionExpires, AgentReports, AgentSubmits, RunnerDies

LEMMA StepKeepsStaged == AttemptIInv /\ [ExecutionNext]_executionVars => KeepsStaged
<1> SUFFICES ASSUME AttemptIInv, [ExecutionNext]_executionVars, engine, staged # Unset
             PROVE  staged' = staged
  BY DEF KeepsStaged
<1>1. ASSUME NEW r \in runners, RunnerStarts(r) PROVE staged' = staged
  BY <1>1, RunnerIs DEF RunnerStarts
<1>2. ASSUME NEW r \in runners, TailEnds(r) \/ CorrectionEnds(r) \/ AgentSubmits(r)
      PROVE  staged' = staged
  BY <1>2 DEF TailEnds, CorrectionEnds, Submitted, GivesUp, Offered, Kept, AgentSubmits
<1>3. CASE UNCHANGED staged
  BY <1>3
<1> QED
  BY <1>1, <1>2, <1>3
  DEF ExecutionNext, executionVars, files, CallStep, Lease, RecoverLease,
     RefuseCorrection, StartLease, RefreshFence, FenceRefuses, Collect, PrepareInputs, Dispatch,
     CommandExits, Deadline, CloseSession, AskForCorrection, RunnerStep, AgentCompletes, AgentFails,
     ContextFails, CommandEnds, OpenResult, SealResult, RunnerExits,
     BindSession, ExpireBeforeDispatch, CloseUnverified, SupervisorCrash, ProviderError,
     CorrectionExpires, AgentReports, RunnerDies

LEMMA StepLeavesQuiet == AttemptIInv /\ [ExecutionNext]_executionVars => LeavesQuiet
<1> SUFFICES ASSUME AttemptIInv, [ExecutionNext]_executionVars,
                    lease # 0, lease' = 0, standing' \notin Ended, call # "prepared",
                    NEW r \in runners', r.lease = lease
             PROVE  r.step = "exit"
  BY DEF LeavesQuiet
<1>1. CASE Collect
  <2>1. Sealed(lease) /\ r \in runners
    BY <1>1 DEF Collect
  <2> QED
    BY <2>1, Vocabulary DEF Sealed, AttemptIInv, SandboxHolds, RunnerHolds
<1>2. CASE CloseSession
  BY <1>2 DEF CloseSession, Own
<1>3. CASE CloseUnverified
  BY <1>3 DEF CloseUnverified, Failed, HandToHuman, WorkFailed, Finish, Ended
<1>4. CASE FenceRefuses \/ ProviderError \/ RefuseCorrection
  BY <1>4 DEF FenceRefuses, ProviderError, Threw, RefuseCorrection, Finish, Ended, leased
<1>5. CASE lease' = lease
  BY <1>5
<1> QED
  BY <1>1, <1>2, <1>3, <1>4, <1>5
  DEF ExecutionNext, executionVars, leased, attempt, CallStep, Lease, RecoverLease,
     StartLease, RefreshFence, PrepareInputs, Dispatch,
     CommandExits, Deadline, AskForCorrection, RunnerStep, RunnerStarts, AgentCompletes, AgentFails,
     ContextFails, CommandEnds, TailEnds, CorrectionEnds, OpenResult, SealResult, RunnerExits,
     BindSession, ExpireBeforeDispatch, SupervisorCrash,
     CorrectionExpires, AgentReports, AgentSubmits, RunnerDies, SupervisorKept

\* The call of the supervisor, the runners of the sandbox and its files keep their
\* types.
THEOREM AttemptTypeCorrect == ExecutionSpec => []ExecutionTypeOK
<1>1. AttemptIInv => ExecutionTypeOK
  BY IsTyped DEF AttemptIInv, CallHolds, SandboxHolds
<1> QED
  BY <1>1, AttemptInvariance, PTL

\* For any kinds of action, proposals and limits on deadlines, corrections, crashes
\* and deaths: a lease has one runner, work is completed once, what is recorded is
\* what was staged and sealed, and a call gives its lease up only when the runner
\* of it is done.
THEOREM AttemptIsSafe == ExecutionSpec => AttemptSafe
<1>1. AttemptIInv => OneRunner /\ CompletedOnce /\ RecordedIsStaged
  BY DEF AttemptIInv, CallHolds, SandboxHolds, RunnerHolds, RecordHolds, CompletedOnce,
         RecordedIsStaged
<1>2. ExecutionSpec => [](OneRunner /\ CompletedOnce /\ RecordedIsStaged)
  BY <1>1, AttemptInvariance, PTL
<1>3. AttemptIInv /\ [ExecutionNext]_executionVars => [LeavesQuiet]_executionVars
  BY StepLeavesQuiet
<1>4. ExecutionSpec => RetriedWhenQuiet
  BY <1>3, AttemptInvariance, PTL DEF ExecutionSpec, RetriedWhenQuiet, LeavesQuiet
<1>5. AttemptIInv /\ [ExecutionNext]_executionVars => [KeepsStaged]_executionVars
  BY StepKeepsStaged
<1>6. ExecutionSpec => StagedStands
  BY <1>5, AttemptInvariance, PTL DEF ExecutionSpec, StagedStands, KeepsStaged
<1>7. AttemptIInv /\ [ExecutionNext]_executionVars => [KeepsSealed]_executionVars
  BY StepKeepsSealed
<1>8. ExecutionSpec => SealedStands
  BY <1>7, AttemptInvariance, PTL DEF ExecutionSpec, SealedStands, KeepsSealed
<1> QED
  BY <1>2, <1>4, <1>6, <1>8, PTL DEF AttemptSafe

-----------------------------------------------------------------------------
(***************************************************************************)
(* For any plan, roster and widths, and any authored pipeline of the shape *)
(* that PipelineIsGated states: what is merged, and in which version, and  *)
(* what is published.  The pipeline is data, so the invariant speaks of    *)
(* every set of stages that is entered only past a gate and not left but   *)
(* to be gated again: in such a stage the gate has been passed since the   *)
(* last edit, by the whole wave before a member settles there, and by a    *)
(* member of it after.                                                     *)
(***************************************************************************)

\* The stages that a run can be at, and what the wave is there.
CursorHolds ==
  /\ cursor \in (Body \cap DOMAIN On) \cup {"integrate_unit"} \cup Whole \cup Stops
  /\ cursor \in Body \cup {"integrate_unit"} => wave \subseteq PlanUnits
  /\ cursor \in Whole => wave \subseteq Personas
  /\ DOMAIN own # {} => cursor \in Body \cup {"persona_review"}
  /\ \A m \in DOMAIN own : own[m] \in DOMAIN On[cursor]

\* The members of a wave are not merged yet, and all they depend on is; only they
\* have been accepted and not merged; and when integrations run, all of them are
\* accepted past all their gates.
LoopHolds ==
  /\ cursor \in Body \cup {"integrate_unit"} =>
       /\ \A u \in wave : DependsOn[u] \subseteq Merged
       /\ \A u \in PlanUnits : accepted[u] # {} => u \in wave \cup Merged
  /\ cursor \in Body => wave \cap Merged = {}
  /\ cursor = "integrate_unit" =>
       /\ unit \in wave \ Merged
       /\ \A u \in wave : made[u] \in accepted[u] /\ passed[u] = UnitGates

\* What a set of stages past a gate says of a member: before it settles in one of
\* them, and after it has settled at the gate or in one of them.
PassedHolds ==
  \A g \in UnitGates : \A stages \in SUBSET Body :
    OnlyPast(g, Accepting, stages) /\ "implement_unit" \notin stages /\ cursor \in Body =>
      \A u \in wave :
        /\ u \notin DOMAIN own /\ cursor \in stages => g \in passed[u]
        /\ u \in DOMAIN own /\ cursor = g /\ own[u] \in Accepting => g \in passed[u]
        /\ u \in DOMAIN own /\ cursor \in stages \ Edits => g \in passed[u]

AcceptedHolds ==
  cursor = "accept_unit" =>
    \A u \in DOMAIN own : own[u] \in Accepting => made[u] \in accepted[u]

\* The same for the gates of the whole change and its review.
CheckedHolds ==
  /\ cursor \in Whole => Merged = PlanUnits
  /\ \A g \in FinalGates : \A stages \in SUBSET Whole :
       OnlyPast(g, Accepting, stages) /\ cursor \in stages => g \in checks
  /\ \A stages \in SUBSET (Whole \ {"persona_review"}) :
       OnlyPast("persona_review", DOMAIN On["persona_review"], stages) /\ cursor \in stages
         => wave = heard

StructuredIInv ==
  /\ StructuredTypeOK /\ CursorHolds /\ LoopHolds /\ PassedHolds /\ AcceptedHolds
  /\ CheckedHolds /\ MergedAfterItsNeeds /\ MergedIsTheAcceptedVersion

\* A nonempty set of numbers has a least one; this is the well-foundedness of <.
LesserThan == {ss \in Nat \X Nat : ss[1] < ss[2]}

LEMMA LesserIsWellFounded == IsWellFoundedOn(LesserThan, Nat)
BY NatLessThanWellFounded DEF OpToRel, LesserThan

LEMMA SetHasLeast ==
  ASSUME NEW S, S \subseteq Nat, S # {}
  PROVE  \E x \in S : \A y \in S : x <= y
<1>1. PICK x \in S : \A y \in S : ~(<<y, x>> \in LesserThan)
  BY LesserIsWellFounded, WFMin
<1>2. ASSUME NEW y \in S PROVE x <= y
  <2>1. x \in Nat /\ y \in Nat
    OBVIOUS
  <2>2. ~(y < x)
    BY <1>1, <2>1 DEF LesserThan
  <2> QED
    BY <2>1, <2>2
<1> QED
  BY <1>2

LEMMA LeastIsIn ==
  ASSUME NEW S \in SUBSET PlanUnits, S # {}
  PROVE  Least(S) \in S
<1>1. S \subseteq Nat
  BY PlanIsAcyclic
<1> QED
  BY <1>1, SetHasLeast DEF Least

LEMMA FirstInPlanIsIn ==
  ASSUME NEW S \in SUBSET PlanUnits, S # {}
  PROVE  FirstInPlan(S) \in S
<1> DEFINE places == {PlanOrder[u] : u \in S}
<1>0. PlanOrder \in [PlanUnits -> Nat]
  BY PlanIsAcyclic
<1>1. places \subseteq Nat /\ places # {}
  BY <1>0
<1>2. PICK n \in places : \A m \in places : n <= m
  BY <1>1, SetHasLeast
<1>3. PICK u \in S : n = PlanOrder[u]
  OBVIOUS
<1>4. \A v \in S : PlanOrder[u] <= PlanOrder[v]
  BY <1>2, <1>3
<1> QED
  BY <1>4 DEF FirstInPlan

\* The outcome of a wave is one of its members', and accepting only when all are.
LEMMA AggregateIsOne ==
  ASSUME NEW S \in SUBSET Range(Precedence), S # {}
  PROVE  /\ Aggregate(S) \in S
         /\ Aggregate(S) \in Accepting => S \subseteq Accepting
<1>p. /\ DOMAIN Precedence = 1..7
      /\ Precedence[1] = "needs_human" /\ Precedence[2] = "failure" /\ Precedence[3] = "exited"
      /\ Precedence[4] = "semantic_repair_required"
      /\ Precedence[5] = "retryable_infrastructure_failure"
      /\ Precedence[6] = "success" /\ Precedence[7] = "no_change"
  BY DEF Precedence
<1>1. CASE \E o \in S : S = {o}
  <2>1. Aggregate(S) = CHOOSE o \in S : TRUE
    BY <1>1 DEF Aggregate
  <2> QED
    BY <1>1, <2>1
<1>2. CASE ~(\E o \in S : S = {o})
  <2> DEFINE present == {i \in 1..7 : Precedence[i] \in S}
             IsFirst(i) == Precedence[i] \in S /\ \A j \in 1..i - 1 : Precedence[j] \notin S
  <2>1. present \subseteq Nat /\ present # {}
    BY <1>p DEF Range
  <2>2. PICK least \in present : \A j \in present : least <= j
    BY <2>1, SetHasLeast
  <2>3. \A j \in 1..least - 1 : Precedence[j] \notin S
    <3>1. ASSUME NEW j \in 1..least - 1 PROVE j \in 1..7 /\ ~(least <= j)
      BY <2>2
    <3> QED
      BY <2>2, <3>1
  <2>4. \E i \in DOMAIN Precedence : IsFirst(i)
    BY <1>p, <2>2, <2>3
  <2>5. PICK i \in DOMAIN Precedence : IsFirst(i) /\ Aggregate(S) = Precedence[i]
    <3> DEFINE chosen == CHOOSE k \in DOMAIN Precedence : IsFirst(k)
    <3>1. chosen \in DOMAIN Precedence /\ IsFirst(chosen)
      BY <2>4
    <3>2. Aggregate(S) = Precedence[chosen]
      BY <1>2 DEF Aggregate
    <3> QED
      BY <3>1, <3>2
  <2>6. Aggregate(S) \in S
    BY <2>5
  <2>7. ASSUME Aggregate(S) \in Accepting PROVE S \subseteq Accepting
    <3>1. i \in {6, 7}
      BY <1>p, <2>5, <2>7 DEF Accepting
    <3>2. \A j \in 1..5 : Precedence[j] \notin S
      BY <2>5, <3>1
    <3>3. ASSUME NEW o \in S PROVE o \in Accepting
      <4>1. PICK j \in 1..7 : o = Precedence[j]
        BY <1>p DEF Range
      <4>2. j \in {6, 7}
        BY <3>2, <3>3, <4>1
      <4> QED
        BY <1>p, <4>1, <4>2 DEF Accepting
    <3> QED
      BY <3>3
  <2> QED
    BY <2>6, <2>7
<1> QED
  BY <1>1, <1>2

-----------------------------------------------------------------------------
\* The authored pipeline, as far as the proofs rely on it.

LEMMA StagesAreApart ==
  /\ Body \cap Whole = {} /\ Body \cap Stops = {} /\ Whole \cap Stops = {}
  /\ "integrate_unit" \notin Body \cup Whole \cup Stops
  /\ "implement_unit" \in Body \cap DOMAIN On /\ "integrate_unit" \in DOMAIN On
  /\ Whole \ {"publish"} \subseteq DOMAIN On
  /\ {"persona_review", "select_review_personas", "publish"} \subseteq Whole
  /\ {"persona_review", "select_review_personas", "publish"} \cap FinalGates = {}
  /\ {"persona_review", "accept_unit"} \cap Edits = {}
  /\ UnitGates \cap Edits = {} /\ FinalGates \cap Edits = {} /\ FinalGates \subseteq Whole
BY PipelineIsGated DEF Whole, Stops

LEMMA NextIsTarget ==
  ASSUME NEW s, NEW o
  PROVE  NextStage(s, o) \in Targets(s, o)
BY DEF NextStage, Targets

LEMMA BodyLeads ==
  ASSUME NEW s \in Body \cap DOMAIN On, NEW o \in DOMAIN On[s]
  PROVE  /\ o \in Range(Precedence)
         /\ NextStage(s, o) \in (Body \cap DOMAIN On) \cup {"integrate_unit"} \cup Stops
         /\ NextStage(s, o) = "integrate_unit" => s = "accept_unit" /\ o \in Accepting
<1>1. /\ o \in Range(Precedence)
      /\ EdgesAre(s, o, (Body \cap DOMAIN On) \cup {"integrate_unit"} \cup Stops)
      /\ "integrate_unit" \in Targets(s, o) => s = "accept_unit" /\ o \in Accepting
  BY PipelineIsGated
<1> QED
  BY <1>1, NextIsTarget DEF EdgesAre

LEMMA IntegrationLeads ==
  /\ {"next_integration", "next_unit", "all_integrated"} \subseteq DOMAIN On["integrate_unit"]
  /\ NextStage("integrate_unit", "all_integrated") \in Whole \cup Stops
  /\ \A o \in DOMAIN On["integrate_unit"] \cap Range(Precedence) :
       NextStage("integrate_unit", o) \in {"integrate_unit"} \cup Stops
<1>1. /\ {"next_integration", "next_unit", "all_integrated"} \subseteq DOMAIN On["integrate_unit"]
      /\ EdgesAre("integrate_unit", "all_integrated", Whole \cup Stops)
      /\ \A o \in DOMAIN On["integrate_unit"] \cap Range(Precedence) :
           EdgesAre("integrate_unit", o, {"integrate_unit"} \cup Stops)
  BY PipelineIsGated
<1> QED
  BY <1>1, NextIsTarget DEF EdgesAre

LEMMA WholeLeads ==
  ASSUME NEW s \in Whole \cap DOMAIN On, NEW o \in DOMAIN On[s]
  PROVE  /\ NextStage(s, o) \in Whole \cup Stops
         /\ s = "persona_review" => o \in Range(Precedence)
<1>1. /\ EdgesAre(s, o, Whole \cup Stops)
      /\ DOMAIN On["persona_review"] \subseteq Range(Precedence)
  BY PipelineIsGated
<1> QED
  BY <1>1, NextIsTarget DEF EdgesAre

\* What a stage past a gate says of the one that leads to it.
LEMMA EnteredPast ==
  ASSUME NEW gate, NEW outcomes, NEW stages, OnlyPast(gate, outcomes, stages),
         NEW s \in DOMAIN On, NEW o \in DOMAIN On[s], NextStage(s, o) \in stages
  PROVE  (s = gate /\ o \in outcomes) \/ (s \in stages /\ s \notin Edits)
BY NextIsTarget DEF OnlyPast

LEMMA UnitGatesArePassed ==
  ASSUME NEW g \in UnitGates
  PROVE  \E stages \in SUBSET Body :
           /\ "accept_unit" \in stages /\ "implement_unit" \notin stages
           /\ OnlyPast(g, Accepting, stages)
BY PipelineIsGated

LEMMA FinalGatesArePassed ==
  /\ \A g \in FinalGates : \E stages \in SUBSET Whole :
       "publish" \in stages /\ OnlyPast(g, Accepting, stages)
  /\ \E stages \in SUBSET (Whole \ {"persona_review"}) :
       /\ "publish" \in stages
       /\ OnlyPast("persona_review", DOMAIN On["persona_review"], stages)
BY PipelineIsGated

LEMMA TakeKeeps ==
  ASSUME spentEdges \in [Edges -> Nat], NEW s \in DOMAIN On, NEW o \in DOMAIN On[s], Take(s, o)
  PROVE  spentEdges' \in [Edges -> Nat]
<1>1. CASE Limited(s, o)
  <2>1. <<s, o>> \in Edges
    BY <1>1 DEF Edges
  <2> QED
    BY <2>1 DEF Take
<1>2. CASE ~Limited(s, o)
  BY <1>2 DEF Take
<1> QED
  BY <1>1, <1>2

\* Units are merged once each, so there are no more integrations than units.
LEMMA MergesAreFew ==
  ASSUME StructuredTypeOK, MergedAfterItsNeeds
  PROVE  Len(merged) \in 0..OffChain
<1> DEFINE f == [i \in 1..Len(merged) |-> merged[i].unit]
<1>1. Len(merged) \in Nat /\ DOMAIN merged = 1..Len(merged)
  BY DEF StructuredTypeOK
<1>2. f \in Injection(1..Len(merged), PlanUnits)
  <2>1. f \in [1..Len(merged) -> PlanUnits]
    <3>1. \A i \in 1..Len(merged) : merged[i] \in [unit : PlanUnits, version : Nat]
      <4>1. merged \in Seq([unit : PlanUnits, version : Nat])
        BY DEF StructuredTypeOK
      <4> QED
        BY <4>1, ElementsOfSeq
    <3>2. \A i \in 1..Len(merged) : merged[i].unit \in PlanUnits
      BY <3>1
    <3> QED
      BY <3>2
  <2>2. \A i, j \in 1..Len(merged) : f[i] = f[j] => i = j
    BY <1>1 DEF MergedAfterItsNeeds
  <2> QED
    BY <2>1, <2>2 DEF Injection, IsInjective
<1>3. IsFiniteSet(PlanUnits)
  BY PlanIsAcyclic
<1> HIDE DEF f
<1>4. Cardinality(1..Len(merged)) <= Cardinality(PlanUnits)
  BY <1>2, <1>3, FS_Injection
<1>5. Cardinality(1..Len(merged)) = Len(merged)
  <2>1. 1 \in Int /\ Len(merged) \in Int
    BY <1>1
  <2>2. Cardinality(1..Len(merged)) = IF 1 > Len(merged) THEN 0 ELSE Len(merged) - 1 + 1
    BY <2>1, FS_Interval
  <2> QED
    BY <1>1, <2>2
<1>6. Cardinality(PlanUnits) \in Nat
  BY <1>3, FS_CardinalityType
<1> QED
  BY <1>1, <1>4, <1>5, <1>6 DEF OffChain


-----------------------------------------------------------------------------
\* What the settlement of a member leaves on its unit and on the others.
LEMMA WorkedKeeps ==
  ASSUME StructuredTypeOK, MergedAfterItsNeeds, NEW u \in PlanUnits, NEW outcome, NEW decision,
         Worked(u, outcome, decision)
  PROVE  /\ made' \in [PlanUnits -> Nat] /\ passed' \in [PlanUnits -> SUBSET UnitGates]
         /\ root' \in [PlanUnits -> 0..OffChain] /\ bytes' \in [PlanUnits -> Sizes \cup {0}]
         /\ accepted' \in [PlanUnits -> SUBSET Nat]
         /\ \A v \in PlanUnits \ {u} :
              made'[v] = made[v] /\ passed'[v] = passed[v] /\ accepted'[v] = accepted[v]
         /\ cursor \in UnitGates /\ outcome \in Accepting => cursor \in passed'[u]
         /\ cursor \notin Edits => made'[u] = made[u] /\ passed[u] \subseteq passed'[u]
         /\ cursor = "accept_unit" /\ decision \in Accepting => made'[u] \in accepted'[u]
         /\ cursor # "accept_unit" => accepted' = accepted
<1>t. /\ made \in [PlanUnits -> Nat] /\ passed \in [PlanUnits -> SUBSET UnitGates]
      /\ root \in [PlanUnits -> 0..OffChain] /\ bytes \in [PlanUnits -> Sizes \cup {0}]
      /\ accepted \in [PlanUnits -> SUBSET Nat]
  BY DEF StructuredTypeOK
<1>a. accepted' = [accepted EXCEPT ![u] = IF cursor = "accept_unit" /\ decision \in Accepting
                                          THEN @ \cup {made[u]} ELSE @]
  BY DEF Worked
<1>n. Len(merged) \in 0..OffChain /\ OffChain \in 0..OffChain
  <2>1. Cardinality(PlanUnits) \in Nat
    BY PlanIsAcyclic, FS_CardinalityType
  <2> QED
    BY <2>1, MergesAreFew DEF OffChain
<1>g. "accept_unit" \notin Edits /\ UnitGates \cap Edits = {}
  BY StagesAreApart
<1>1. CASE cursor \in Edits /\ outcome = "success"
  <2>1. /\ made' = [made EXCEPT ![u] = @ + 1]
        /\ root' = [root EXCEPT ![u] = IF made[u] = 0 THEN Len(merged) ELSE OffChain]
        /\ \E size \in Sizes : bytes' = [bytes EXCEPT ![u] = size]
        /\ passed' = [passed EXCEPT ![u] = {}]
    BY <1>1 DEF Worked
  <2>2. root' \in [PlanUnits -> 0..OffChain]
    BY <1>t, <1>n, <2>1
  <2>3. made' \in [PlanUnits -> Nat] /\ passed' \in [PlanUnits -> SUBSET UnitGates]
    BY <1>t, <2>1
  <2>4. bytes' \in [PlanUnits -> Sizes \cup {0}]
    BY <1>t, <2>1
  <2>5. accepted' = accepted
    BY <1>t, <1>a, <1>g, <1>1
  <2> QED
    BY <1>t, <1>g, <1>1, <2>1, <2>2, <2>3, <2>4, <2>5
<1>2. CASE ~(cursor \in Edits /\ outcome = "success")
  <2>1. /\ passed' = [passed EXCEPT ![u] = IF cursor \in UnitGates /\ outcome \in Accepting
                                           THEN @ \cup {cursor} ELSE @]
        /\ made' = made /\ root' = root /\ bytes' = bytes
    BY <1>2 DEF Worked
  <2>2. accepted' \in [PlanUnits -> SUBSET Nat]
    BY <1>t, <1>a
  <2>3. passed' \in [PlanUnits -> SUBSET UnitGates]
    BY <1>t, <2>1
  <2>4. cursor = "accept_unit" /\ decision \in Accepting => made'[u] \in accepted'[u]
    BY <1>t, <1>a, <2>1
  <2>5. cursor # "accept_unit" => accepted' = accepted
    BY <1>t, <1>a
  <2>6. \A v \in PlanUnits \ {u} :
          made'[v] = made[v] /\ passed'[v] = passed[v] /\ accepted'[v] = accepted[v]
    BY <1>t, <1>a, <2>1
  <2>7. /\ cursor \in UnitGates /\ outcome \in Accepting => cursor \in passed'[u]
        /\ passed[u] \subseteq passed'[u] /\ made'[u] = made[u]
    BY <1>t, <2>1
  <2> QED
    BY <1>t, <2>1, <2>2, <2>3, <2>4, <2>5, <2>6, <2>7
<1> QED
  BY <1>1, <1>2


LEMMA MergedAreUnits ==
  ASSUME StructuredTypeOK
  PROVE  /\ Merged \subseteq PlanUnits
         /\ \A i \in DOMAIN merged : merged[i].unit \in PlanUnits
         /\ DOMAIN merged = 1..Len(merged) /\ Len(merged) \in Nat
<1>1. /\ DOMAIN merged = 1..Len(merged) /\ Len(merged) \in Nat
      /\ \A i \in 1..Len(merged) : merged[i] \in [unit : PlanUnits, version : Nat]
  <2>1. merged \in Seq([unit : PlanUnits, version : Nat])
    BY DEF StructuredTypeOK
  <2> QED
    BY <2>1, ElementsOfSeq
<1>2. \A i \in 1..Len(merged) : merged[i].unit \in PlanUnits
  BY <1>1
<1> QED
  BY <1>1, <1>2 DEF Merged

\* A refused settlement, and any step that leaves the plan alone, keeps all of it.
LEMMA RefusalKeeps ==
  ASSUME StructuredIInv, refusal' \in {NoRefusal, "mixed", "twice", "oversized"},
         UNCHANGED <<cursor, wave, own, unit, unitVars, merged, spentEdges, checks, heard>>
  PROVE  StructuredIInv'
<1> USE DEF unitVars
<1>1. StructuredTypeOK'
  BY DEF StructuredIInv, StructuredTypeOK
<1>2. CursorHolds'
  BY DEF StructuredIInv, CursorHolds
<1>3. LoopHolds'
  BY DEF StructuredIInv, LoopHolds, Merged
<1>4. PassedHolds'
  BY DEF StructuredIInv, PassedHolds, OnlyPast, Targets
<1>5. AcceptedHolds'
  BY DEF StructuredIInv, AcceptedHolds
<1>6. CheckedHolds'
  BY DEF StructuredIInv, CheckedHolds, Merged, OnlyPast, Targets
<1>7. MergedAfterItsNeeds'
  BY DEF StructuredIInv, MergedAfterItsNeeds
<1>8. MergedIsTheAcceptedVersion'
  BY DEF StructuredIInv, MergedIsTheAcceptedVersion
<1> QED
  BY <1>1, <1>2, <1>3, <1>4, <1>5, <1>6, <1>7, <1>8 DEF StructuredIInv

\* The outcome of a member joins those of its wave.
LEMMA OwnGrows ==
  ASSUME NEW m, m \notin DOMAIN own, NEW outcome, own' = Joined(m, outcome)
  PROVE  /\ DOMAIN own' = DOMAIN own \cup {m}
         /\ own'[m] = outcome
         /\ \A n \in DOMAIN own : own'[n] = own[n]
BY DEF Joined

\* What a settlement in the unit cycle finds.
LEMMA InTheCycle ==
  ASSUME StructuredIInv, cursor \in Body
  PROVE  /\ cursor \in DOMAIN On
         /\ wave \subseteq PlanUnits /\ wave \cap Merged = {}
         /\ \A u \in wave : DependsOn[u] \subseteq Merged
         /\ \A u \in PlanUnits : accepted[u] # {} => u \in wave \cup Merged
         /\ cursor \notin Whole \cup Stops \cup {"integrate_unit"}
         /\ DOMAIN own \subseteq wave
BY StagesAreApart DEF StructuredIInv, StructuredTypeOK, CursorHolds, LoopHolds

\* What a member does on its own unit leaves what is merged as it was.
LEMMA WorkOnTheWaveKeepsMerged ==
  ASSUME StructuredIInv, cursor \in Body, NEW u \in wave, NEW outcome, NEW decision,
         Worked(u, outcome, decision), merged' = merged
  PROVE  MergedIsTheAcceptedVersion' /\ MergedAfterItsNeeds' /\ Merged' = Merged
<1>1. u \in PlanUnits /\ u \notin Merged
  BY InTheCycle
<1>2. \A v \in PlanUnits \ {u} :
        made'[v] = made[v] /\ passed'[v] = passed[v] /\ accepted'[v] = accepted[v]
  BY <1>1, WorkedKeeps DEF StructuredIInv
<1>3. \A i \in DOMAIN merged : merged[i].unit \in PlanUnits \ {u}
  BY <1>1, MergedAreUnits DEF StructuredIInv, Merged
<1>4. MergedIsTheAcceptedVersion'
  <2>1. ASSUME NEW i \in DOMAIN merged
        PROVE  LET v == merged[i].unit
               IN  /\ merged[i].version = made'[v] /\ passed'[v] = UnitGates
                   /\ accepted'[v] = {made'[v]}
    BY <1>2, <1>3 DEF StructuredIInv, MergedIsTheAcceptedVersion
  <2> QED
    BY <2>1 DEF MergedIsTheAcceptedVersion
<1>5. MergedAfterItsNeeds' /\ Merged' = Merged
  BY DEF StructuredIInv, MergedAfterItsNeeds, Merged
<1> QED
  BY <1>4, <1>5

LEMMA MemberSettlesKeeps ==
  ASSUME StructuredIInv, NEW u \in PlanUnits, NEW outcome \in Outcomes,
         MemberSettles(u, outcome)
  PROVE  StructuredIInv'
<1>1. /\ cursor \in Body /\ u \in wave \ DOMAIN own /\ Worked(u, outcome, outcome)
      /\ own' = Joined(u, outcome) /\ cursor' = cursor /\ wave' = wave /\ unit' = unit
      /\ merged' = merged /\ spentEdges' = spentEdges /\ checks' = checks /\ heard' = heard
      /\ refusal' = refusal
  BY DEF MemberSettles, Ready
<1>2. /\ cursor \in DOMAIN On /\ outcome \in DOMAIN On[cursor]
      /\ wave \subseteq PlanUnits /\ wave \cap Merged = {}
      /\ \A v \in wave : DependsOn[v] \subseteq Merged
      /\ \A v \in PlanUnits : accepted[v] # {} => v \in wave \cup Merged
      /\ cursor \notin Whole \cup Stops \cup {"integrate_unit"}
      /\ DOMAIN own \subseteq wave
  BY <1>1, InTheCycle DEF Outcomes
<1>3. /\ DOMAIN own' = DOMAIN own \cup {u} /\ own'[u] = outcome
      /\ \A n \in DOMAIN own : own'[n] = own[n]
  BY <1>1, OwnGrows
<1>4. /\ made' \in [PlanUnits -> Nat] /\ passed' \in [PlanUnits -> SUBSET UnitGates]
      /\ root' \in [PlanUnits -> 0..OffChain] /\ bytes' \in [PlanUnits -> Sizes \cup {0}]
      /\ accepted' \in [PlanUnits -> SUBSET Nat]
  BY <1>1, WorkedKeeps DEF StructuredIInv
<1>5. /\ \A v \in PlanUnits \ {u} :
           made'[v] = made[v] /\ passed'[v] = passed[v] /\ accepted'[v] = accepted[v]
      /\ cursor \in UnitGates /\ outcome \in Accepting => cursor \in passed'[u]
      /\ cursor \notin Edits => made'[u] = made[u] /\ passed[u] \subseteq passed'[u]
      /\ cursor = "accept_unit" /\ outcome \in Accepting => made'[u] \in accepted'[u]
  BY <1>1, WorkedKeeps DEF StructuredIInv
<1>6. MergedIsTheAcceptedVersion' /\ MergedAfterItsNeeds' /\ Merged' = Merged
  BY <1>1, WorkOnTheWaveKeepsMerged
<1>7. StructuredTypeOK'
  BY <1>1, <1>2, <1>3, <1>4 DEF StructuredIInv, StructuredTypeOK
<1>8. CursorHolds'
  BY <1>1, <1>2, <1>3 DEF StructuredIInv, CursorHolds
<1>9. LoopHolds'
  BY <1>1, <1>2, <1>5, <1>6 DEF LoopHolds
<1>10. PassedHolds'
  <2> SUFFICES ASSUME NEW g \in UnitGates, NEW stages \in SUBSET Body,
                      OnlyPast(g, Accepting, stages), "implement_unit" \notin stages,
                      NEW v \in wave
               PROVE  /\ v \notin DOMAIN own' /\ cursor \in stages => g \in passed'[v]
                      /\ v \in DOMAIN own' /\ cursor = g /\ own'[v] \in Accepting
                           => g \in passed'[v]
                      /\ v \in DOMAIN own' /\ cursor \in stages \ Edits => g \in passed'[v]
    BY <1>1 DEF PassedHolds, OnlyPast, Targets
  <2>1. /\ v \notin DOMAIN own /\ cursor \in stages => g \in passed[v]
        /\ v \in DOMAIN own /\ cursor = g /\ own[v] \in Accepting => g \in passed[v]
        /\ v \in DOMAIN own /\ cursor \in stages \ Edits => g \in passed[v]
    BY <1>1 DEF StructuredIInv, PassedHolds
  <2>2. CASE v = u
    BY <1>1, <1>3, <1>5, <2>1, <2>2
  <2>3. CASE v # u
    BY <1>2, <1>3, <1>5, <2>1, <2>3
  <2> QED
    BY <2>2, <2>3
<1>11. AcceptedHolds'
  BY <1>1, <1>2, <1>3, <1>5, StagesAreApart DEF StructuredIInv, AcceptedHolds
<1>12. CheckedHolds'
  BY <1>1, <1>2 DEF CheckedHolds
<1> QED
  BY <1>6, <1>7, <1>8, <1>9, <1>10, <1>11, <1>12 DEF StructuredIInv

\* The last member of a wave moves it on: what it finds, what it does.
LEMMA WaveSettlesFinds ==
  ASSUME StructuredIInv, NEW u \in PlanUnits, NEW outcome \in Outcomes,
         cursor \in Body, u \in wave \ DOMAIN own, LastOne(u),
         NEW aggregate, aggregate = Aggregate(Range(own) \cup {outcome})
  PROVE  /\ aggregate \in DOMAIN On[cursor]
         /\ aggregate \in Accepting =>
              outcome \in Accepting /\ \A v \in DOMAIN own : own[v] \in Accepting
         /\ wave = DOMAIN own \cup {u}
         /\ NextStage(cursor, aggregate) \in (Body \cap DOMAIN On) \cup {"integrate_unit"} \cup Stops
         /\ NextStage(cursor, aggregate) = "integrate_unit" =>
              cursor = "accept_unit" /\ aggregate \in Accepting
<1>1. cursor \in Body \cap DOMAIN On /\ outcome \in DOMAIN On[cursor]
  BY InTheCycle DEF Outcomes
<1>2. Range(own) \subseteq DOMAIN On[cursor]
  BY DEF StructuredIInv, CursorHolds, Range
<1>3. Range(own) \cup {outcome} \subseteq Range(Precedence)
  BY <1>1, <1>2, BodyLeads
<1>4. /\ aggregate \in Range(own) \cup {outcome}
      /\ aggregate \in Accepting => Range(own) \cup {outcome} \subseteq Accepting
  <2>1. Range(own) \cup {outcome} \in SUBSET Range(Precedence) /\ Range(own) \cup {outcome} # {}
    BY <1>3
  <2> QED
    BY <2>1, AggregateIsOne
<1>5. aggregate \in DOMAIN On[cursor]
  BY <1>1, <1>2, <1>4
<1>6. \A v \in DOMAIN own : own[v] \in Range(own)
  BY DEF Range
<1> QED
  BY <1>1, <1>4, <1>5, <1>6, BodyLeads DEF LastOne

LEMMA WaveMovesOn ==
  ASSUME StructuredIInv, NEW u \in PlanUnits, NEW outcome \in Outcomes, NEW aggregate,
         cursor \in Body, u \in wave \ DOMAIN own, LastOne(u),
         aggregate = Aggregate(Range(own) \cup {outcome}),
         cursor' = NextStage(cursor, aggregate),
         cursor' = "integrate_unit" => Range(own) \cup {outcome} = {outcome},
         Worked(u, outcome, aggregate), own' = <<>>,
         unit' = IF cursor' = "integrate_unit" THEN Least(wave) ELSE NoUnit,
         Take(cursor, aggregate),
         UNCHANGED <<wave, merged, checks, heard, refusal>>
  PROVE  StructuredIInv'
<1>1. /\ aggregate \in DOMAIN On[cursor]
      /\ aggregate \in Accepting =>
           outcome \in Accepting /\ \A v \in DOMAIN own : own[v] \in Accepting
      /\ wave = DOMAIN own \cup {u}
      /\ cursor' \in (Body \cap DOMAIN On) \cup {"integrate_unit"} \cup Stops
      /\ cursor' = "integrate_unit" => cursor = "accept_unit" /\ aggregate \in Accepting
  BY WaveSettlesFinds
<1>2. /\ cursor \in DOMAIN On
      /\ wave \subseteq PlanUnits /\ wave \cap Merged = {}
      /\ \A v \in wave : DependsOn[v] \subseteq Merged
      /\ \A v \in PlanUnits : accepted[v] # {} => v \in wave \cup Merged
      /\ cursor \notin Whole \cup Stops \cup {"integrate_unit"}
  BY InTheCycle
<1>3. DOMAIN own' = {}
  OBVIOUS
<1>4. /\ made' \in [PlanUnits -> Nat] /\ passed' \in [PlanUnits -> SUBSET UnitGates]
      /\ root' \in [PlanUnits -> 0..OffChain] /\ bytes' \in [PlanUnits -> Sizes \cup {0}]
      /\ accepted' \in [PlanUnits -> SUBSET Nat]
  BY WorkedKeeps DEF StructuredIInv
<1>5. /\ \A v \in PlanUnits \ {u} :
           made'[v] = made[v] /\ passed'[v] = passed[v] /\ accepted'[v] = accepted[v]
      /\ cursor \in UnitGates /\ outcome \in Accepting => cursor \in passed'[u]
      /\ cursor \notin Edits => made'[u] = made[u] /\ passed[u] \subseteq passed'[u]
      /\ cursor = "accept_unit" /\ aggregate \in Accepting => made'[u] \in accepted'[u]
  BY WorkedKeeps DEF StructuredIInv
<1>6. MergedIsTheAcceptedVersion' /\ MergedAfterItsNeeds' /\ Merged' = Merged
  BY WorkOnTheWaveKeepsMerged
<1>7. unit' \in PlanUnits \cup {NoUnit} /\ (cursor' = "integrate_unit" => unit' \in wave)
  BY <1>2, LeastIsIn
<1>8. StructuredTypeOK'
  <2>1. spentEdges' \in [Edges -> Nat]
    BY <1>1, <1>2, TakeKeeps DEF StructuredIInv, StructuredTypeOK
  <2>2. cursor' \in DOMAIN On \cup Stops \cup {"publish"}
    BY <1>1, StagesAreApart
  <2>3. cursor' = "integrate_unit" => unit' # NoUnit
    BY <1>2, <1>7, PlanIsAcyclic DEF NoUnit
  <2> QED
    BY <1>2, <1>3, <1>4, <1>7, <2>1, <2>2, <2>3 DEF StructuredIInv, StructuredTypeOK
<1>9. CursorHolds'
  BY <1>1, <1>2, <1>3, StagesAreApart DEF CursorHolds
<1>10. \A g \in UnitGates : \A stages \in SUBSET Body :
         OnlyPast(g, Accepting, stages) /\ "implement_unit" \notin stages
           /\ cursor \in stages \ Edits =>
             \A v \in wave : g \in passed'[v]
  <2> SUFFICES ASSUME NEW g \in UnitGates, NEW stages \in SUBSET Body,
                      OnlyPast(g, Accepting, stages), "implement_unit" \notin stages,
                      cursor \in stages \ Edits, NEW v \in wave
               PROVE  g \in passed'[v]
    OBVIOUS
  <2>1. /\ v \notin DOMAIN own /\ cursor \in stages => g \in passed[v]
        /\ v \in DOMAIN own /\ cursor \in stages \ Edits => g \in passed[v]
    BY DEF StructuredIInv, PassedHolds
  <2> QED
    BY <1>2, <1>5, <2>1
<1>11. PassedHolds'
  <2> SUFFICES ASSUME NEW g \in UnitGates, NEW stages \in SUBSET Body,
                      OnlyPast(g, Accepting, stages), "implement_unit" \notin stages,
                      cursor' \in stages, NEW v \in wave
               PROVE  g \in passed'[v]
    BY <1>3 DEF PassedHolds, OnlyPast, Targets
  <2>1. (cursor = g /\ aggregate \in Accepting) \/ (cursor \in stages /\ cursor \notin Edits)
    BY <1>1, <1>2, EnteredPast
  <2>2. CASE cursor = g /\ aggregate \in Accepting
    <3>1. v \in DOMAIN own => g \in passed[v]
      BY <1>1, <2>2 DEF StructuredIInv, PassedHolds
    <3> QED
      BY <1>1, <1>2, <1>5, <2>2, <3>1
  <2> QED
    BY <1>10, <2>1, <2>2
<1>12. LoopHolds'
  <2>1. ASSUME cursor' \in Body \cup {"integrate_unit"}
        PROVE  \A v \in PlanUnits : accepted'[v] # {} => v \in wave \cup Merged
    BY <1>2, <1>5
  <2>2. ASSUME cursor' = "integrate_unit", NEW v \in wave
        PROVE  made'[v] \in accepted'[v] /\ passed'[v] = UnitGates
    <3>1. cursor = "accept_unit" /\ aggregate \in Accepting
      BY <1>1, <2>2
    <3>2. "accept_unit" \notin Edits
      BY StagesAreApart
    <3>3. made'[v] \in accepted'[v]
      <4>1. v # u => made[v] \in accepted[v]
        BY <1>1, <3>1 DEF StructuredIInv, AcceptedHolds
      <4> QED
        BY <1>2, <1>5, <3>1, <4>1
    <3>4. ASSUME NEW g \in UnitGates PROVE g \in passed'[v]
      <4>1. PICK stages \in SUBSET Body :
              /\ "accept_unit" \in stages /\ "implement_unit" \notin stages
              /\ OnlyPast(g, Accepting, stages)
        BY UnitGatesArePassed
      <4> QED
        BY <1>10, <3>1, <3>2, <4>1
    <3>5. passed'[v] \in SUBSET UnitGates
      BY <1>2, <1>4
    <3> QED
      BY <3>3, <3>4, <3>5
  <2> QED
    BY <1>2, <1>6, <1>7, <2>1, <2>2 DEF LoopHolds
<1>13. AcceptedHolds'
  BY <1>3 DEF AcceptedHolds
<1>14. CheckedHolds'
  BY <1>1, StagesAreApart DEF CheckedHolds
<1> QED
  BY <1>6, <1>8, <1>9, <1>11, <1>12, <1>13, <1>14 DEF StructuredIInv

LEMMA WaveSettlesKeeps ==
  ASSUME StructuredIInv, NEW u \in PlanUnits, NEW outcome \in Outcomes,
         WaveSettles(u, outcome)
  PROVE  StructuredIInv'
<1> DEFINE aggregate == Aggregate(Range(own) \cup {outcome})
           target    == NextStage(cursor, aggregate)
<1>1. cursor \in Body /\ u \in wave \ DOMAIN own /\ LastOne(u)
  BY DEF WaveSettles, Ready
<1>2. CASE target = "integrate_unit" /\ Range(own) \cup {outcome} # {outcome}
  <2>1. RefuseToPlan("mixed")
    BY <1>2 DEF WaveSettles
  <2> QED
    BY <2>1, RefusalKeeps DEF RefuseToPlan
<1>3. CASE ~(target = "integrate_unit" /\ Range(own) \cup {outcome} # {outcome})
  <2>1. /\ Worked(u, outcome, aggregate) /\ cursor' = target /\ own' = <<>>
        /\ unit' = IF target = "integrate_unit" THEN Least(wave) ELSE NoUnit
        /\ Take(cursor, aggregate) /\ UNCHANGED <<wave, merged, checks, heard, refusal>>
    BY <1>3 DEF WaveSettles
  <2> QED
    BY <1>1, <1>3, <2>1, WaveMovesOn
<1> QED
  BY <1>2, <1>3

-----------------------------------------------------------------------------
\* The integration of a unit: it is of the wave, what it needs is merged, and the one
\* version that was accepted is its last.
LEMMA UnitIsMerged ==
  ASSUME StructuredIInv, Integrating, ~TwiceAccepted, merged' = Chain, UNCHANGED unitVars
  PROVE  /\ merged' \in Seq([unit : PlanUnits, version : Nat])
         /\ Merged' = Done /\ unit \in wave /\ wave \subseteq PlanUnits
         /\ MergedAfterItsNeeds' /\ MergedIsTheAcceptedVersion'
<1> DEFINE link == [unit |-> unit, version |-> AcceptedVersion(unit)]
           n    == Len(merged)
<1>1. /\ cursor = "integrate_unit" /\ unit \in wave \ Merged /\ wave \subseteq PlanUnits
      /\ made[unit] \in accepted[unit] /\ passed[unit] = UnitGates
      /\ DependsOn[unit] \subseteq Merged
  BY DEF Integrating, StructuredIInv, CursorHolds, LoopHolds
<1>2. accepted[unit] = {made[unit]} /\ AcceptedVersion(unit) = made[unit]
  BY <1>1 DEF TwiceAccepted, AcceptedVersion
<1>3. made[unit] \in Nat
  BY <1>1 DEF StructuredIInv, StructuredTypeOK
<1>4. link \in [unit : PlanUnits, version : Nat] /\ link.unit = unit /\ link.version = made[unit]
  BY <1>1, <1>2, <1>3
<1>5. /\ DOMAIN merged = 1..n /\ n \in Nat
      /\ \A i \in 1..n : merged[i].unit \in Merged
  BY MergedAreUnits DEF StructuredIInv, Merged
<1>6. merged \in Seq([unit : PlanUnits, version : Nat])
  BY DEF StructuredIInv, StructuredTypeOK
<1>7. merged' = Append(merged, link)
  BY DEF Chain
<1> HIDE DEF link
<1>8. /\ merged' \in Seq([unit : PlanUnits, version : Nat])
      /\ DOMAIN merged' = 1..(n + 1)
      /\ merged'[n + 1] = link /\ \A i \in 1..n : merged'[i] = merged[i]
  BY <1>4, <1>6, <1>7
<1>9. Merged' = Done
  <2>1. ASSUME NEW i \in 1..(n + 1) PROVE merged'[i].unit \in Merged \cup {unit}
    BY <1>4, <1>5, <1>8
  <2>2. ASSUME NEW i \in 1..n PROVE i \in 1..(n + 1) /\ merged'[i].unit = merged[i].unit
    BY <1>5, <1>8
  <2>3. n + 1 \in 1..(n + 1) /\ merged'[n + 1].unit = unit
    BY <1>4, <1>5, <1>8
  <2>4. Merged' = {merged'[i].unit : i \in 1..(n + 1)} /\ Merged = {merged[i].unit : i \in 1..n}
    BY <1>5, <1>8 DEF Merged
  <2>5. Merged' \subseteq Merged \cup {unit}
    <3>1. ASSUME NEW x \in Merged' PROVE x \in Merged \cup {unit}
      <4>1. PICK i \in 1..(n + 1) : x = merged'[i].unit
        BY <2>4
      <4> QED
        BY <2>1, <4>1
    <3> QED
      BY <3>1
  <2>6. Merged \subseteq Merged' /\ unit \in Merged'
    <3>1. ASSUME NEW i \in 1..n PROVE merged[i].unit \in Merged'
      BY <2>2, <2>4
    <3>2. unit \in Merged'
      BY <2>3, <2>4
    <3> QED
      BY <2>4, <3>1, <3>2
  <2> QED
    BY <2>5, <2>6 DEF Done
<1>10. MergedAfterItsNeeds'
  <2>1. ASSUME NEW i \in 1..(n + 1)
        PROVE  /\ DependsOn[merged'[i].unit] \subseteq {merged'[j].unit : j \in 1..i - 1}
               /\ \A j \in 1..(n + 1) : merged'[j].unit = merged'[i].unit => j = i
    <3>1. CASE i = n + 1
      <4>1. ASSUME NEW x \in Merged PROVE x \in {merged'[j].unit : j \in 1..i - 1}
        <5>1. PICK j \in 1..n : x = merged[j].unit
          BY <1>5 DEF Merged
        <5>2. x = merged'[j].unit /\ j \in 1..i - 1
          BY <1>5, <1>8, <3>1, <5>1
        <5> QED
          BY <5>2
      <4>2. \A j \in 1..n : merged'[j].unit # unit
        BY <1>1, <1>5, <1>8
      <4> QED
        BY <1>1, <1>4, <1>5, <1>8, <3>1, <4>1, <4>2
    <3>2. CASE i \in 1..n
      <4>1. /\ DependsOn[merged[i].unit] \subseteq {merged[j].unit : j \in 1..i - 1}
            /\ \A j \in 1..n : merged[j].unit = merged[i].unit => j = i
        BY <1>5, <3>2 DEF StructuredIInv, MergedAfterItsNeeds
      <4>2. ASSUME NEW j \in 1..i - 1 PROVE merged[j].unit = merged'[j].unit
        BY <1>5, <1>8, <3>2
      <4>3. merged'[n + 1].unit # merged'[i].unit
        BY <1>1, <1>4, <1>5, <1>8, <3>2
      <4> QED
        <5>1. DependsOn[merged'[i].unit] \subseteq {merged'[j].unit : j \in 1..i - 1}
          <6>1. {merged[j].unit : j \in 1..i - 1} \subseteq {merged'[j].unit : j \in 1..i - 1}
            BY <4>2
          <6>2. merged'[i] = merged[i]
            BY <1>8, <3>2
          <6> QED
            BY <4>1, <6>1, <6>2
        <5>2. ASSUME NEW j \in 1..(n + 1), merged'[j].unit = merged'[i].unit PROVE j = i
          <6>1. j \in 1..n
            BY <1>5, <4>3, <5>2
          <6> QED
            BY <1>8, <3>2, <4>1, <5>2, <6>1
        <5> QED
          BY <5>1, <5>2
    <3> QED
      BY <1>5, <3>1, <3>2
  <2> QED
    BY <1>8, <2>1 DEF MergedAfterItsNeeds
<1>11. MergedIsTheAcceptedVersion'
  <2>1. ASSUME NEW i \in 1..(n + 1)
        PROVE  LET u == merged'[i].unit
               IN  /\ merged'[i].version = made[u] /\ passed[u] = UnitGates
                   /\ accepted[u] = {made[u]}
    <3>1. CASE i = n + 1
      BY <1>1, <1>2, <1>4, <1>8, <3>1
    <3>2. CASE i \in 1..n
      BY <1>5, <1>8, <3>2 DEF StructuredIInv, MergedIsTheAcceptedVersion
    <3> QED
      BY <1>5, <3>1, <3>2
  <2>2. made' = made /\ passed' = passed /\ accepted' = accepted
    BY DEF unitVars
  <2> QED
    BY <1>8, <2>1, <2>2 DEF MergedIsTheAcceptedVersion
<1> QED
  BY <1>1, <1>8, <1>9, <1>10, <1>11

\* A run that integrates is at no stage of a wave, and nothing of its wave is open.
LEMMA WhileIntegrating ==
  ASSUME StructuredIInv, Integrating
  PROVE  /\ cursor = "integrate_unit" /\ DOMAIN own = {} /\ wave \subseteq PlanUnits
         /\ unit \in wave \ Merged
         /\ \A u \in wave : made[u] \in accepted[u] /\ passed[u] = UnitGates
         /\ \A u \in wave : DependsOn[u] \subseteq Merged
         /\ \A u \in PlanUnits : accepted[u] # {} => u \in wave \cup Merged
         /\ cursor \notin Body \cup Whole \cup Stops /\ cursor \in DOMAIN On
         /\ cursor # "accept_unit"
<1>1. cursor = "integrate_unit" /\ "integrate_unit" \notin Body \cup Whole \cup Stops
      /\ cursor \in DOMAIN On /\ cursor # "accept_unit" /\ cursor # "persona_review"
  BY StagesAreApart DEF Integrating
<1> QED
  BY <1>1 DEF StructuredIInv, CursorHolds, LoopHolds

LEMMA NextIntegrationKeeps ==
  ASSUME StructuredIInv, NextIntegration
  PROVE  StructuredIInv'
<1>1. /\ Integrating /\ ~TwiceAccepted /\ Waiting(Done) # {}
      /\ merged' = Chain /\ unit' = FirstInPlan(Waiting(Done)) /\ Take(cursor, "next_integration")
      /\ cursor' = cursor /\ wave' = wave /\ own' = own
      /\ UNCHANGED unitVars
      /\ checks' = checks /\ heard' = heard /\ refusal' = refusal
  BY DEF NextIntegration
<1>2. made' = made /\ passed' = passed /\ accepted' = accepted /\ root' = root /\ bytes' = bytes
  BY <1>1 DEF unitVars
<1>3. /\ merged' \in Seq([unit : PlanUnits, version : Nat])
      /\ Merged' = Done /\ MergedAfterItsNeeds' /\ MergedIsTheAcceptedVersion'
  BY <1>1, UnitIsMerged
<1>4. /\ cursor = "integrate_unit" /\ DOMAIN own = {} /\ wave \subseteq PlanUnits
      /\ \A u \in wave : made[u] \in accepted[u] /\ passed[u] = UnitGates
      /\ \A u \in wave : DependsOn[u] \subseteq Merged
      /\ \A u \in PlanUnits : accepted[u] # {} => u \in wave \cup Merged
      /\ cursor \notin Body \cup Whole \cup Stops /\ cursor \in DOMAIN On
      /\ cursor # "accept_unit"
  BY <1>1, WhileIntegrating
<1>5. unit' \in PlanUnits \ Done /\ accepted[unit'] # {}
  <2>1. Waiting(Done) \in SUBSET PlanUnits
    BY DEF Waiting
  <2>2. unit' \in Waiting(Done)
    BY <1>1, <2>1, FirstInPlanIsIn
  <2> QED
    BY <2>2 DEF Waiting
<1>6. unit' \in wave \ Done
  BY <1>4, <1>5 DEF Done
<1>7. StructuredTypeOK'
  <2>1. spentEdges' \in [Edges -> Nat]
    BY <1>1, <1>4, IntegrationLeads, TakeKeeps DEF StructuredIInv, StructuredTypeOK
  <2>2. unit' # NoUnit
    BY <1>5, PlanIsAcyclic DEF NoUnit
  <2> QED
    BY <1>1, <1>2, <1>3, <1>5, <2>1, <2>2 DEF StructuredIInv, StructuredTypeOK
<1>8. CursorHolds'
  BY <1>1 DEF StructuredIInv, CursorHolds
<1>9. LoopHolds'
  BY <1>1, <1>2, <1>3, <1>4, <1>6 DEF LoopHolds, Done
<1>10. PassedHolds' /\ AcceptedHolds'
  BY <1>1, <1>4 DEF PassedHolds, AcceptedHolds
<1>11. CheckedHolds'
  BY <1>1, <1>4 DEF CheckedHolds
<1> QED
  BY <1>3, <1>7, <1>8, <1>9, <1>10, <1>11 DEF StructuredIInv

LEMMA NextUnitsKeeps ==
  ASSUME StructuredIInv, NextUnits
  PROVE  StructuredIInv'
<1>1. /\ Integrating /\ ~TwiceAccepted /\ Waiting(Done) = {}
      /\ merged' = Chain /\ unit' = NoUnit /\ Take(cursor, "next_unit")
      /\ cursor' = "implement_unit" /\ wave' = ReadyUnits(Done) /\ own' = own
      /\ UNCHANGED unitVars
      /\ checks' = checks /\ heard' = heard /\ refusal' = refusal
  BY DEF NextUnits
<1>2. made' = made /\ passed' = passed /\ accepted' = accepted /\ root' = root /\ bytes' = bytes
  BY <1>1 DEF unitVars
<1>3. /\ merged' \in Seq([unit : PlanUnits, version : Nat])
      /\ Merged' = Done /\ MergedAfterItsNeeds' /\ MergedIsTheAcceptedVersion'
  BY <1>1, UnitIsMerged
<1>4. DOMAIN own = {} /\ cursor = "integrate_unit" /\ cursor \in DOMAIN On
  BY <1>1, WhileIntegrating
<1>5. /\ "implement_unit" \in Body /\ "implement_unit" \in DOMAIN On
      /\ "implement_unit" \notin Whole /\ "implement_unit" # "integrate_unit"
  BY StagesAreApart
<1>6. /\ wave' \subseteq PlanUnits /\ wave' \cap Done = {}
      /\ \A u \in wave' : DependsOn[u] \subseteq Done
  BY <1>1 DEF ReadyUnits
<1>7. \A u \in PlanUnits : accepted[u] # {} => u \in Done
  BY <1>1 DEF Waiting
<1>8. StructuredTypeOK'
  <2>1. spentEdges' \in [Edges -> Nat]
    BY <1>1, <1>4, IntegrationLeads, TakeKeeps DEF StructuredIInv, StructuredTypeOK
  <2> QED
    BY <1>1, <1>2, <1>3, <1>4, <1>5, <1>6, <2>1 DEF StructuredIInv, StructuredTypeOK
<1>9. CursorHolds'
  BY <1>1, <1>4, <1>5, <1>6 DEF CursorHolds
<1>10. LoopHolds'
  BY <1>1, <1>2, <1>3, <1>5, <1>6, <1>7 DEF LoopHolds
<1>11. PassedHolds' /\ AcceptedHolds'
  BY <1>1, <1>4 DEF PassedHolds, AcceptedHolds, OnlyPast, Targets
<1>12. CheckedHolds'
  BY <1>1, <1>5 DEF CheckedHolds
<1> QED
  BY <1>3, <1>8, <1>9, <1>10, <1>11, <1>12 DEF StructuredIInv

LEMMA AllIntegratedKeeps ==
  ASSUME StructuredIInv, AllIntegrated
  PROVE  StructuredIInv'
<1>1. /\ Integrating /\ ~TwiceAccepted /\ Done = PlanUnits
      /\ merged' = Chain /\ unit' = NoUnit /\ Take(cursor, "all_integrated")
      /\ cursor' = NextStage(cursor, "all_integrated") /\ wave' = {} /\ own' = own
      /\ UNCHANGED unitVars
      /\ checks' = checks /\ heard' = heard /\ refusal' = refusal
  BY DEF AllIntegrated
<1>2. made' = made /\ passed' = passed /\ accepted' = accepted /\ root' = root /\ bytes' = bytes
  BY <1>1 DEF unitVars
<1>3. /\ merged' \in Seq([unit : PlanUnits, version : Nat])
      /\ Merged' = Done /\ MergedAfterItsNeeds' /\ MergedIsTheAcceptedVersion'
  BY <1>1, UnitIsMerged
<1>4. DOMAIN own = {} /\ cursor = "integrate_unit" /\ cursor \in DOMAIN On
  BY <1>1, WhileIntegrating
<1>5. /\ cursor' \in Whole \cup Stops /\ cursor' \notin Body /\ cursor' # "integrate_unit"
      /\ "all_integrated" \in DOMAIN On[cursor]
  BY <1>1, <1>4, IntegrationLeads, StagesAreApart
<1>6. StructuredTypeOK'
  <2>1. spentEdges' \in [Edges -> Nat]
    BY <1>1, <1>4, <1>5, TakeKeeps DEF StructuredIInv, StructuredTypeOK
  <2>2. cursor' \in DOMAIN On \cup Stops \cup {"publish"}
    BY <1>5, StagesAreApart
  <2> QED
    BY <1>1, <1>2, <1>3, <1>4, <1>5, <2>1, <2>2 DEF StructuredIInv, StructuredTypeOK
<1>7. CursorHolds' /\ LoopHolds' /\ PassedHolds'
  BY <1>1, <1>4, <1>5 DEF CursorHolds, LoopHolds, PassedHolds
<1>8. AcceptedHolds'
  BY <1>1, <1>4 DEF AcceptedHolds
<1>9. CheckedHolds'
  <2>1. ASSUME NEW gate, NEW outcomes, NEW stages \in SUBSET Whole,
               OnlyPast(gate, outcomes, stages), cursor' \in stages,
               gate \in FinalGates \cup {"persona_review"}
        PROVE  FALSE
    BY <1>1, <1>4, <1>5, <2>1, EnteredPast, StagesAreApart
  <2>2. "persona_review" \in Whole
    BY StagesAreApart
  <2> QED
    <3>1. cursor' \in Whole => Merged' = PlanUnits
      BY <1>1, <1>3
    <3>2. ASSUME NEW g \in FinalGates, NEW stages \in SUBSET Whole,
                 OnlyPast(g, Accepting, stages), cursor' \in stages
          PROVE  FALSE
      BY <2>1, <3>2
    <3>3. ASSUME NEW stages \in SUBSET (Whole \ {"persona_review"}),
                 OnlyPast("persona_review", DOMAIN On["persona_review"], stages),
                 cursor' \in stages
          PROVE  FALSE
      BY <2>1, <3>3
    <3> QED
      BY <3>1, <3>2, <3>3 DEF CheckedHolds, OnlyPast, Targets
<1> QED
  BY <1>3, <1>6, <1>7, <1>8, <1>9 DEF StructuredIInv

LEMMA IntegrationFailsKeeps ==
  ASSUME StructuredIInv, NEW outcome \in Outcomes, IntegrationFails(outcome)
  PROVE  StructuredIInv'
<1>1. /\ Integrating /\ outcome \in {"retryable_infrastructure_failure", "failure"}
      /\ cursor' = NextStage(cursor, outcome) /\ Take(cursor, outcome)
      /\ wave' = wave /\ own' = own /\ unit' = unit /\ merged' = merged
      /\ UNCHANGED unitVars
      /\ checks' = checks /\ heard' = heard /\ refusal' = refusal
  BY DEF IntegrationFails
<1>2. made' = made /\ passed' = passed /\ accepted' = accepted /\ root' = root /\ bytes' = bytes
  BY <1>1 DEF unitVars
<1>3. /\ DOMAIN own = {} /\ cursor = "integrate_unit" /\ cursor \in DOMAIN On
      /\ outcome \in DOMAIN On[cursor]
  BY <1>1, WhileIntegrating DEF Outcomes
<1>4. outcome \in Range(Precedence)
  <2>1. /\ DOMAIN Precedence = 1..7 /\ Precedence[2] = "failure"
        /\ Precedence[5] = "retryable_infrastructure_failure"
    BY DEF Precedence
  <2>2. outcome = Precedence[2] \/ outcome = Precedence[5]
    BY <1>1, <2>1
  <2> QED
    BY <2>1, <2>2 DEF Range
<1>5. cursor' \in {"integrate_unit"} \cup Stops /\ cursor' \notin Body \cup Whole
  BY <1>1, <1>3, <1>4, IntegrationLeads, StagesAreApart
<1>6. StructuredTypeOK'
  <2>1. spentEdges' \in [Edges -> Nat]
    BY <1>1, <1>3, TakeKeeps DEF StructuredIInv, StructuredTypeOK
  <2>2. cursor' \in DOMAIN On \cup Stops
    BY <1>3, <1>5
  <2>3. unit # NoUnit
    BY <1>3 DEF StructuredIInv, StructuredTypeOK
  <2> QED
    BY <1>1, <1>2, <2>1, <2>2, <2>3 DEF StructuredIInv, StructuredTypeOK
<1>7. CursorHolds'
  BY <1>1, <1>3, <1>5 DEF StructuredIInv, CursorHolds
<1>8. LoopHolds'
  <2>1. Merged' = Merged
    BY <1>1 DEF Merged
  <2> QED
    BY <1>1, <1>2, <1>3, <1>5, <2>1 DEF StructuredIInv, LoopHolds
<1>9. PassedHolds' /\ AcceptedHolds' /\ CheckedHolds'
  BY <1>1, <1>3, <1>5 DEF PassedHolds, AcceptedHolds, CheckedHolds
<1>10. MergedAfterItsNeeds' /\ MergedIsTheAcceptedVersion'
  BY <1>1, <1>2 DEF StructuredIInv, MergedAfterItsNeeds, MergedIsTheAcceptedVersion
<1> QED
  BY <1>6, <1>7, <1>8, <1>9, <1>10 DEF StructuredIInv

-----------------------------------------------------------------------------
\* At the stages of the whole change every unit is merged and none is worked on.
LEMMA InTheWhole ==
  ASSUME StructuredIInv, cursor \in Whole
  PROVE  /\ Merged = PlanUnits /\ wave \subseteq Personas
         /\ cursor \notin Body \cup Stops \cup {"integrate_unit"}
         /\ cursor # "publish" => cursor \in DOMAIN On
         /\ cursor # "persona_review" => DOMAIN own = {}
BY StagesAreApart DEF StructuredIInv, CursorHolds, CheckedHolds

\* A step within the whole change, or out of it to a stop.
LEMMA WholeKeeps ==
  ASSUME StructuredIInv, cursor \in Whole, cursor' \in Whole \cup Stops,
         UNCHANGED <<unit, unitVars, merged, refusal>>,
         wave' \subseteq Personas, spentEdges' \in [Edges -> Nat],
         checks' \subseteq FinalGates, heard' \subseteq Personas,
         DOMAIN own' \subseteq wave', DOMAIN own' # {} => cursor' = "persona_review",
         \A m \in DOMAIN own' : own'[m] \in DOMAIN On[cursor'],
         \A g \in FinalGates : \A stages \in SUBSET Whole :
           OnlyPast(g, Accepting, stages) /\ cursor' \in stages => g \in checks',
         \A stages \in SUBSET (Whole \ {"persona_review"}) :
           OnlyPast("persona_review", DOMAIN On["persona_review"], stages)
             /\ cursor' \in stages => wave' = heard'
  PROVE  StructuredIInv'
<1>1. /\ unit' = unit /\ merged' = merged /\ refusal' = refusal
      /\ made' = made /\ passed' = passed /\ accepted' = accepted /\ root' = root /\ bytes' = bytes
  BY DEF unitVars
<1>2. Merged' = Merged /\ Merged = PlanUnits
  BY <1>1, InTheWhole DEF Merged
<1>3. /\ cursor' \notin Body \cup {"integrate_unit"}
      /\ cursor' \in DOMAIN On \cup Stops \cup {"publish"}
  BY StagesAreApart
<1>4. StructuredTypeOK'
  BY <1>1, <1>3 DEF StructuredIInv, StructuredTypeOK
<1>5. CursorHolds'
  BY <1>3, StagesAreApart DEF CursorHolds
<1>6. LoopHolds' /\ PassedHolds' /\ AcceptedHolds'
  <2>1. LoopHolds' /\ PassedHolds'
    BY <1>3 DEF LoopHolds, PassedHolds
  <2>2. cursor' = "accept_unit" => DOMAIN own' = {}
    OBVIOUS
  <2> QED
    BY <2>1, <2>2 DEF AcceptedHolds
<1>7. CheckedHolds'
  BY <1>1, <1>2 DEF CheckedHolds, OnlyPast, Targets
<1>8. MergedAfterItsNeeds' /\ MergedIsTheAcceptedVersion'
  <2>1. MergedAfterItsNeeds'
    BY <1>1 DEF StructuredIInv, MergedAfterItsNeeds
  <2>2. MergedIsTheAcceptedVersion'
    BY <1>1 DEF StructuredIInv, MergedIsTheAcceptedVersion
  <2> QED
    BY <2>1, <2>2
<1> QED
  BY <1>4, <1>5, <1>6, <1>7, <1>8 DEF StructuredIInv

LEMMA StageSettlesKeeps ==
  ASSUME StructuredIInv, NEW outcome \in Outcomes, StageSettles(outcome)
  PROVE  StructuredIInv'
<1>1. /\ cursor \in Whole \ {"select_review_personas", "persona_review", "publish"}
      /\ cursor' = NextStage(cursor, outcome) /\ Take(cursor, outcome)
      /\ checks' = IF cursor \in Edits /\ outcome = "success" THEN {}
                   ELSE IF cursor \in FinalGates /\ outcome \in Accepting
                   THEN checks \cup {cursor} ELSE checks
      /\ heard' = IF cursor \in Edits /\ outcome = "success" THEN {} ELSE heard
      /\ wave' = wave /\ own' = own /\ UNCHANGED <<unit, unitVars, merged, refusal>>
  BY DEF StageSettles
<1>2. /\ wave \subseteq Personas /\ cursor \in DOMAIN On /\ DOMAIN own = {}
      /\ outcome \in DOMAIN On[cursor]
  BY <1>1, InTheWhole DEF Outcomes
<1>3. cursor' \in Whole \cup Stops
  BY <1>1, <1>2, WholeLeads
<1>4. spentEdges' \in [Edges -> Nat] /\ checks' \subseteq FinalGates /\ heard' \subseteq Personas
  <2>1. spentEdges' \in [Edges -> Nat]
    BY <1>1, <1>2, TakeKeeps DEF StructuredIInv, StructuredTypeOK
  <2> QED
    BY <1>1, <2>1 DEF StructuredIInv, StructuredTypeOK
<1>5. ASSUME NEW g \in FinalGates, NEW stages \in SUBSET Whole,
             OnlyPast(g, Accepting, stages), cursor' \in stages
      PROVE  g \in checks'
  <2>1. (cursor = g /\ outcome \in Accepting) \/ (cursor \in stages /\ cursor \notin Edits)
    BY <1>1, <1>2, <1>5, EnteredPast
  <2>2. cursor \in stages => g \in checks
    BY <1>5 DEF StructuredIInv, CheckedHolds
  <2> QED
    BY <1>1, <2>1, <2>2, StagesAreApart
<1>6. ASSUME NEW stages \in SUBSET (Whole \ {"persona_review"}),
             OnlyPast("persona_review", DOMAIN On["persona_review"], stages),
             cursor' \in stages
      PROVE  wave' = heard'
  <2>1. cursor \in stages /\ cursor \notin Edits
    BY <1>1, <1>2, <1>6, EnteredPast
  <2>2. wave = heard
    BY <1>6, <2>1 DEF StructuredIInv, CheckedHolds
  <2> QED
    BY <1>1, <2>1, <2>2
<1> QED
  BY <1>1, <1>2, <1>3, <1>4, <1>5, <1>6, WholeKeeps

LEMMA SelectorSettlesKeeps ==
  ASSUME StructuredIInv, NEW outcome \in Outcomes, NEW chosen \in SUBSET Personas,
         SelectorSettles(outcome, chosen)
  PROVE  StructuredIInv'
<1>1. /\ cursor = "select_review_personas"
      /\ cursor' = NextStage(cursor, outcome) /\ Take(cursor, outcome)
      /\ wave' = IF cursor' = "persona_review" THEN chosen ELSE wave
      /\ own' = own /\ checks' = checks /\ heard' = heard
      /\ UNCHANGED <<unit, unitVars, merged, refusal>>
  BY DEF SelectorSettles
<1>2. /\ cursor \in Whole /\ wave \subseteq Personas /\ cursor \in DOMAIN On
      /\ DOMAIN own = {} /\ outcome \in DOMAIN On[cursor] /\ cursor \notin FinalGates
  BY <1>1, InTheWhole, StagesAreApart DEF Outcomes
<1>3. cursor' \in Whole \cup Stops
  BY <1>1, <1>2, WholeLeads
<1>4. spentEdges' \in [Edges -> Nat]
  BY <1>1, <1>2, TakeKeeps DEF StructuredIInv, StructuredTypeOK
<1>5. ASSUME NEW g \in FinalGates, NEW stages \in SUBSET Whole,
             OnlyPast(g, Accepting, stages), cursor' \in stages
      PROVE  g \in checks'
  <2>1. cursor \in stages
    BY <1>1, <1>2, <1>5, EnteredPast
  <2> QED
    BY <1>1, <1>5, <2>1 DEF StructuredIInv, CheckedHolds
<1>6. ASSUME NEW stages \in SUBSET (Whole \ {"persona_review"}),
             OnlyPast("persona_review", DOMAIN On["persona_review"], stages),
             cursor' \in stages
      PROVE  wave' = heard'
  <2>1. cursor \in stages
    BY <1>1, <1>2, <1>6, EnteredPast
  <2>2. wave = heard /\ cursor' # "persona_review"
    BY <1>6, <2>1 DEF StructuredIInv, CheckedHolds
  <2> QED
    BY <1>1, <2>2
<1>7. checks \subseteq FinalGates /\ heard \subseteq Personas
  BY DEF StructuredIInv, StructuredTypeOK
<1> QED
  BY <1>1, <1>2, <1>3, <1>4, <1>5, <1>6, <1>7, WholeKeeps

LEMMA ReviewerSettlesKeeps ==
  ASSUME StructuredIInv, NEW p \in Personas, NEW outcome \in Outcomes,
         ReviewerSettles(p, outcome)
  PROVE  StructuredIInv'
<1>1. /\ cursor = "persona_review" /\ p \in wave \ DOMAIN own
      /\ own' = Joined(p, outcome)
      /\ cursor' = cursor /\ wave' = wave /\ spentEdges' = spentEdges
      /\ checks' = checks /\ heard' = heard
      /\ UNCHANGED <<unit, unitVars, merged, refusal>>
  BY DEF ReviewerSettles, Ready
<1>2. /\ cursor \in Whole /\ wave \subseteq Personas /\ cursor \in DOMAIN On
      /\ outcome \in DOMAIN On[cursor]
  BY <1>1, InTheWhole, StagesAreApart DEF Outcomes
<1>3. /\ DOMAIN own' = DOMAIN own \cup {p} /\ own'[p] = outcome
      /\ \A n \in DOMAIN own : own'[n] = own[n]
  BY <1>1, OwnGrows
<1>4. /\ DOMAIN own' \subseteq wave' /\ \A m \in DOMAIN own' : own'[m] \in DOMAIN On[cursor']
  BY <1>1, <1>2, <1>3 DEF StructuredIInv, StructuredTypeOK, CursorHolds
<1>5. /\ \A g \in FinalGates : \A stages \in SUBSET Whole :
           OnlyPast(g, Accepting, stages) /\ cursor' \in stages => g \in checks'
      /\ \A stages \in SUBSET (Whole \ {"persona_review"}) :
           OnlyPast("persona_review", DOMAIN On["persona_review"], stages)
             /\ cursor' \in stages => wave' = heard'
  BY <1>1 DEF StructuredIInv, CheckedHolds
<1>6. checks \subseteq FinalGates /\ heard \subseteq Personas /\ spentEdges \in [Edges -> Nat]
  BY DEF StructuredIInv, StructuredTypeOK
<1> QED
  BY <1>1, <1>2, <1>4, <1>5, <1>6, WholeKeeps

LEMMA ReviewSettlesKeeps ==
  ASSUME StructuredIInv, NEW p \in Personas, NEW outcome \in Outcomes,
         ReviewSettles(p, outcome)
  PROVE  StructuredIInv'
<1> DEFINE aggregate == Aggregate(Range(own) \cup {outcome})
<1>1. /\ cursor = "persona_review" /\ p \in wave \ DOMAIN own /\ LastOne(p)
      /\ cursor' = NextStage(cursor, aggregate) /\ Take(cursor, aggregate)
      /\ own' = <<>> /\ heard' = DOMAIN own \cup {p} /\ checks' = checks /\ wave' = wave
      /\ UNCHANGED <<unit, unitVars, merged, refusal>>
  BY DEF ReviewSettles, Ready
<1>2. /\ cursor \in Whole /\ wave \subseteq Personas /\ cursor \in DOMAIN On
      /\ outcome \in DOMAIN On[cursor] /\ cursor \notin FinalGates
  BY <1>1, InTheWhole, StagesAreApart DEF Outcomes
<1>3. aggregate \in DOMAIN On[cursor]
  <2>1. Range(own) \cup {outcome} \subseteq DOMAIN On[cursor]
    BY <1>2 DEF StructuredIInv, CursorHolds, Range
  <2>2. DOMAIN On[cursor] \subseteq Range(Precedence)
    BY <1>1, <1>2, WholeLeads
  <2>3. Range(own) \cup {outcome} \in SUBSET Range(Precedence) /\ Range(own) \cup {outcome} # {}
    BY <2>1, <2>2
  <2>4. aggregate \in Range(own) \cup {outcome}
    BY <2>3, AggregateIsOne
  <2> QED
    BY <2>1, <2>4
<1> HIDE DEF aggregate
<1>4. cursor' \in Whole \cup Stops
  BY <1>1, <1>2, <1>3, WholeLeads
<1>5. spentEdges' \in [Edges -> Nat]
  BY <1>1, <1>2, <1>3, TakeKeeps DEF StructuredIInv, StructuredTypeOK
<1>6. heard' = wave' /\ DOMAIN own' = {}
  BY <1>1 DEF LastOne
<1>7. ASSUME NEW g \in FinalGates, NEW stages \in SUBSET Whole,
             OnlyPast(g, Accepting, stages), cursor' \in stages
      PROVE  g \in checks'
  <2>1. cursor \in stages
    BY <1>1, <1>2, <1>3, <1>7, EnteredPast
  <2> QED
    BY <1>1, <1>7, <2>1 DEF StructuredIInv, CheckedHolds
<1>8. checks \subseteq FinalGates
  BY DEF StructuredIInv, StructuredTypeOK
<1> QED
  BY <1>1, <1>2, <1>4, <1>5, <1>6, <1>7, <1>8, WholeKeeps

-----------------------------------------------------------------------------
LEMMA StructuredStarts ==
  ASSUME StructuredInit
  PROVE  StructuredIInv
<1>1. /\ cursor = "implement_unit" /\ wave = ReadyUnits({}) /\ own = <<>>
      /\ unit = NoUnit
      /\ made = [u \in PlanUnits |-> 0] /\ root = [u \in PlanUnits |-> 0]
      /\ bytes = [u \in PlanUnits |-> 0]
      /\ passed = [u \in PlanUnits |-> {}] /\ accepted = [u \in PlanUnits |-> {}]
      /\ merged = <<>> /\ spentEdges = [e \in Edges |-> 0]
      /\ checks = {} /\ heard = {} /\ refusal = NoRefusal
  BY DEF StructuredInit
<1>2. /\ wave \subseteq PlanUnits /\ \A u \in wave : DependsOn[u] \subseteq {}
  BY <1>1 DEF ReadyUnits
<1>3. DOMAIN own = {} /\ DOMAIN merged = {} /\ Merged = {}
  BY <1>1 DEF Merged
<1>4. /\ cursor \in Body \cap DOMAIN On
      /\ cursor \notin Whole \cup Stops \cup {"integrate_unit", "accept_unit"}
  BY <1>1, StagesAreApart
<1>5. StructuredTypeOK
  <2>1. root \in [PlanUnits -> 0..OffChain]
    <3>1. Cardinality(PlanUnits) \in Nat
      BY PlanIsAcyclic, FS_CardinalityType
    <3>2. 0 \in 0..OffChain
      BY <3>1 DEF OffChain
    <3> QED
      BY <1>1, <3>2
  <2>2. merged \in Seq([unit : PlanUnits, version : Nat])
    BY <1>1
  <2> QED
    BY <1>1, <1>2, <1>3, <1>4, <2>1, <2>2 DEF StructuredTypeOK
<1>6. CursorHolds
  BY <1>2, <1>3, <1>4 DEF CursorHolds
<1>7. LoopHolds
  BY <1>1, <1>2, <1>3, <1>4 DEF LoopHolds
<1>8. PassedHolds /\ AcceptedHolds /\ CheckedHolds
  BY <1>1, <1>3, <1>4 DEF PassedHolds, AcceptedHolds, CheckedHolds
<1>9. MergedAfterItsNeeds /\ MergedIsTheAcceptedVersion
  BY <1>3 DEF MergedAfterItsNeeds, MergedIsTheAcceptedVersion
<1> QED
  BY <1>5, <1>6, <1>7, <1>8, <1>9 DEF StructuredIInv

LEMMA StructuredStepKeeps ==
  ASSUME StructuredIInv, [StructuredNext]_structuredVars
  PROVE  StructuredIInv'
<1>1. ASSUME NEW u \in PlanUnits, NEW o \in Outcomes, MemberSettles(u, o) \/ WaveSettles(u, o)
      PROVE  StructuredIInv'
  BY <1>1, MemberSettlesKeeps, WaveSettlesKeeps
<1>2. CASE TwiceAcceptedIsRefused \/ OversizedIsRefused
  <2>1. /\ refusal' \in {"twice", "oversized"}
        /\ UNCHANGED <<cursor, wave, own, unit, unitVars, merged, spentEdges, checks, heard>>
    BY <1>2 DEF TwiceAcceptedIsRefused, OversizedIsRefused, RefuseToPlan
  <2> QED
    BY <2>1, RefusalKeeps
<1>3. CASE NextIntegration \/ NextUnits \/ AllIntegrated
  BY <1>3, NextIntegrationKeeps, NextUnitsKeeps, AllIntegratedKeeps
<1>4. ASSUME NEW o \in Outcomes, IntegrationFails(o) \/ StageSettles(o)
      PROVE  StructuredIInv'
  BY <1>4, IntegrationFailsKeeps, StageSettlesKeeps
<1>5. ASSUME NEW p \in Personas, NEW o \in Outcomes, ReviewerSettles(p, o) \/ ReviewSettles(p, o)
      PROVE  StructuredIInv'
  BY <1>5, ReviewerSettlesKeeps, ReviewSettlesKeeps
<1>6. ASSUME NEW o \in Outcomes, NEW chosen \in SUBSET Personas, SelectorSettles(o, chosen)
      PROVE  StructuredIInv'
  BY <1>6, SelectorSettlesKeeps
<1>7. CASE UNCHANGED structuredVars
  <2>1. /\ refusal' = refusal
        /\ UNCHANGED <<cursor, wave, own, unit, unitVars, merged, spentEdges, checks, heard>>
    BY <1>7 DEF structuredVars, unitVars
  <2>2. refusal \in {NoRefusal, "mixed", "twice", "oversized"}
    BY DEF StructuredIInv, StructuredTypeOK
  <2> QED
    BY <2>1, <2>2, RefusalKeeps
<1> QED
  BY <1>1, <1>2, <1>3, <1>4, <1>5, <1>6, <1>7
     DEF StructuredNext, SettleUnit, SettleIntegration, SettleReview, SettleStage

LEMMA StructuredIsKept == StructuredSpec => []StructuredIInv
BY StructuredStarts, StructuredStepKeeps, PTL DEF StructuredSpec

\* What the settlement planner (structured-coordinator.ts) reads and writes has the shape
\* it is read with at every step: own outcomes are those of members of the wave, and a run
\* that integrates has a unit to integrate.
THEOREM StructuredTypeCorrect == StructuredSpec => []StructuredTypeOK
<1>1. StructuredIInv => StructuredTypeOK
  BY DEF StructuredIInv
<1> QED
  BY <1>1, StructuredIsKept, PTL

\* Whatever the plan, and whatever pipeline of the authored shape: units are merged in an
\* order their needs allow, each in the one version that was accepted past all of its gates,
\* a wave as a whole; and what is published passed the gates of the whole change and every
\* selected reviewer since its last edit.
THEOREM PlansAreSafe == StructuredSpec => []StructuredSafe
<1>1. ASSUME StructuredIInv PROVE StructuredSafe
  <2>1. MergedAfterItsNeeds /\ MergedIsTheAcceptedVersion
    BY <1>1 DEF StructuredIInv
  <2>2. WaveIsAcceptedWhole
    BY <1>1 DEF StructuredIInv, LoopHolds, WaveIsAcceptedWhole
  <2>3. ASSUME cursor = "publish" PROVE FinalGates = checks /\ wave = heard
    <3>1. ASSUME NEW g \in FinalGates PROVE g \in checks
      <4>1. PICK stages \in SUBSET Whole : "publish" \in stages /\ OnlyPast(g, Accepting, stages)
        BY FinalGatesArePassed
      <4> QED
        BY <1>1, <2>3, <4>1 DEF StructuredIInv, CheckedHolds
    <3>2. PICK stages \in SUBSET (Whole \ {"persona_review"}) :
            /\ "publish" \in stages
            /\ OnlyPast("persona_review", DOMAIN On["persona_review"], stages)
      BY FinalGatesArePassed
    <3>3. wave = heard
      BY <1>1, <2>3, <3>2 DEF StructuredIInv, CheckedHolds
    <3>4. checks \subseteq FinalGates
      BY <1>1 DEF StructuredIInv, StructuredTypeOK
    <3> QED
      BY <3>1, <3>3, <3>4
  <2>4. PublishedWasChecked
    BY <1>1, <2>3 DEF StructuredIInv, CheckedHolds, PublishedWasChecked
  <2> QED
    BY <2>1, <2>2, <2>4 DEF StructuredSafe
<1> QED
  BY <1>1, StructuredIsKept, PTL

-----------------------------------------------------------------------------
\* The composition.  Its behaviours are, without their fairness, behaviours of every
\* module: a step of one is a step that the variables of the others stutter in.

LEMMA ExecutedStepIsOfEach ==
  ASSUME [ExecutedNext]_executedVars
  PROVE  /\ [StructuredNext]_structuredVars /\ [ClosureNext]_closureVars
         /\ [ExecutionNext]_executionVars /\ [CheckpointNext]_checkpointVars
         /\ [ReleaseNext]_releaseVars
BY DEF ExecutedNext, executedVars, StructuredPart, ClosurePart, ExecutionPart, CheckpointPart,
       ReleasePart

LEMMA ExecutedStartsEach ==
  ExecutedInit => StructuredInit /\ ClosureInit /\ ExecutionInit /\ CheckpointInit /\ ReleaseInit
BY DEF ExecutedInit

\* In the composition that the run explores, every module keeps its types.
THEOREM ExecutedTypeCorrect == ExecutedSpec => []ExecutedTypeOK
<1> DEFINE IInv == StructuredIInv /\ ClosureIInv /\ AttemptIInv /\ CheckpointIInv /\ ReleaseIInv
<1>1. ExecutedInit => IInv
  BY ExecutedStartsEach, StructuredStarts, ClosureInitially, AttemptInitially, CheckpointStarts,
     ReleaseInitially
<1>2. IInv /\ [ExecutedNext]_executedVars => IInv'
  BY ExecutedStepIsOfEach, StructuredStepKeeps, ClosureInductive, AttemptInductive,
     CheckpointStepKeeps, ReleaseInductive
<1>3. IInv => ExecutedTypeOK
  <2>1. AttemptIInv => ExecutionTypeOK
    BY IsTyped DEF AttemptIInv, CallHolds, SandboxHolds
  <2>2. StructuredIInv => StructuredTypeOK
    BY DEF StructuredIInv
  <2>3. ClosureIInv => ClosureTypeOK
    BY DEF ClosureIInv
  <2>4. CheckpointIInv => CheckpointTypeOK
    BY DEF CheckpointIInv, PlanHolds
  <2>5. ReleaseIInv => ReleaseTypeOK
    BY DEF ReleaseIInv
  <2> QED
    BY <2>1, <2>2, <2>3, <2>4, <2>5 DEF ExecutedTypeOK
<1> QED
  BY <1>1, <1>2, <1>3, PTL DEF ExecutedSpec
=============================================================================
