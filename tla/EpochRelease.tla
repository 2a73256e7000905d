----------------------------- MODULE EpochRelease -----------------------------
(***************************************************************************)
(* How an epoch moves to a new release.  The epoch pins the identity of    *)
(* the release that may open it.  A supervisor verifies the pin once, when *)
(* it boots; accept-release.mjs, a process of its own beside the running   *)
(* supervisor, moves the pin in one transaction that refuses unless        *)
(* ingress is closed and nothing is leased, queued or unfinished.          *)
(*                                                                         *)
(* Operators act in any order and repeat themselves; the one rule taken    *)
(* from the runbook is that ingress is opened again on a machine that      *)
(* booted the pinned release.  Effects are left out: the transaction does  *)
(* not look at effects without a lease, which is what the runbook's        *)
(* active-work proof is for.                                               *)
(***************************************************************************)
EXTENDS Naturals, FiniteSets

CONSTANTS Items,      \* events that arrive
          Releases,
          First,      \* the release that the epoch was initialized with
          MaxChanges, \* bound: closings, acceptances and deployments together
          MaxCrashes, \* bound: how often the supervisor dies
          NoRelease

ASSUME ReleaseAssumption ==
  /\ First \in Releases /\ NoRelease \notin Releases
  /\ MaxChanges \in Nat /\ MaxCrashes \in Nat

VARIABLES pinned,   \* epoch.release_id and epoch.runtime_capability_digest
          image,    \* the release the machine starts
          running,  \* the release of the supervisor, or NoRelease
          shut,   \* the maintenance fence
          item,     \* how far each item has come
          served,   \* the releases that have worked on each item
          changes, crashes

releaseVars == <<pinned, image, running, shut, item, served, changes, crashes>>

ItemStates == {"out", "pending", "processing", "queued", "leased", "done"}

\* A fresh epoch starts with its ingress closed.
ReleaseInit ==
  /\ pinned = First /\ image = First /\ running = NoRelease /\ shut = TRUE
  /\ item = [i \in Items |-> "out"]
  /\ served = [i \in Items |-> {}]
  /\ changes = 0 /\ crashes = 0

Up == running # NoRelease

-----------------------------------------------------------------------------
(* The supervisor                                                          *)

\* openFreshEpochDatabase compares the pins with the release of the process.
\* Mutant of MayOpen: the pins are not compared
OpensAny == TRUE

MayOpen == image = pinned

BootRelease ==
  /\ ~Up /\ MayOpen
  /\ running' = image
  /\ UNCHANGED <<pinned, image, shut, item, served, changes, crashes>>

Work(i, from, to) ==
  /\ Up /\ item[i] = from
  /\ item' = [item EXCEPT ![i] = to]
  /\ served' = [served EXCEPT ![i] = @ \cup {running}]
  /\ UNCHANGED <<pinned, image, running, shut, changes, crashes>>

\* While the fence is closed an event is refused, to be delivered again.
Ingest(i) == ~shut /\ Work(i, "out", "pending")

LeaseEvent(i) == Work(i, "pending", "processing")

\* The event is consumed: it is stale, or a run with its first attempt starts.
HandleEvent(i) == \E to \in {"queued", "done"} : Work(i, "processing", to)

LeaseAttempt(i) == Work(i, "queued", "leased")

\* An attempt is recorded and its run goes on with another, waits or ends.
AttemptSettles(i) == \E to \in {"queued", "done"} : Work(i, "leased", to)

\* What a dead supervisor had leased is released by the recovery of a later one.
RecoverEvent(i) == Work(i, "processing", "pending")
RecoverAttempt(i) == Work(i, "leased", "queued")

Crash ==
  /\ Up /\ crashes < MaxCrashes
  /\ crashes' = crashes + 1
  /\ running' = NoRelease
  /\ UNCHANGED <<pinned, image, shut, item, served, changes>>

-----------------------------------------------------------------------------
(* Operators                                                               *)

Change == changes < MaxChanges /\ changes' = changes + 1

CloseIngress ==
  /\ Up /\ ~shut /\ Change
  /\ shut' = TRUE
  /\ UNCHANGED <<pinned, image, running, item, served, crashes>>

OpenIngress ==
  /\ Up /\ running = pinned /\ shut
  /\ shut' = FALSE
  /\ UNCHANGED <<pinned, image, running, item, served, changes, crashes>>

\* Mutant of Quiesced: the fence is not read
Drained == \A i \in Items : item[i] \in {"out", "done"}

\* No lease, no pending or processing event, no attempt that is not terminal.
Quiesced ==
  /\ shut
  /\ \A i \in Items : item[i] \notin {"pending", "processing", "queued", "leased"}

\* accept-release.mjs: an identity that is pinned already is refused.
Accept(r) ==
  /\ r # pinned /\ Quiesced /\ Change
  /\ pinned' = r
  /\ UNCHANGED <<image, running, shut, item, served, crashes>>

\* The machine is replaced; its supervisor has to boot again.
Deploy(r) ==
  /\ r # image /\ Change
  /\ image' = r /\ running' = NoRelease
  /\ UNCHANGED <<pinned, shut, item, served, crashes>>

-----------------------------------------------------------------------------
ReleaseNext ==
  \/ BootRelease \/ Crash \/ CloseIngress \/ OpenIngress
  \/ \E i \in Items :
       \/ Ingest(i) \/ LeaseEvent(i) \/ HandleEvent(i) \/ RecoverEvent(i)
       \/ LeaseAttempt(i) \/ AttemptSettles(i) \/ RecoverAttempt(i)
  \/ \E r \in Releases : Accept(r) \/ Deploy(r)

ReleaseSpec == ReleaseInit /\ [][ReleaseNext]_releaseVars

ReleaseTypeOK ==
  /\ {pinned, image} \subseteq Releases
  /\ running \in Releases \cup {NoRelease}
  /\ shut \in BOOLEAN
  /\ item \in [Items -> ItemStates]
  /\ served \in [Items -> SUBSET Releases]
  /\ changes \in 0..MaxChanges /\ crashes \in 0..MaxCrashes

(***************************************************************************)
(* An event, and the run that it starts, is worked on by one release from  *)
(* its arrival to its end, across crashes, deployments in the wrong order  *)
(* and an acceptance beside the running supervisor.                        *)
(***************************************************************************)
OneReleasePerItem ==
  \A i \in Items : \A r, q \in served[i] : r = q

(***************************************************************************)
(* While ingress is open, a supervisor that runs is of the pinned release: *)
(* the pin, verified at the boot alone, does not move under it.            *)
(***************************************************************************)
OpenUnderThePin == ~shut /\ Up => running = pinned

\* No work changes releases under way: an item is served by one release, and an
\* open epoch by the one it is pinned to.
ReleaseSafe ==
    /\ OneReleasePerItem
    /\ OpenUnderThePin
=============================================================================
