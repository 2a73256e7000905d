---------------------------- MODULE VolumeStorage ----------------------------
(***************************************************************************)
(* The volume of a supervisor and what survives on it: the BlobStore root  *)
(* and the epoch database that initialize-epoch.mjs publishes, and the     *)
(* content-addressed objects that the supervisor writes and then points to *)
(* from the database.                                                      *)
(*                                                                         *)
(* A process may be killed between any two steps, which keeps what the     *)
(* operating system has seen; the machine may lose power, which keeps only *)
(* what was synced and, by chance, some of the rest.  A file survives      *)
(* whole when its content was synced and its directory entry survives when *)
(* the directory was.  An unsynced entry may survive or not; one whose     *)
(* content was not synced survives torn.  Both published paths lie in one  *)
(* directory (/data by default), whose changes are assumed to reach the    *)
(* disk in order, as a journaled file system does.  A temporary file that  *)
(* a killed process leaves behind is never opened again, so it is not kept *)
(* here; nothing else removes it.                                          *)
(***************************************************************************)
EXTENDS Naturals, FiniteSets

CONSTANTS Blobs,      \* the objects somebody stores
          Shards,     \* the two-digit directories they fall into
          ShardOf,    \* [Blobs -> Shards]
          MaxKills,   \* bound: how often the process is killed
          MaxOutages, \* bound: how often the machine loses power
          NoBlob

ASSUME StorageAssumption ==
  /\ ShardOf \in [Blobs -> Shards]
  /\ MaxKills \in Nat /\ MaxOutages \in Nat
  /\ {NoBlob, "root", "database"} \cap Blobs = {}

VARIABLES root,      \* the entry of the BlobStore root
          database,  \* the entry of the epoch database
          shard,     \* per shard, its entry under objects/sha256
          object,    \* per blob, the entry of its object
          flushed,   \* the published files whose content is on the disk
          job,       \* what the running process is doing, and with which blob
          temp,      \* the temporary file of that job
          synced,    \* #syncedShardEntries of the process
          receipt,   \* an initializer has printed its receipt
          committed, \* the pointers the database holds
          kills, outages

storageVars == <<root, database, shard, object, flushed, job, temp, synced, receipt,
          committed, kills, outages>>

Entries == {"absent", "seen", "kept", "torn"}
Temps == {"none", "written", "flushed"}
Steps == {"off", "root", "database", "opened", "publish", "inspect",
          "ready", "shard", "entry", "write", "flush", "link", "sync",
          "verify", "token"}

Visible(entry) == entry \in {"seen", "kept"}
Storable == {b \in Blobs : b \notin committed}

(***************************************************************************)
(* Every published file was read back, so it is whole for as long as the   *)
(* machine has power.                                                      *)
(***************************************************************************)
StorageInit ==
  /\ root = "absent" /\ database = "absent"
  /\ shard = [s \in Shards |-> "absent"]
  /\ object = [b \in Blobs |-> "absent"]
  /\ flushed = {}
  /\ job = [at |-> "off", blob |-> NoBlob]
  /\ temp = "none" /\ synced = {} /\ receipt = FALSE /\ committed = {}
  /\ kills = 0 /\ outages = 0

At(step) == job.at = step
GoTo(step) == job' = [job EXCEPT !.at = step]
Fails == job' = [at |-> "off", blob |-> NoBlob]

-----------------------------------------------------------------------------
(* initialize-epoch.mjs                                                    *)

\* The run is chosen by which paths exist; a database without its root, or
\* a root whose marker cannot be read, is refused.
StorageState ==
  CASE root = "absent" /\ database = "absent" -> "root"
    [] root # "absent" /\ database = "absent" -> "opened"
    [] root # "absent" /\ database # "absent" -> "inspect"
    [] OTHER -> "off"

Initialize ==
  /\ At("off") /\ ~receipt
  /\ StorageState # "off"
  /\ GoTo(StorageState)
  /\ temp' = "none"
  /\ UNCHANGED <<root, database, shard, object, flushed, synced, receipt,
                 committed, kills, outages>>

\* The staging root and the staging database are written, then synced.
Stage ==
  /\ At("root") \/ At("database")
  /\ temp = "none"
  /\ temp' = "written"
  /\ UNCHANGED <<root, database, shard, object, flushed, job, synced, receipt,
                 committed, kills, outages>>

FlushStage ==
  /\ At("root") \/ At("database")
  /\ temp = "written"
  /\ temp' = "flushed"
  /\ UNCHANGED <<root, database, shard, object, flushed, job, synced, receipt,
                 committed, kills, outages>>

\* Mutant of Staged: it is renamed before it was synced
RenamedEarly == temp \in {"written", "flushed"}

Staged == temp = "flushed"

\* The path is looked at once more, then the staged entry is renamed to it.
PublishRoot ==
  /\ At("root") /\ Staged
  /\ root' = "seen"
  /\ flushed' = IF temp = "flushed" THEN flushed \cup {"root"} ELSE flushed
  /\ GoTo("publish")
  /\ UNCHANGED <<database, shard, object, temp, synced, receipt, committed,
                 kills, outages>>

PublishDatabase ==
  /\ At("database") /\ Staged
  /\ database' = "seen"
  /\ flushed' = IF temp = "flushed" THEN flushed \cup {"database"} ELSE flushed
  /\ GoTo("publish")
  /\ UNCHANGED <<root, shard, object, temp, synced, receipt, committed, kills,
                 outages>>

Kept(entry) == IF entry = "seen" THEN "kept" ELSE entry

\* fsync of the parent directory.  What is published is opened and checked.
KeepParent ==
  /\ At("publish")
  /\ root' = Kept(root) /\ database' = Kept(database)
  /\ GoTo(IF database = "absent" THEN "opened" ELSE "inspect")
  /\ temp' = "none"
  /\ UNCHANGED <<shard, object, flushed, synced, receipt, committed, kills,
                 outages>>

MarkerReadable == Visible(root)
EmptyRoot == \A s \in Shards : shard[s] = "absent"

\* The root is opened: its marker is read and it must hold nothing.
OpenRoot ==
  /\ At("opened")
  /\ IF MarkerReadable /\ EmptyRoot
       THEN GoTo("database")
       ELSE Fails
  /\ UNCHANGED <<root, database, shard, object, flushed, temp, synced, receipt,
                 committed, kills, outages>>

\* The database is checked without being changed and the receipt printed.
InspectVolume ==
  /\ At("inspect")
  /\ receipt' = (MarkerReadable /\ EmptyRoot /\ Visible(database))
  /\ Fails
  /\ UNCHANGED <<root, database, shard, object, flushed, temp, synced,
                 committed, kills, outages>>

-----------------------------------------------------------------------------
(* The supervisor: put, assertToken and the transaction of the pointer     *)

\* The database is verified, then switched to WAL: SQLite's first journal syncs
\* the directory, so the entries of both paths are on the disk from there on.
BootVolume ==
  /\ At("off") /\ receipt
  /\ MarkerReadable /\ Visible(database)
  /\ root' = Kept(root) /\ database' = Kept(database)
  /\ GoTo("ready")
  /\ UNCHANGED <<shard, object, flushed, temp, synced, receipt,
                 committed, kills, outages>>

Put(b) ==
  /\ At("ready") /\ b \in Storable
  /\ job' = [at |-> "shard", blob |-> b]
  /\ UNCHANGED <<root, database, shard, object, flushed, temp, synced, receipt,
                 committed, kills, outages>>

MakeShard ==
  /\ At("shard")
  /\ shard' = [shard EXCEPT ![ShardOf[job.blob]] =
                 IF @ = "absent" THEN "seen" ELSE @]
  /\ GoTo("entry")
  /\ UNCHANGED <<root, database, object, flushed, temp, synced, receipt,
                 committed, kills, outages>>

\* Mutant of NewShard: an existing directory is taken to be on the disk
MadeNow(s) == shard[s] = "absent"

\* The entry of a shard is synced by the first put into it of this process.
NewShard(s) == s \notin synced

SyncShardEntry ==
  /\ At("entry")
  /\ LET s == ShardOf[job.blob] IN
       IF NewShard(s)
         THEN /\ shard' = [t \in Shards |-> Kept(shard[t])]
              /\ synced' = synced \cup {s}
         ELSE UNCHANGED <<shard, synced>>
  /\ GoTo("write")
  /\ UNCHANGED <<root, database, object, flushed, temp, receipt, committed,
                 kills, outages>>

WriteTemp ==
  /\ At("write")
  /\ temp' = "written"
  /\ GoTo("flush")
  /\ UNCHANGED <<root, database, shard, object, flushed, synced, receipt,
                 committed, kills, outages>>

FlushTemp ==
  /\ At("flush")
  /\ temp' = "flushed"
  /\ GoTo("link")
  /\ UNCHANGED <<root, database, shard, object, flushed, synced, receipt,
                 committed, kills, outages>>

\* Mutant of AfterExisting: an object that is there already fails the put
ExistingFails == "ready"

AfterExisting == "sync"

\* The temporary file is linked to its digest.  An object that is there
\* already is verified instead; a torn one fails the put.
Link ==
  /\ At("link")
  /\ CASE object[job.blob] = "absent" ->
            /\ object' = [object EXCEPT ![job.blob] = "seen"]
            /\ flushed' = IF temp = "flushed" THEN flushed \cup {job.blob}
                                              ELSE flushed
            /\ GoTo("sync")
       [] Visible(object[job.blob]) ->
            /\ GoTo(AfterExisting)
            /\ UNCHANGED <<object, flushed>>
       [] OTHER ->
            /\ job' = [at |-> "ready", blob |-> NoBlob]
            /\ UNCHANGED <<object, flushed>>
  /\ UNCHANGED <<root, database, shard, temp, synced, receipt, committed,
                 kills, outages>>

\* The temporary name is unlinked and the shard synced, with every object in it.
SyncShard ==
  /\ At("sync")
  /\ object' = [b \in Blobs |-> IF ShardOf[b] = ShardOf[job.blob]
                                  THEN Kept(object[b]) ELSE object[b]]
  /\ GoTo("verify")
  /\ UNCHANGED <<root, database, shard, flushed, temp, synced, receipt,
                 committed, kills, outages>>

VerifyFinal ==
  /\ At("verify")
  /\ IF Visible(object[job.blob])
       THEN GoTo("token")
       ELSE job' = [at |-> "ready", blob |-> NoBlob]
  /\ temp' = "none"
  /\ UNCHANGED <<root, database, shard, object, flushed, synced, receipt,
                 committed, kills, outages>>

\* A writer verifies the token once more and commits the pointer, synchronous
\* as every transaction of the epoch is.
CommitPointer ==
  /\ At("token")
  /\ committed' = IF Visible(object[job.blob])
                    THEN committed \cup {job.blob} ELSE committed
  /\ job' = [at |-> "ready", blob |-> NoBlob]
  /\ UNCHANGED <<root, database, shard, object, flushed, temp, synced, receipt, kills, outages>>

-----------------------------------------------------------------------------
(* Faults                                                                  *)

Kill ==
  /\ ~At("off") /\ kills < MaxKills
  /\ kills' = kills + 1
  /\ Fails
  /\ temp' = "none" /\ synced' = {}
  /\ UNCHANGED <<root, database, shard, object, flushed, receipt, committed,
                 outages>>

\* What an entry may be after the power is back.
AfterOutage(entry, whole) ==
  LET survived == IF whole THEN "kept" ELSE "torn" IN
  CASE entry = "seen" -> {"absent", survived}
    [] entry = "kept" -> {survived}
    [] OTHER -> {entry}

Outage ==
  /\ outages < MaxOutages
  /\ outages' = outages + 1
  /\ \E r \in AfterOutage(root, "root" \in flushed),
        d \in AfterOutage(database, "database" \in flushed) :
       /\ r = "absent" => d = "absent"
       /\ root' = r /\ database' = d
  /\ \E kept \in SUBSET {s \in Shards : shard[s] = "seen"},
        left \in SUBSET {b \in Blobs : object[b] = "seen"} :
       LET there(s) == shard[s] = "kept" \/ s \in kept
           named == {b \in Blobs : /\ object[b] # "absent" /\ there(ShardOf[b])
                                   /\ object[b] = "seen" => b \in left}
           whole == {b \in flushed \cap Blobs : object[b] # "torn"}
       IN
       /\ shard' = [s \in Shards |-> IF there(s) THEN "kept" ELSE "absent"]
       /\ object' = [b \in Blobs |->
            IF b \notin named THEN "absent"
            ELSE IF b \in whole THEN "kept" ELSE "torn"]
  /\ flushed' = flushed
       \ ({b \in Blobs : object'[b] = "absent"}
           \cup (IF root' = "absent" THEN {"root"} ELSE {})
           \cup (IF database' = "absent" THEN {"database"} ELSE {}))
  \* the operator of a volume without a database initializes it again
  /\ receipt' = (receipt /\ database' # "absent")
  /\ Fails
  /\ temp' = "none" /\ synced' = {}
  /\ UNCHANGED <<committed, kills>>

-----------------------------------------------------------------------------
Initializing ==
  Initialize \/ Stage \/ FlushStage \/ PublishRoot \/ PublishDatabase
    \/ KeepParent \/ OpenRoot \/ InspectVolume

Writing ==
  \/ \E b \in Blobs : Put(b)
  \/ MakeShard \/ SyncShardEntry \/ WriteTemp \/ FlushTemp \/ Link \/ SyncShard
  \/ VerifyFinal \/ CommitPointer

StorageStep == Initializing \/ BootVolume \/ Writing
StorageNext == StorageStep \/ Kill \/ Outage

StorageSpec == StorageInit /\ [][StorageNext]_storageVars
FairStorageSpec == StorageSpec /\ WF_storageVars(StorageStep)
                     /\ \A b \in Blobs : SF_storageVars(Put(b))

-----------------------------------------------------------------------------
StorageTypeOK ==
  /\ root \in Entries /\ database \in Entries
  /\ shard \in [Shards -> Entries] /\ object \in [Blobs -> Entries]
  /\ flushed \subseteq Blobs \cup {"root", "database"}
  /\ job \in [at : Steps, blob : Blobs \cup {NoBlob}]
  /\ temp \in Temps /\ synced \subseteq Shards
  /\ receipt \in BOOLEAN /\ committed \subseteq Blobs
  /\ kills \in 0..MaxKills /\ outages \in 0..MaxOutages

(***************************************************************************)
(* Every pointer that the database holds can be read, whatever was killed  *)
(* or lost its power and when: also an object that an earlier process had  *)
(* linked but not synced.                                                  *)
(***************************************************************************)
CommittedIsReadable ==
  \A b \in committed : Visible(object[b]) /\ Visible(database)

(***************************************************************************)
(* A supervisor that was initialized once is never left with a volume it   *)
(* can neither boot from nor initialize: no database without its root and  *)
(* no torn file under a published name.                                    *)
(***************************************************************************)
NothingIsTorn ==
  /\ root # "torn" /\ database # "torn"
  /\ database # "absent" => root # "absent"
  /\ \A b \in Blobs : object[b] # "torn"

(***************************************************************************)
(* However often the process dies or the power goes, initialization can be *)
(* run again until it is done, and every blob is stored in the end.        *)
(***************************************************************************)
EverythingIsStored == \A b \in Blobs : <>(b \in committed)

\* A volume under kills and losses of power: what was committed can be read, and no
\* file is seen in part.
StorageSafe ==
    /\ CommittedIsReadable
    /\ NothingIsTorn
=============================================================================
