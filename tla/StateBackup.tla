---------------------------- MODULE StateBackup ----------------------------
(***************************************************************************)
(* Backup and restore of the daemon's state: createStateBackup and         *)
(* restoreStateBackup (operations/state-backup.ts) over                    *)
(* QdrantSnapshotArchive (operations/qdrant-snapshot-archive.ts), run by   *)
(* cli/state-backup-command.ts, under apps/contextctl-daemon/src, beside   *)
(* the processes that publish and consume.                                 *)
(*                                                                         *)
(* A publication stands for its row in the ingestion database, its index   *)
(* version and that version's records in a collection.  A backup holds     *)
(* what it copied of each; the server restored into is not the one saved.  *)
(* A request to a server can fail before it has an effect, after it, or,   *)
(* for an upload, take effect when nobody waits for it any more.           *)
(***************************************************************************)
EXTENDS Integers, Sequences, FiniteSets

CONSTANTS
    Publications,   \* numbers: publications in the order they are made
    Collections,    \* numbers: collections in the order of their names
    Backups,        \* runs of `contextctl backup create`
    MaxRestores,    \* runs of `contextctl backup restore`
    Identities,     \* state identities an operator may configure
    Own             \* the identity stored in the saved state

Nobody == "nobody"

ASSUME BackupAssumption ==
    /\ IsFiniteSet(Publications) /\ Publications = 1 .. Cardinality(Publications)
    /\ IsFiniteSet(Collections) /\ Collections = 1 .. Cardinality(Collections) /\ Collections # {}
    /\ Nobody \notin Backups
    /\ Own \in Identities

VARIABLES
    points,     \* publications whose records are in their collection
    ingestion,  \* publications in the ingestion database
    registry,   \* publications Registry has consumed
    freezer,    \* database -> the backup that holds its write lock, or Nobody
    bk,         \* backup -> its progress
    left,       \* snapshots on the saved server, each named by its backup and collection
    archive,    \* what was renamed to the destination, or NoArchive
    damaged,    \* parts of the archive that no longer match the manifest
    target,     \* collection -> its publications on the server restored into, or Absent
    late,       \* uploads without an answer that the server has yet to carry out
    home,       \* whether the directory restored into exists
    rs,         \* the run of restore
    restores    \* runs of restore so far

backupVars == <<points, ingestion, registry, freezer, bk, left, archive, damaged>>
restoreVars == <<target, late, home, rs, restores>>
stateVars == <<points, ingestion, registry, freezer, bk, left, archive, damaged,
               target, late, home, rs, restores>>

NoArchive == [made |-> FALSE]
Absent == {0}
CollectionOf(p) == (p % Cardinality(Collections)) + 1
PointsOf(c) == {p \in points : CollectionOf(p) = c}
InOrder(S) == [k \in 1 .. Cardinality(S) |-> CHOOSE x \in S : Cardinality({y \in S : y < x}) = k - 1]

Waiting == [st |-> "new", identity |-> Own, todo |-> <<>>, kept |-> <<>>, failing |-> FALSE,
            ingestion |-> {}, registry |-> {}, why |-> "none"]
Ended(why) == [Waiting EXCEPT !.st = "ended", !.why = why]

\* --- the processes beside -----------------------------------------------------

\* An index version is staged, published, and announced to Registry.  Only the two
\* databases know of write locks.
Stage(p) ==
    /\ p \notin points /\ p - 1 \in ingestion \cup {0}
    /\ points' = points \cup {p}
    /\ UNCHANGED <<ingestion, registry, freezer, bk, left, archive, damaged, restoreVars>>

CommitPublication(p) ==
    /\ p \in points \ ingestion /\ freezer.ingestion = Nobody
    /\ ingestion' = ingestion \cup {p}
    /\ UNCHANGED <<points, registry, freezer, bk, left, archive, damaged, restoreVars>>

Consume(p) ==
    /\ p \in ingestion \ registry /\ freezer.registry = Nobody
    /\ registry' = registry \cup {p}
    /\ UNCHANGED <<points, ingestion, freezer, bk, left, archive, damaged, restoreVars>>

CollectStaging(p) ==
    /\ p \in points \ ingestion
    /\ points' = points \ {p}
    /\ UNCHANGED <<ingestion, registry, freezer, bk, left, archive, damaged, restoreVars>>

\* --- backup -------------------------------------------------------------------

\* The locks a backup holds go with it, whether it ends or its process stops.
Unlocked(b) == [d \in DOMAIN freezer |-> IF freezer[d] = b THEN Nobody ELSE freezer[d]]

\* The finally block: locks are released and an unfinished staging directory removed.
EndBackup(b, why) ==
    /\ bk' = [bk EXCEPT ![b] = Ended(why)]
    /\ freezer' = Unlocked(b)
    /\ UNCHANGED <<points, ingestion, registry, damaged, restoreVars>>

BeginBackup(b) ==
    /\ bk[b].st = "new"
    /\ \E identity \in Identities :
         IF archive.made
         THEN EndBackup(b, "backup_destination_exists") /\ UNCHANGED <<left, archive>>
         ELSE /\ bk' = [bk EXCEPT ![b].st = "opened", ![b].identity = identity]
              /\ UNCHANGED <<points, ingestion, registry, freezer, left, archive, damaged, restoreVars>>

\* Mutation of FreezeIngestion: the database is read but not locked.
FreezeIngestionUnlocked(b) ==
    /\ bk[b].st = "opened" /\ bk[b].identity = Own
    /\ bk' = [bk EXCEPT ![b].st = "half_frozen"]
    /\ UNCHANGED <<points, ingestion, registry, freezer, left, archive, damaged, restoreVars>>

\* assertStoredIdentity: the namespace and security domain of the open database.
StoredIdentityFits(b) == bk[b].identity = Own

\* openLockConnection, assertStoredIdentity, BEGIN IMMEDIATE on the ingestion database.
FreezeIngestion(b) ==
    /\ bk[b].st = "opened"
    /\ IF ~StoredIdentityFits(b)
       THEN EndBackup(b, "backup_state_corrupt") /\ UNCHANGED <<left, archive>>
       ELSE IF freezer.ingestion # Nobody
       THEN EndBackup(b, "backup_state_busy") /\ UNCHANGED <<left, archive>>
       ELSE /\ freezer' = [freezer EXCEPT !.ingestion = b]
            /\ bk' = [bk EXCEPT ![b].st = "half_frozen"]
            /\ UNCHANGED <<points, ingestion, registry, left, archive, damaged, restoreVars>>

\* listPublishedQdrantBackupTargets: the collections of every published version.
BackupTargets == InOrder({CollectionOf(p) : p \in ingestion})

\* The same on the registry database, and the list of what is to be saved.
FreezeRegistry(b) ==
    /\ bk[b].st = "half_frozen"
    /\ IF freezer.registry # Nobody
       THEN EndBackup(b, "backup_state_busy") /\ UNCHANGED <<left, archive>>
       ELSE /\ freezer' = [freezer EXCEPT !.registry = b]
            /\ bk' = [bk EXCEPT ![b].st = "saving", ![b].todo = BackupTargets]
            /\ UNCHANGED <<points, ingestion, registry, left, archive, damaged, restoreVars>>

\* #createSnapshot: a request that fails may have left a snapshot behind.
CreateSnapshot(b) ==
    /\ bk[b].st = "saving" /\ bk[b].todo # <<>>
    /\ LET c == Head(bk[b].todo)
       IN  \/ /\ bk' = [bk EXCEPT ![b].st = "downloading",
                                  ![b].kept = Append(@, [collection |-> c, points |-> PointsOf(c)])]
              /\ left' = left \cup {<<b, c>>}
              /\ UNCHANGED <<points, ingestion, registry, freezer, archive, damaged, restoreVars>>
           \/ /\ EndBackup(b, "backup_write_failed")
              /\ left' \in {left, left \cup {<<b, c>>}}
              /\ UNCHANGED archive

\* #downloadSnapshot, into a partial file that is renamed when it is complete.
DownloadSnapshot(b) ==
    /\ bk[b].st = "downloading"
    /\ \E fails \in BOOLEAN : bk' = [bk EXCEPT ![b].st = "deleting", ![b].failing = fails]
    /\ UNCHANGED <<points, ingestion, registry, freezer, left, archive, damaged, restoreVars>>

\* #deleteSnapshot comes after a failed download too.
DeleteSnapshot(b) ==
    /\ bk[b].st = "deleting"
    /\ LET c == Head(bk[b].todo)
       IN  \/ /\ left' = left \ {<<b, c>>}
              /\ IF bk[b].failing THEN EndBackup(b, "backup_write_failed") /\ UNCHANGED archive
                 ELSE /\ bk' = [bk EXCEPT ![b].st = "saving", ![b].todo = Tail(@)]
                      /\ UNCHANGED <<points, ingestion, registry, freezer, archive, damaged, restoreVars>>
           \/ /\ left' \in {left, left \ {<<b, c>>}}
              /\ EndBackup(b, "backup_write_failed") /\ UNCHANGED archive

\* assertVectorArtifacts, then createSqliteArtifact for one database after the other.
CopyIngestion(b) ==
    /\ bk[b].st = "saving" /\ bk[b].todo = <<>>
    /\ bk' = [bk EXCEPT ![b].st = "half_copied", ![b].ingestion = ingestion]
    /\ UNCHANGED <<points, ingestion, registry, freezer, left, archive, damaged, restoreVars>>

CopyRegistry(b) ==
    /\ bk[b].st = "half_copied"
    /\ bk' = [bk EXCEPT ![b].st = "copied", ![b].registry = registry]
    /\ UNCHANGED <<points, ingestion, registry, freezer, left, archive, damaged, restoreVars>>

\* The manifest is written and the staging directory takes the destination's name,
\* unless another backup took it first.
CommitBackup(b) ==
    /\ bk[b].st = "copied"
    /\ IF archive.made
       THEN EndBackup(b, "backup_write_failed") /\ UNCHANGED archive
       ELSE /\ archive' = [made |-> TRUE, identity |-> bk[b].identity, ingestion |-> bk[b].ingestion,
                           registry |-> bk[b].registry, collections |-> bk[b].kept]
            /\ EndBackup(b, "committed")
    /\ UNCHANGED left

\* A step that does local work fails.
BackupFails(b) ==
    /\ bk[b].st \in {"opened", "half_frozen", "saving", "half_copied", "copied"}
    /\ EndBackup(b, "backup_write_failed")
    /\ UNCHANGED <<left, archive>>

\* The process stops; SQLite lets go of its locks.
BackupStops(b) ==
    /\ bk[b].st \notin {"new", "ended"}
    /\ EndBackup(b, "stopped")
    /\ UNCHANGED <<left, archive>>

\* --- restore ------------------------------------------------------------------

NoRestore == [st |-> "idle", created |-> <<>>, todo |-> <<>>, found |-> {}, stray |-> {},
              reported |-> FALSE, why |-> "none"]

\* Parts the manifest gives a size and a digest for.
Parts == {"manifest", "sqlite", "qdrant"}

\* A file of the archive changes on its disk while nobody restores it.
Damage(part) ==
    /\ archive.made /\ damaged = {} /\ rs.st = "idle" /\ restores = 0
    /\ damaged' = {part}
    /\ UNCHANGED <<points, ingestion, registry, freezer, bk, left, archive, restoreVars>>

\* assertManifest and the checks of its parts.
ManifestReadable == "manifest" \notin damaged

\* verifyArtifacts: the size and the digest of every file.
ArtifactsIntact == damaged \subseteq {"manifest"}

Refused(identity) ==
    CASE home -> "restore_destination_exists"
      [] ~home /\ ~ManifestReadable -> "backup_manifest_invalid"
      [] ~home /\ ManifestReadable /\ identity # archive.identity -> "restore_identity_mismatch"
      [] OTHER -> IF ArtifactsIntact THEN "none" ELSE "restore_integrity_failed"

RestoreTargets == [k \in DOMAIN archive.collections |-> archive.collections[k].collection]
SavedPoints(c) ==
    archive.collections[CHOOSE k \in DOMAIN archive.collections : archive.collections[k].collection = c].points

\* The checks before anything is written, then the copies of the databases.
BeginRestore ==
    /\ rs.st \in {"idle", "ended"} /\ archive.made /\ restores < MaxRestores
    /\ restores' = restores + 1
    /\ \E identity \in Identities :
         rs' = IF Refused(identity) # "none"
               THEN [NoRestore EXCEPT !.st = "ended", !.why = Refused(identity)]
               ELSE [NoRestore EXCEPT !.st = "looking", !.todo = RestoreTargets,
                                      !.found = {c \in Collections : target[c] # Absent}]
    /\ UNCHANGED <<backupVars, target, late, home>>

\* The preflight of restore: every collection must be absent.
Preflight ==
    /\ rs.st = "looking"
    /\ rs' = IF rs.todo = <<>> THEN [rs EXCEPT !.st = "uploading", !.todo = RestoreTargets]
             ELSE IF target[Head(rs.todo)] # Absent
             THEN [rs EXCEPT !.st = "ended", !.why = "collection_already_exists"]
             ELSE [rs EXCEPT !.todo = Tail(@)]
    /\ UNCHANGED <<backupVars, target, late, home, restores>>

\* #uploadSnapshot: it succeeds, it fails without or with an effect, or it times out
\* and is carried out later.
Upload ==
    /\ rs.st = "uploading" /\ rs.todo # <<>>
    /\ LET c == Head(rs.todo)
           written == [target EXCEPT ![c] = SavedPoints(c)]
       IN  \/ /\ target' = written
              /\ rs' = [rs EXCEPT !.st = "confirming", !.created = Append(@, c)]
              /\ UNCHANGED late
           \/ /\ target' \in {target, written}
              /\ rs' = [rs EXCEPT !.st = "probing"]
              /\ UNCHANGED late
           \/ /\ late' = late \cup {c}
              /\ rs' = [rs EXCEPT !.st = "probing"]
              /\ UNCHANGED target
    /\ UNCHANGED <<backupVars, home, restores>>

\* The server finishes an upload whose request was given up.
LateUpload(c) ==
    /\ c \in late
    /\ late' = late \ {c}
    /\ target' = [target EXCEPT ![c] = SavedPoints(c)]
    /\ rs' = [rs EXCEPT !.stray = @ \cup {c}]
    /\ UNCHANGED <<backupVars, home, restores>>

\* After an upload that succeeded the collection is looked for.
Confirm ==
    /\ rs.st = "confirming"
    /\ \/ rs' = IF target[Head(rs.todo)] # Absent
                THEN [rs EXCEPT !.st = "uploading", !.todo = Tail(@)]
                ELSE [rs EXCEPT !.st = "undoing"]
       \/ rs' = [rs EXCEPT !.st = "undoing"]
    /\ UNCHANGED <<backupVars, target, late, home, restores>>

\* Mutation of Probe: an upload that failed is taken not to have had an effect.
ProbeNothing ==
    /\ rs.st = "probing"
    /\ rs' = [rs EXCEPT !.st = "undoing"]
    /\ UNCHANGED <<backupVars, target, late, home, restores>>

\* After one that failed too: what appeared joins the rollback; when even the
\* question fails, the ambiguity is reported.
Probe ==
    /\ rs.st = "probing"
    /\ \/ rs' = [rs EXCEPT !.st = "undoing",
                           !.created = IF target[Head(rs.todo)] # Absent THEN Append(@, Head(rs.todo)) ELSE @]
       \/ rs' = [rs EXCEPT !.st = "undoing", !.reported = TRUE]
    /\ UNCHANGED <<backupVars, target, late, home, restores>>

\* #deleteCollections, newest first; a deletion that fails is reported.
Undo ==
    /\ rs.st = "undoing"
    /\ IF rs.created = <<>>
       THEN rs' = [rs EXCEPT !.st = "ended", !.why = "restore_write_failed"] /\ UNCHANGED target
       ELSE LET c == rs.created[Len(rs.created)]
                rest == [rs EXCEPT !.created = SubSeq(@, 1, Len(@) - 1)]
            IN  \/ rs' = rest /\ target' = [target EXCEPT ![c] = Absent]
                \/ /\ rs' = [rest EXCEPT !.reported = TRUE]
                   /\ target' \in {target, [target EXCEPT ![c] = Absent]}
    /\ UNCHANGED <<backupVars, late, home, restores>>

\* The staging directory becomes the home; when it cannot, the lease is rolled back.
CommitRestore ==
    /\ rs.st = "uploading" /\ rs.todo = <<>>
    /\ \/ ~home /\ home' = TRUE /\ rs' = [NoRestore EXCEPT !.st = "ended", !.why = "restored"]
       \/ rs' = [rs EXCEPT !.st = "undoing"] /\ UNCHANGED home
    /\ UNCHANGED <<backupVars, target, late, restores>>

RestoreStops ==
    /\ rs.st \notin {"idle", "ended"}
    /\ rs' = [NoRestore EXCEPT !.st = "ended", !.why = "stopped"]
    /\ UNCHANGED <<backupVars, target, late, home, restores>>

BackupInit ==
    /\ points = {} /\ ingestion = {} /\ registry = {} /\ left = {}
    /\ freezer = [ingestion |-> Nobody, registry |-> Nobody]
    /\ bk = [b \in Backups |-> Waiting]
    /\ archive = NoArchive /\ damaged = {}
    /\ target \in [Collections -> {Absent, {}}]
    /\ late = {} /\ home = FALSE /\ rs = NoRestore /\ restores = 0

BackupNext ==
    \/ \E p \in Publications : Stage(p) \/ CommitPublication(p) \/ Consume(p) \/ CollectStaging(p)
    \/ \E b \in Backups :
         \/ BeginBackup(b) \/ FreezeIngestion(b) \/ FreezeRegistry(b)
         \/ CreateSnapshot(b) \/ DownloadSnapshot(b) \/ DeleteSnapshot(b)
         \/ CopyIngestion(b) \/ CopyRegistry(b) \/ CommitBackup(b)
         \/ BackupFails(b) \/ BackupStops(b)
    \/ \E part \in Parts : Damage(part)
    \/ BeginRestore \/ Preflight \/ Upload \/ Confirm \/ Probe \/ Undo \/ CommitRestore
    \/ RestoreStops \/ \E c \in Collections : LateUpload(c)

BackupSpec == BackupInit /\ [][BackupNext]_stateVars

-----------------------------------------------------------------------------
\* A backup that was committed is a state the system was in: what its registry
\* consumed is in its ingestion database, and the records of everything published
\* there are in its collections, however publishing goes on beside the backup and
\* wherever two backups meet.
BackupIsOneMoment ==
    archive.made =>
        /\ archive.registry \subseteq archive.ingestion
        /\ \A p \in archive.ingestion : \E k \in DOMAIN archive.collections :
             /\ archive.collections[k].collection = CollectionOf(p)
             /\ p \in archive.collections[k].points

\* A restore ends with the home and every collection in place, or with neither.
\* What it leaves when it fails is either reported, or an upload without an answer
\* that the server carried out after it was asked whether it had; collections that
\* were there before keep what they held.
RestoreAllOrNothing ==
    /\ rs.st = "ended" /\ rs.why = "restored" =>
         home /\ \A p \in archive.ingestion : p \in target[CollectionOf(p)]
    /\ rs.st = "ended" /\ rs.why = "restore_write_failed" /\ ~rs.reported =>
         \A c \in Collections \ (rs.found \cup rs.stray) : target[c] = Absent
    /\ rs.st # "idle" => \A c \in rs.found : target[c] # Absent
=============================================================================
