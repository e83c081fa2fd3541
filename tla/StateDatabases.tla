--------------------------- MODULE StateDatabases ---------------------------
(***************************************************************************)
(* Opening a state database: openIngestionDatabase                         *)
(* (packages/ingestion-indexing/src/infrastructure/                        *)
(* sqlite-ingestion-database.ts), openRegistryDatabase                     *)
(* (packages/registry-lifecycle/src/infrastructure/sqlite/                 *)
(* registry-database.ts) and openSelectionAuditDatabase                    *)
(* (apps/contextctl-daemon/src/selection-audit/                            *)
(* sqlite-selection-audit-store.ts).  The daemon and the commands of the   *)
(* CLI open the same file: each looks at its mark, version, tables and     *)
(* owner in statements of their own, then creates or migrates what it      *)
(* found in one transaction, which may come after another process's.  A    *)
(* behaviour is about one file of one of the three kinds.                  *)
(*                                                                         *)
(* `level` counts the schema steps whose tables a file has: createSchemaV1 *)
(* to createSchemaV6 for ingestion, the tables and the grounding columns   *)
(* for Registry, all tables for the audit.  `old` says that rows carry     *)
(* identities in the format before UUIDv7, or legacy state at version 1.   *)
(***************************************************************************)
EXTENDS Integers

CONSTANTS Openers,      \* processes that open or inspect the file
          Owners,       \* deployment identities they are configured with
          FirstFiles    \* the files they may find

Unowned == "nobody"
Unmarked == "unmarked"

Kinds == {"ingestion", "registry", "audit"}
Files == [kind : Kinds, mark : Kinds \cup {Unmarked}, version : Nat, level : Nat,
          owner : Owners \cup {Unowned}, old : BOOLEAN]

\* What a file can be before anybody opens it: without tables it has no rows and
\* no owner, and Registry has had two sets of tables and one format of identities.
ASSUME DatabaseAssumption ==
    /\ Unowned \notin Owners
    /\ FirstFiles \subseteq Files
    /\ \A f \in FirstFiles :
         /\ f.level = 0 => f.owner = Unowned /\ ~f.old
         /\ f.kind = "registry" /\ f.mark \in {Unmarked, "registry"} => f.level \in 0..2 /\ ~f.old

VARIABLES file,     \* the database
          found,    \* the file as the first of them found it
          opener    \* opener -> locals of its open call

databaseVars == <<file, found, opener>>

\* INGESTION_DATABASE_SCHEMA_VERSION and its counterparts.
CurrentVersion == [ingestion |-> 8, registry |-> 1, audit |-> 1]
FullLevel == [ingestion |-> 6, registry |-> 2, audit |-> 1]

AtStart == [pc |-> "new", owner |-> Unowned, version |-> 0, empty |-> FALSE, why |-> "none"]

DatabaseInit ==
    /\ file \in FirstFiles
    /\ found = file
    /\ opener = [o \in Openers |-> AtStart]

\* The open call throws, and its connection is closed.
Refuse(o, why) == opener' = [opener EXCEPT ![o] = [AtStart EXCEPT !.pc = "closed", !.why = why]]

Proceed(o, pc) == opener' = [opener EXCEPT ![o].pc = pc]

OpenerAt(o, pc) == opener[o].pc = pc

\* assertDatabaseClaimable of ingestion: tables without a version are nobody's.
IngestionClaimable ==
    /\ file.mark \in {Unmarked, "ingestion"}
    /\ file.version # 0 \/ file.level = 0

\* assertDatabaseClaimable of Registry: a file without the mark has no table.
RegistryClaimable ==
    file.mark = "registry" \/ (file.mark = Unmarked /\ file.level = 0)

\* What initializeOrAssert of the audit store takes for a new file.
Blank == file.mark = Unmarked /\ file.level = 0 /\ (file.kind = "audit" => file.version = 0)

Claimable ==
    CASE file.kind = "ingestion" -> IngestionClaimable
      [] file.kind = "registry" -> RegistryClaimable
      [] OTHER -> TRUE

\* assertExpectedSchema for the tables of a version.  Tables of a later step go
\* unnoticed, unless the step rebuilds a table: the sixth of ingestion does.
ExpectedSchema(version) ==
    CASE file.kind = "ingestion" ->
           IF version >= 6 THEN file.level = 6 ELSE file.level \in version..5
      [] OTHER -> file.level = FullLevel[file.kind]

\* assertDatabaseIdentity, assertRecordedIdentity.
OwnedBy(owner) == file.owner = owner

\* assertPersistedIdentityFormat: every identity in the columns and in the JSON
\* documents of the tables is a UUIDv7 with the prefix of its kind.
PersistedIdentityFormat == ~file.old

\* hasLegacyState: a file of the first version with rows in it.
HasLegacyState(version) == version = 1 /\ file.old

\* createSchemaV1 to createSchemaV5 create the tables that are missing ...
TablesAdded(level) == IF level < 5 THEN 5 ELSE level

\* ... and createSchemaV6 rebuilds two of them, which it can do once.
Rebuildable(level) == TablesAdded(level) = 5

\* migrate of Registry creates the tables that are missing with all columns;
\* ensureGroundingColumns gives them to a table of an earlier release.
RegistryTables(level) == IF level = 0 THEN 2 ELSE level
GroundingColumns(level) == IF level = 1 THEN 2 ELSE level

\* recordIdentity: ON CONFLICT DO NOTHING.
RecordIdentity(owner) == IF file.owner = Unowned THEN owner ELSE file.owner

\* assertCompatible of the audit store, and what inspectIngestionDatabase and
\* inspectRegistryDatabase ask before they report a compatible file.
CompatibleWith(owner) ==
    /\ file.mark = file.kind
    /\ file.version = CurrentVersion[file.kind]
    /\ ExpectedSchema(file.version)
    /\ OwnedBy(owner)
    /\ PersistedIdentityFormat

-----------------------------------------------------------------------------

\* The mark is read.  For Registry the answer "empty" is kept and decides later.
AssertDatabaseClaimable(o) ==
    /\ OpenerAt(o, "new")
    /\ \E owner \in Owners :
         IF ~Claimable
         THEN Refuse(o, IF file.mark = Unmarked THEN "schema_invalid" ELSE "identity_mismatch")
         ELSE opener' = [opener EXCEPT ![o] = [AtStart EXCEPT !.pc = "marked",
                           !.owner = owner, !.empty = Blank]]
    /\ UNCHANGED <<file, found>>

\* readSchemaVersion; the audit store creates a file it found without tables,
\* mark and version, and looks at any other.
ReadSchemaVersion(o) ==
    /\ OpenerAt(o, "marked")
    /\ IF file.version > CurrentVersion[file.kind] /\ file.kind # "audit"
       THEN Refuse(o, "schema_newer")
       ELSE opener' = [opener EXCEPT ![o].pc = "versioned", ![o].version = file.version]
    /\ UNCHANGED <<file, found>>

\* The checks of migrate before its transaction, of openRegistryDatabase for a
\* file that carries the mark, and of initializeOrAssert for one that is there.
AssertIdentity(o) ==
    /\ OpenerAt(o, "versioned")
    /\ LET me == opener[o]
           unclaimed == CASE file.kind = "ingestion" -> me.version \in {0, 1}
                          [] OTHER -> me.empty
       IN  IF unclaimed THEN Proceed(o, "migrate")
           ELSE IF file.kind = "registry"
           THEN IF OwnedBy(me.owner) THEN Proceed(o, "migrate") ELSE Refuse(o, "identity_mismatch")
           ELSE IF file.kind = "audit"
           THEN IF CompatibleWith(me.owner) THEN Proceed(o, "open") ELSE Refuse(o, "incompatible")
           ELSE IF ~ExpectedSchema(me.version) THEN Refuse(o, "schema_invalid")
           ELSE IF ~OwnedBy(me.owner) THEN Refuse(o, "identity_mismatch")
           ELSE IF me.version < 8 THEN Proceed(o, "migrate")
           ELSE IF ~PersistedIdentityFormat THEN Refuse(o, "identity_format_unsupported")
           ELSE Proceed(o, "claim")
    /\ UNCHANGED <<file, found>>

\* configureDurability: the file does not take WAL and full synchronisation, for
\* ingestion before its version is read and for Registry before its transaction.
ConfigureDurability(o) ==
    /\ \/ file.kind = "ingestion" /\ OpenerAt(o, "marked")
       \/ file.kind = "registry" /\ OpenerAt(o, "migrate")
    /\ Refuse(o, "schema_invalid")
    /\ UNCHANGED <<file, found>>

\* Mutation of MigrateIngestion: the owner is inserted unless there is one.
MigrateIngestionAdopting(o) ==
    /\ OpenerAt(o, "migrate") /\ file.kind = "ingestion"
    /\ IF file.old THEN Refuse(o, "identity_format_unsupported") /\ UNCHANGED file
       ELSE /\ file' = [file EXCEPT !.level = 6, !.version = 8,
                          !.owner = IF @ = Unowned THEN opener[o].owner ELSE @]
            /\ Proceed(o, "claim")
    /\ UNCHANGED found

\* The transaction of migrate, for the version that was read.  createSchemaV6
\* fails on tables it has already rebuilt, the row of ingestion_metadata can be
\* inserted once, and old rows are refused; what fails is rolled back.
MigrateIngestion(o) ==
    /\ OpenerAt(o, "migrate") /\ file.kind = "ingestion"
    /\ LET me == opener[o]
           first == me.version \in {0, 1}
       IN  IF \/ HasLegacyState(me.version) \/ ~PersistedIdentityFormat
              \/ me.version < 6 /\ ~Rebuildable(file.level)
              \/ first /\ file.owner # Unowned
           THEN Refuse(o, "migration_failed") /\ UNCHANGED file
           ELSE /\ file' = [file EXCEPT !.level = 6, !.version = 8,
                                        !.owner = IF first THEN me.owner ELSE @]
                /\ Proceed(o, "claim")
    /\ UNCHANGED found

\* claimDatabaseApplicationId comes after the transaction.
ClaimApplicationId(o) ==
    /\ OpenerAt(o, "claim")
    /\ file' = [file EXCEPT !.mark = file.kind]
    /\ Proceed(o, "check")
    /\ UNCHANGED found

\* The transaction of openRegistryDatabase: tables and columns that are missing,
\* the owner if the file was empty when it was looked at and has none now, the
\* version and the mark.
MigrateRegistry(o) ==
    /\ OpenerAt(o, "migrate") /\ file.kind = "registry"
    /\ file' = [file EXCEPT !.level = RegistryTables(GroundingColumns(@)),
                  !.version = 1, !.mark = "registry",
                  !.owner = IF opener[o].empty THEN RecordIdentity(opener[o].owner) ELSE @]
    /\ Proceed(o, "check")
    /\ UNCHANGED found

\* The transaction of initializeOrAssert, whose CREATE TABLE fails when another
\* process was first.
CreateAudit(o) ==
    /\ OpenerAt(o, "migrate") /\ file.kind = "audit"
    /\ IF file.level # 0 THEN Refuse(o, "create_failed") /\ UNCHANGED file
       ELSE /\ file' = [file EXCEPT !.level = 1, !.version = 1, !.mark = "audit",
                                    !.owner = opener[o].owner]
            /\ Proceed(o, "open")
    /\ UNCHANGED found

\* assertHealthy: quick_check and foreign_key_check, after what is committed.
AssertHealthy(o) ==
    /\ OpenerAt(o, "check")
    /\ Proceed(o, "open") \/ Refuse(o, "schema_invalid")
    /\ UNCHANGED <<file, found>>

\* inspect...Database: read-only, for doctor and status.
Inspect(o) ==
    /\ OpenerAt(o, "new")
    /\ \E owner \in Owners :
         opener' = [opener EXCEPT ![o] = [AtStart EXCEPT !.owner = owner,
                      !.pc = IF CompatibleWith(owner) THEN "compatible" ELSE "incompatible"]]
    /\ UNCHANGED <<file, found>>

\* The process ends, at any point; a transaction that has not committed leaves nothing.
OpenerStops(o) ==
    /\ opener[o].pc \notin {"new", "closed", "compatible", "incompatible"}
    /\ Refuse(o, "stopped")
    /\ UNCHANGED <<file, found>>

DatabaseNext == \E o \in Openers :
    \/ AssertDatabaseClaimable(o) \/ ReadSchemaVersion(o) \/ AssertIdentity(o)
    \/ ConfigureDurability(o) \/ MigrateIngestion(o) \/ ClaimApplicationId(o)
    \/ MigrateRegistry(o) \/ CreateAudit(o) \/ AssertHealthy(o)
    \/ Inspect(o) \/ OpenerStops(o)

DatabaseSpec == DatabaseInit /\ [][DatabaseNext]_databaseVars

-----------------------------------------------------------------------------

\* Whoever has a database open, or was told it may, has the current tables, and
\* the file names it as its owner; a file of somebody else, of another program or
\* of a later version is left as it was, and no stop in the middle leaves tables
\* of one version under the number of another.  The Registry database is
\* exempted where its opener took it for empty: see OwnedByItsOpener.
OpenedIsOwn ==
    /\ \A o \in Openers :
         /\ OpenerAt(o, "open") =>
              /\ file.version = CurrentVersion[file.kind] /\ file.level = FullLevel[file.kind]
              /\ file.mark = file.kind /\ ~file.old
              /\ OwnedBy(opener[o].owner) \/ (file.kind = "registry" /\ opener[o].empty)
         /\ OpenerAt(o, "compatible") => OwnedBy(opener[o].owner)
    /\ \/ file = found
       \/ /\ file.level = FullLevel[file.kind] /\ file.version = CurrentVersion[file.kind]
          /\ found.mark \in {Unmarked, file.kind}
          /\ found.version <= file.version
          /\ found.owner \in {Unowned, file.owner}

\* The Registry database as its comments promise it: an open that finds nothing
\* in the file initialises it and takes ownership, so that no deployment works on
\* a file that says it belongs to another.
OwnedByItsOpener ==
    \A o \in Openers : OpenerAt(o, "open") => OwnedBy(opener[o].owner)
=============================================================================
