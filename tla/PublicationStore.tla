-------------------------- MODULE PublicationStore --------------------------
(***************************************************************************)
(* The publications of one source                                          *)
(* (packages/ingestion-indexing/src/infrastructure/                        *)
(* sqlite-ingestion-publication-store.ts): tables                          *)
(* publication_recovery_intents, ingestion_publications and                *)
(* latest_ingestion_publications.  Every operation is one transaction.     *)
(*                                                                         *)
(* A publication is the record of what its canonical payload is computed   *)
(* from: its id, the observation, the structural identities of the indexed *)
(* snapshot, the predecessor and the frozen producedAt.  Two publications  *)
(* have the same canonical payload exactly when these records are equal.   *)
(***************************************************************************)
EXTENDS Integers

CONSTANTS NoContent     \* no observation

VARIABLES intents,      \* rows of publication_recovery_intents
          published,    \* rows of ingestion_publications
          latest        \* the row latest_ingestion_publications points to

NoPublication == [id |-> 0, obs |-> NoContent, ids |-> 0, prev |-> 0, stamp |-> 0]

PublicationsInit ==
    /\ intents = {}
    /\ published = {}
    /\ latest = NoPublication

\* pendingRecoveryIntentForSource.
PendingIntents == {i \in intents : ~i.committed}

\* prepareRecoveryIntent answers "already_prepared".
AlreadyPrepared(p) == \E i \in intents : i.pub = p

\* Mutation of MayPrepare: another pending intent of the source is no
\* obstacle.
MayPrepareAnother(p) ==
    /\ \A i \in intents : i.pub.id # p.id
    /\ p.prev = latest.id

\* prepareRecoveryIntent answers "prepared": the id is new, no other intent
\* of the source is pending and the predecessor is the latest publication.
MayPrepare(p) ==
    /\ \A i \in intents : i.pub.id # p.id
    /\ PendingIntents = {}
    /\ p.prev = latest.id

\* prepareRecoveryIntent when it does not raise publication_conflict.
PrepareIntent(p) ==
    /\ AlreadyPrepared(p) \/ MayPrepare(p)
    /\ intents' = IF AlreadyPrepared(p) THEN intents
                  ELSE intents \cup {[pub |-> p, committed |-> FALSE]}
    /\ UNCHANGED <<published, latest>>

\* commitReady does not raise: the payload is the one the intent froze and
\* the publication is there already or succeeds the latest one.
MayCommit(p) == AlreadyPrepared(p) /\ (p \in published \/ p.prev = latest.id)

\* commitReady: insert the row and move the pointer, or find the row, and
\* mark the intent in the same transaction.
CommitReady(p) ==
    /\ MayCommit(p)
    /\ published' = published \cup {p}
    /\ latest' = IF p \in published THEN latest ELSE p
    /\ intents' = {[i EXCEPT !.committed = @ \/ i.pub = p] : i \in intents}
=============================================================================
