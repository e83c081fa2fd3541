---------------------------- MODULE IndexCatalog ----------------------------
(***************************************************************************)
(* The index catalog of the ingestion database                             *)
(* (packages/ingestion-indexing/src/infrastructure/                        *)
(* sqlite-index-publication-store.ts): tables index_versions,              *)
(* current_index_versions and published_scope_catalog of one document      *)
(* index.  The scope rows of a version are written and checked together    *)
(* with it and are represented by the `scopes` field of its row.           *)
(***************************************************************************)
EXTENDS Integers

CONSTANTS Versions,     \* index versions of the document index
          ScopeShapes,  \* what a publication may ask to expose of a version
          NoVersion     \* current_index_versions has no row

VARIABLES catalog,      \* rows of index_versions
          current       \* current_index_versions.index_version

\* A row's fingerprint covers every field; publishedAt and scopes are the
\* ones that the digest in index_version does not determine.
Publication(v, publishedAt, scopes) ==
    [version |-> v, publishedAt |-> publishedAt, scopes |-> scopes]

CatalogInit ==
    /\ catalog = {}
    /\ current = NoVersion

\* findVersion, as far as its callers look.
FindVersion(v) == {row \in catalog : row.version = v}

Catalogued(v) == FindVersion(v) # {}

\* matchesRequestedPublication ignores publishedAt.
MatchesRequested(v, scopes) == \A row \in FindVersion(v) : row.scopes = scopes

\* commitCurrent raises IndexPublicationStoreConflict.
CommitConflicts(row) == FindVersion(row.version) \notin {{}, {row}}

\* Mutation of CommitCurrent: an existing row with another fingerprint counts
\* as already published.
CommitCurrentAnyRow(row) ==
    IF Catalogued(row.version)
    THEN UNCHANGED <<catalog, current>>
    ELSE catalog' = catalog \cup {row} /\ current' = row.version

\* Mutation of CommitCurrent: the pointer is not moved.
CommitCurrentNoPointer(row) ==
    /\ ~CommitConflicts(row)
    /\ catalog' = catalog \cup {row}
    /\ UNCHANGED current

\* commitCurrent: insert the version and move the pointer, or find the very
\* same row and leave everything, the pointer too, as it is.
CommitCurrent(row) ==
    /\ ~CommitConflicts(row)
    /\ IF Catalogued(row.version)
       THEN UNCHANGED <<catalog, current>>
       ELSE /\ catalog' = catalog \cup {row}
            /\ current' = row.version
=============================================================================
