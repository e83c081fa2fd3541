--------------------------- MODULE ManagedSearch ---------------------------
(***************************************************************************)
(* ManagedDocumentSearch                                                   *)
(* (ingestion-indexing/src/application/managed-document-search.ts): how    *)
(* one target of a batch is resolved, searched, checked and projected.     *)
(*                                                                         *)
(* What the target meets is a record of the checks that fail; a hit is     *)
(* told apart by whether it belongs to the manifest of the searched        *)
(* version and to the units of the scope.                                  *)
(***************************************************************************)
EXTENDS Integers, SequencesExt, FiniteSets

CONSTANTS SearchConcurrency, MaxBatchTargets

ASSUME SearchAssumption == SearchConcurrency \in 1 .. MaxBatchTargets

\* The checks of a target: the step of #searchTarget that makes it, and the code
\* and retriability of the error it raises.  The binding is opened and the query
\* embedded side by side, so either may fail first.
Check(step, code, retriable) == [step |-> step, code |-> code, retriable |-> retriable]
Checks == [
    request |-> Check(1, "invalid_request", FALSE),
    catalog_schema |-> Check(2, "index_schema_unsupported", FALSE),
    catalog_corrupt |-> Check(2, "index_catalog_corrupt", FALSE),
    catalog_fault |-> Check(2, "index_catalog_unavailable", TRUE),
    unpublished |-> Check(3, "scope_not_published", FALSE),
    foreign_domain |-> Check(4, "security_domain_mismatch", FALSE),
    query_too_long |-> Check(5, "query_input_limit_exceeded", FALSE),
    schema |-> Check(6, "index_schema_unsupported", FALSE),
    scope_differs |-> Check(7, "scope_not_published", FALSE),
    no_provider |-> Check(8, "embedding_provider_not_allowed", FALSE),
    no_connector |-> Check(9, "index_binding_unavailable", FALSE),
    binding_result |-> Check(10, "search_result_invalid", FALSE),
    binding_invalid |-> Check(10, "index_binding_invalid", FALSE),
    binding_fault |-> Check(10, "index_binding_unavailable", TRUE),
    artifact_missing |-> Check(10, "embedding_artifact_unavailable", FALSE),
    embedding_limit |-> Check(10, "query_input_limit_exceeded", FALSE),
    embedding_fault |-> Check(10, "query_embedding_failed", TRUE),
    embedding_invalid |-> Check(10, "query_embedding_invalid", FALSE),
    search_invalid |-> Check(11, "index_binding_invalid", FALSE),
    search_gone |-> Check(11, "index_binding_unavailable", FALSE),
    search_fault |-> Check(11, "vector_search_unavailable", TRUE)]

\* The errors a target may end with when the checks in `failing` fail.
FirstFailures(failing) ==
    {Checks[c] : c \in {d \in failing : \A e \in failing : Checks[d].step <= Checks[e].step}}

\* A hit of the vector index as projectHit sees it: does its metadata match the
\* manifest, is its text the one whose digest was recorded, is its unit in scope.
Hit == [id : 1 .. 2, score : 1 .. 2, ofManifest : BOOLEAN, digestMatches : BOOLEAN,
        inScope : BOOLEAN]

\* projectHit: whatever does not fit the published version is not delivered.
Projectable(hit) == hit.ofManifest /\ hit.digestMatches /\ hit.inScope

\* The order of the hits: best score first, then the revision's identity.
HitBefore(g, h) == g.score > h.score \/ (g.score = h.score /\ g.id < h.id)

\* #searchTarget after the vector index has answered: a list that is too long,
\* repeats a record or holds a hit that does not fit fails the target as a whole.
SearchResult(hits, limit) ==
    IF \/ Len(hits) > limit
       \/ \E i, j \in DOMAIN hits : i # j /\ hits[i].id = hits[j].id
       \/ \E i \in DOMAIN hits : ~Projectable(hits[i])
    THEN [status |-> "failed", code |-> "search_result_invalid", retriable |-> FALSE]
    ELSE [status |-> "fulfilled", hits |-> SortSeq(hits, HitBefore)]

\* Of a searched target the batch keeps whether it delivers, not what.
HitLists == UNION {[1 .. n -> Hit] : n \in 0 .. 3}
FoundItems ==
    {IF r.status = "failed" THEN r ELSE [status |-> r.status] :
        r \in {SearchResult(hits, 2) : hits \in HitLists}}

Failed(code, retriable) == [status |-> "failed", code |-> code, retriable |-> retriable]

\* cancelledItem: what a target reports when the batch's signal was aborted.
CancelledItem == Failed("cancelled", FALSE)

\* The items a task that ends with an error may put into the answer.
FailedItems(failing, aborted) ==
    IF aborted THEN {CancelledItem}
    ELSE {Failed(f.code, f.retriable) : f \in FirstFailures(failing)}

\* mapWithConcurrency: a worker takes the next value while fewer than
\* SearchConcurrency tasks run.  `items` maps the batch's targets to an item.
Todo == [status |-> "todo"]
Running == [status |-> "running"]
TargetsIn(items, status) == {t \in DOMAIN items : items[t].status = status}

NextTargets(items) ==
    {t \in TargetsIn(items, "todo") :
        /\ \A u \in TargetsIn(items, "todo") : t <= u
        /\ Cardinality(TargetsIn(items, "running")) < SearchConcurrency}

BatchOver(items) == TargetsIn(items, "todo") \cup TargetsIn(items, "running") = {}
=============================================================================
