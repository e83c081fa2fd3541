---------------------------- MODULE VectorIndex ----------------------------
(***************************************************************************)
(* What the ingestion side sees of the vector index behind                 *)
(* packages/ingestion-indexing/src/infrastructure/                         *)
(* qdrant-vector-index-adapter.ts: chunk records and retention leases, both *)
(* points of one collection that carry their index version in the payload. *)
(*                                                                         *)
(* The server applies a request atomically (wait: true, ordering: strong), *)
(* but nothing ties that moment to what its sender knows: the abort that   *)
(* ends a request (requestSignal) ends the wait and not the work.  The     *)
(* request may have been applied, may never be, or may be `late`: still    *)
(* carried out after its sender has gone on.  #retryTransient sends an     *)
(* idempotent request again, so the first attempt of one that succeeded    *)
(* in the end may be late too.                                             *)
(***************************************************************************)
EXTENDS Integers, FiniteSets

CONSTANTS Versions,     \* index versions
          Chunks,       \* chunk records of a version (ids derive from both)
          Leases,       \* retention lease ids
          MaxLate       \* bound on the requests that are late at one time

VARIABLES stored,       \* version -> records present
          retained,     \* version -> lease id -> expiresAt, 0 when absent
          late,         \* requests nobody waits for that the server still has
          struck        \* versions a late delete has hit since they were verified

VectorInit ==
    /\ stored = [v \in Versions |-> {}]
    /\ retained = [v \in Versions |-> [l \in Leases |-> 0]]
    /\ late = {} /\ struck = {}

\* The write requests.  `at` is the clock reading of the lease under which an
\* upsert was sent.
UpsertRequests == [write : {"upsert"}, version : Versions,
                   records : SUBSET Chunks, at : Nat]
RetainRequests == [write : {"retain"}, version : Versions, lease : Leases, until : Nat]
ReleaseRequests == [write : {"release"}, version : Versions, lease : Leases]
DeleteRequests == [write : {"delete"}, version : Versions]

WriteRequests == UpsertRequests \cup RetainRequests \cup ReleaseRequests \cup DeleteRequests

\* upsertRecords: one request with the points of a batch.
UpsertRecords(v, batch) ==
    /\ stored' = [stored EXCEPT ![v] = @ \cup batch]
    /\ UNCHANGED retained

\* listVersionRecords: every chunk record of the version.
ListVersionRecords(v) == stored[v]

\* retainVersion: upsert of the lease point; the last expiry wins.
RetainVersion(v, lease, until) ==
    /\ retained' = [retained EXCEPT ![v][lease] = until]
    /\ UNCHANGED stored

\* releaseRetentionLease: delete the lease point by its id.
ReleaseRetentionLease(v, lease) ==
    /\ retained' = [retained EXCEPT ![v][lease] = 0]
    /\ UNCHANGED stored

\* First request of deleteVersion: leases with expiresAt after the `now` the
\* caller read earlier.
RetainedAt(v, now) == \E l \in Leases : retained[v][l] > now

\* Second request of deleteVersion: every point of the version, the lease
\* points included.  Nothing ties it to the count that preceded it.
DeleteVersionPoints(v) ==
    /\ stored' = [stored EXCEPT ![v] = {}]
    /\ retained' = [retained EXCEPT ![v] = [l \in Leases |-> 0]]

\* What the server does with a write request.
CarriedOut(r) ==
    \/ r.write = "upsert" /\ UpsertRecords(r.version, r.records)
    \/ r.write = "retain" /\ RetainVersion(r.version, r.lease, r.until)
    \/ r.write = "release" /\ ReleaseRetentionLease(r.version, r.lease)
    \/ r.write = "delete" /\ DeleteVersionPoints(r.version)

\* The server may still have a copy of a request its sender has done with.
MayLinger(r) ==
    \/ late' = late
    \/ Cardinality(late) < MaxLate /\ late' = late \cup {r}

\* A request that succeeded for its sender.
Answered(r) == CarriedOut(r) /\ MayLinger(r) /\ UNCHANGED struck

\* A request that failed for its sender: applied, not applied, or late.
Unconfirmed(r) ==
    /\ CarriedOut(r) \/ UNCHANGED <<stored, retained>>
    /\ MayLinger(r)
    /\ UNCHANGED struck

\* The sender is gone while one of the requests may be under way.
SenderGone(requests) ==
    /\ late' = late \/ \E r \in requests : MayLinger(r)
    /\ UNCHANGED <<stored, retained, struck>>

\* The server carries a late request out.  It keeps it: a retried request has
\* several copies.
LateWrite(r) ==
    /\ r \in late
    /\ CarriedOut(r)
    /\ struck' = IF r.write = "delete" /\ stored[r.version] # {}
                 THEN struck \cup {r.version} ELSE struck
    /\ UNCHANGED late

\* No copy of a late request is left.
LateEnd(r) ==
    /\ r \in late
    /\ late' = late \ {r}
    /\ UNCHANGED <<stored, retained, struck>>

\* A reader has seen every record of the version.
Verified(v) == struck' = struck \ {v} /\ UNCHANGED <<stored, retained, late>>

\* Every record of the version is there, unless a late delete has hit it since
\* a publisher last verified it.
Intact(v) == stored[v] = Chunks \/ v \in struck
=============================================================================
