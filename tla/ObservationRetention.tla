------------------------ MODULE ObservationRetention ------------------------
(***************************************************************************)
(* The store of raw source observations of one source                      *)
(* (packages/ingestion-indexing/src/infrastructure/                        *)
(* sqlite-source-observation-store.ts) and SourceObservationRetention      *)
(* (application/retain-source-observations.ts), which deletes old ones     *)
(* while processes ingest.  Retention selects its candidates in one query  *)
(* and deletes them one by one, each in a transaction of its own; between  *)
(* the two, and between two deletions, a run may store, bring back or      *)
(* publish an observation.                                                 *)
(*                                                                         *)
(* An observation is identified by its content (UNIQUE (source_id,         *)
(* content_digest)), and keeps the time of its first capture when the      *)
(* content comes back.  What protects it is, in the order a run acquires   *)
(* them, the pointer to the latest observation and the run's lease, the    *)
(* pending recovery intent, the latest publication, and the comparison     *)
(* pointer.  The workflow itself is PublicationWorkflow; here a run is the *)
(* part of it that touches these tables.  A lease belongs to an ingester:  *)
(* the ids are taken to differ.                                            *)
(***************************************************************************)
EXTENDS Integers, FiniteSets, FiniteSetsExt

CONSTANTS Drafts,              \* contents the source file may have
          Ingesters,           \* processes that run ingest
          NoDraft,             \* no observation
          LeaseTime,           \* observationRetentionLeaseMs
          RetentionPeriod,     \* retentionPeriodMs
          MinimumSnapshots,    \* minimumSnapshotsPerSource
          RetentionBatch,      \* batchSize
          MaxTime              \* bound on the clock

\* assertPolicy.
RetentionPolicyValid ==
    /\ RetentionPeriod \in Nat \ {0}
    /\ MinimumSnapshots \in Nat \ {0}
    /\ RetentionBatch \in 1..1000

ASSUME RetentionAssumption ==
    /\ RetentionPolicyValid
    /\ NoDraft \notin Drafts
    /\ LeaseTime \in Nat \ {0} /\ MaxTime \in Nat

VARIABLES captured,     \* source_observations: content -> first capture
          latestSeen,   \* latest_source_observations
          compared,     \* comparison_source_observations
          leases,       \* source_observation_retention_leases
          pending,      \* the intent with committed = 0, and whether it was
                        \* recorded while its run's lease was good
          publishedAs,  \* the intent the latest publication was committed from
          ingest,       \* ingester -> locals of publish()
          sweep,        \* candidates SourceObservationRetention still has
          today

retentionVars == <<captured, latestSeen, compared, leases, pending, publishedAs,
                   ingest, sweep, today>>

NoIntent == [obs |-> NoDraft, inTime |-> TRUE]

IdleIngest == [pc |-> "idle", obs |-> NoDraft, until |-> 0, expected |-> NoDraft]

NoSweep == [status |-> "idle", left |-> {}]

RetentionInit ==
    /\ captured = <<>>
    /\ latestSeen = NoDraft /\ compared = NoDraft
    /\ leases = {}
    /\ pending = NoIntent
    /\ publishedAs = NoIntent
    /\ ingest = [i \in Ingesters |-> IdleIngest]
    /\ sweep = NoSweep
    /\ today = 0

Kept == DOMAIN captured

IngestAt(i, pc) == ingest[i].pc = pc

\* A lease's end is of no use to its run once the intent is recorded, nor is the
\* baseline it read once the run only has to release the lease.
IngestGoes(i, pc) ==
    ingest' = [ingest EXCEPT ![i].pc = pc, ![i].until = 0,
                             ![i].expected = IF pc = "release" THEN NoDraft ELSE @]

-----------------------------------------------------------------------------
(* A run                                                                   *)

\* commit: the row is inserted unless its content is stored, the latest
\* pointer moves to it, and the run's lease on it is taken or renewed, all in
\* one transaction.  Nothing is stored when the file has not changed since
\* the baseline.
CommitObservation(i, draft) ==
    /\ IngestAt(i, "idle") /\ pending = NoIntent /\ publishedAs.obs = compared
    /\ draft # compared
    /\ captured' = [d \in Kept \union {draft} |->
                      IF d \in Kept THEN captured[d] ELSE today]
    /\ latestSeen' = draft
    /\ leases' = {l \in leases : l.of # i \/ l.obs # draft}
                   \union {[of |-> i, obs |-> draft, until |-> today + LeaseTime]}
    /\ ingest' = [ingest EXCEPT ![i] = [pc |-> "holding", obs |-> draft,
                    until |-> today + LeaseTime, expected |-> compared]]
    /\ UNCHANGED <<compared, pending, publishedAs, sweep, today>>

\* prepareRecoveryIntent: one intent of a source may be pending.
PrepareIntent(i) ==
    /\ IngestAt(i, "holding")
    /\ \/ /\ pending = NoIntent
          /\ pending' = [obs |-> ingest[i].obs, inTime |-> today < ingest[i].until]
          /\ IngestGoes(i, "intended")
       \/ /\ pending # NoIntent
          /\ IngestGoes(i, "release")                    \* publication_conflict
          /\ UNCHANGED pending
    /\ UNCHANGED <<captured, latestSeen, compared, leases, publishedAs, sweep, today>>

\* The publication is committed: its intent no longer is pending.
CommitIntent(i) ==
    /\ IngestAt(i, "intended")
    /\ \/ /\ pending.obs = ingest[i].obs
          /\ publishedAs' = pending
          /\ pending' = NoIntent
          /\ IngestGoes(i, "mark")
       \/ /\ pending.obs # ingest[i].obs
          /\ IngestGoes(i, "release")
          /\ UNCHANGED <<publishedAs, pending>>
    /\ UNCHANGED <<captured, latestSeen, compared, leases, sweep, today>>

\* markComparisonBaseline: a compare-and-set on the pointer.
MarkComparisonBaseline(i) ==
    /\ IngestAt(i, "mark")
    /\ \/ /\ ingest[i].obs \in Kept /\ compared = ingest[i].expected
          /\ compared' = ingest[i].obs
       \/ /\ ingest[i].obs \notin Kept \/ compared # ingest[i].expected
          /\ UNCHANGED compared
    /\ IngestGoes(i, "release")
    /\ UNCHANGED <<captured, latestSeen, leases, pending, publishedAs, sweep, today>>

\* releaseRetentionLease, in the finally block of publish(); its failure is
\* swallowed and leaves the lease to its expiry.
ReleaseRetentionLease(i) ==
    /\ IngestAt(i, "release")
    /\ leases' \in {leases, {l \in leases : l.of # i \/ l.obs # ingest[i].obs}}
    /\ ingest' = [ingest EXCEPT ![i] = IdleIngest]
    /\ UNCHANGED <<captured, latestSeen, compared, pending, publishedAs, sweep, today>>

\* An error before the publication sends the run to its finally block, the
\* end of the process nowhere.
IngestFails(i) ==
    /\ ~IngestAt(i, "idle")
    /\ \/ ~IngestAt(i, "release") /\ IngestGoes(i, "release")
       \/ ingest' = [ingest EXCEPT ![i] = IdleIngest]
    /\ UNCHANGED <<captured, latestSeen, compared, leases, pending, publishedAs,
                   sweep, today>>

\* #resumeStoredObservation: a pending intent, or a publication the baseline
\* does not know of, is taken up from the stored observation; no lease is
\* taken.  Without the row every run ends with observation_baseline_corrupt.
ResumeObservation(i) ==
    /\ IngestAt(i, "idle")
    /\ \E r \in {[obs |-> pending.obs, to |-> "intended"],
                 [obs |-> publishedAs.obs, to |-> "mark"]} :
         /\ IF pending # NoIntent THEN r.to = "intended"
            ELSE r.to = "mark" /\ publishedAs.obs # compared
         /\ r.obs \in Kept
         /\ ingest' = [ingest EXCEPT ![i] = [pc |-> r.to, obs |-> r.obs,
                                             until |-> 0, expected |-> compared]]
    /\ UNCHANGED <<captured, latestSeen, compared, leases, pending, publishedAs,
                   sweep, today>>

-----------------------------------------------------------------------------
(* Retention                                                               *)

\* The references findRetentionCandidates and deleteIfUnprotected look for.
Protected(draft) ==
    \/ draft \in {latestSeen, compared, pending.obs, publishedAs.obs}
    \/ \E l \in leases : l.obs = draft /\ l.until > today

\* ROW_NUMBER() OVER (ORDER BY captured_at DESC, observation_id DESC): rows
\* captured at the same time rank in any order.
Recent == {r \in SUBSET Kept :
             /\ Cardinality(r) = IF Cardinality(Kept) < MinimumSnapshots
                                 THEN Cardinality(Kept) ELSE MinimumSnapshots
             /\ \A d \in r, e \in Kept \ r : captured[d] >= captured[e]}

\* findRetentionCandidates, as of startedAt: the oldest rows, at most a batch.
FindRetentionCandidates ==
    /\ sweep = NoSweep
    /\ \E recent \in Recent :
         LET old == {d \in Kept \ recent :
                       captured[d] <= today - RetentionPeriod /\ ~Protected(d)}
         IN  \E batch \in SUBSET old :
               /\ batch # {}
               /\ Cardinality(batch) = Min({Cardinality(old), RetentionBatch})
               /\ \A d \in batch, e \in old \ batch : captured[d] <= captured[e]
               /\ sweep' = [status |-> "deleting", left |-> batch]
    /\ UNCHANGED <<captured, latestSeen, compared, leases, pending, publishedAs,
                   ingest, today>>

\* Mutation of DeleteIfUnprotected: the candidate is deleted as it was
\* selected; the foreign keys of the two pointers are all that is left.
DeleteCandidate(draft) ==
    /\ draft \in sweep.left
    /\ captured' = [d \in Kept \ (IF draft \in {latestSeen, compared} THEN {} ELSE {draft})
                      |-> captured[d]]
    /\ leases' = {l \in leases : l.obs \in DOMAIN captured'}
    /\ sweep' = IF sweep.left = {draft} THEN NoSweep
                ELSE [sweep EXCEPT !.left = @ \ {draft}]
    /\ UNCHANGED <<latestSeen, compared, pending, publishedAs, ingest, today>>

\* deleteIfUnprotected: the references are looked for again, with the time of
\* this deletion, in the transaction that deletes the row and its expired
\* leases.
DeleteIfUnprotected(draft) ==
    /\ draft \in sweep.left
    /\ \/ /\ Protected(draft)
          /\ UNCHANGED <<captured, leases>>
       \/ /\ ~Protected(draft)
          /\ captured' = [d \in Kept \ {draft} |-> captured[d]]
          /\ leases' = {l \in leases : l.obs # draft}
    /\ sweep' = IF sweep.left = {draft} THEN NoSweep
                ELSE [sweep EXCEPT !.left = @ \ {draft}]
    /\ UNCHANGED <<latestSeen, compared, pending, publishedAs, ingest, today>>

\* The process that runs retention ends, or a deletion throws.
SweepStops ==
    /\ sweep # NoSweep
    /\ sweep' = NoSweep
    /\ UNCHANGED <<captured, latestSeen, compared, leases, pending, publishedAs,
                   ingest, today>>

\* A lease that has run out protects nothing and is forgotten here.
DayPasses ==
    /\ today < MaxTime
    /\ today' = today + 1
    /\ leases' = {l \in leases : l.until > today'}
    /\ UNCHANGED <<captured, latestSeen, compared, pending, publishedAs, ingest, sweep>>

RetentionNext ==
    \/ \E i \in Ingesters :
         \/ \E draft \in Drafts : CommitObservation(i, draft)
         \/ PrepareIntent(i) \/ CommitIntent(i) \/ MarkComparisonBaseline(i)
         \/ ReleaseRetentionLease(i) \/ IngestFails(i) \/ ResumeObservation(i)
    \/ FindRetentionCandidates \/ SweepStops \/ DayPasses
    \/ \E draft \in sweep.left : DeleteIfUnprotected(draft)

RetentionSpec == RetentionInit /\ [][RetentionNext]_retentionVars

-----------------------------------------------------------------------------

\* Retention never deletes what somebody still has to read: an observation
\* of a run whose lease has not run out, of the pending intent such a run
\* recorded, of the latest publication it became, and of the baseline; the
\* references change hands while candidates that were selected before are
\* still being deleted, and a content that comes back keeps its old age.
RetainedWhileUsed ==
    /\ {latestSeen, compared} \subseteq Kept \union {NoDraft}
    /\ \A i \in Ingesters :
         IngestAt(i, "holding") /\ today < ingest[i].until => ingest[i].obs \in Kept
    /\ \A intent \in {pending, publishedAs} \ {NoIntent} :
         intent.inTime => intent.obs \in Kept
=============================================================================
