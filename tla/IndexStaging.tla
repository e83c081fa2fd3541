---------------------------- MODULE IndexStaging ----------------------------
(***************************************************************************)
(* Publishing an index version and collecting the remains of failed        *)
(* publications, concurrently, over three stores that share no             *)
(* transaction: the staging attempts and the catalog (SQLite) and the      *)
(* vector index (Qdrant).                                                  *)
(*                                                                         *)
(*   - a publisher is one execution of DocumentIndexPublisher.publish      *)
(*     (application/publish-document-index.ts); its lease id, a random     *)
(*     UUID in the code, is its own name;                                  *)
(*   - a sweeper repeats FailedIndexStagingCleanup.execute                 *)
(*     (application/cleanup-failed-index-staging.ts); its lease id is its  *)
(*     own name, which is as good as a fresh one because an execution only *)
(*     touches rows it has claimed itself.                                 *)
(*                                                                         *)
(* A step ends where the code awaits a store.  Any request may fail, any   *)
(* process may stop for good between two steps, and all of them may run in *)
(* different operating system processes, so the adapter's in-process       *)
(* per-version queue (#serializeVersion) orders nothing here.              *)
(*                                                                         *)
(* Time is a shared non-decreasing clock.  A process may stall, but not    *)
(* for ever between reading the clock for a lease and the request the      *)
(* lease protects: PublishStall and SweepStall bound that time.  The       *)
(* adapter's 3 attempts of 30 s each keep both bounds far from the grace   *)
(* period (24 h) and the cleanup lease (5 min).  The same bound is put on   *)
(* an upsert nobody waits for any more; a late delete has no bound at all. *)
(***************************************************************************)
EXTENDS Integers, FiniteSets

CONSTANTS Versions, Chunks, ScopeShapes, NoVersion, NoOwner,
          Publishers,     \* publish executions, one shot each
          Sweepers,       \* cleanup workers
          BatchSize,      \* records per upsert request
          SweepBatch,     \* rows claimed per cleanup execution
          PublishLease,   \* DEFAULT_INDEX_STAGING_PUBLICATION_LEASE_MS
          CleanupLease,   \* policy.cleanupLeaseMs
          Grace,          \* policy.gracePeriodMs
          PublishStall,   \* longest stall of a publisher under a fresh lease
          SweepStall,     \* longest stall of a sweeper under a fresh lease
          FrozenStamps,   \* publishedAt values a resumed publication repeats
          MaxLate,        \* bound on late requests, for model checking
          MaxClock        \* bound on time, for model checking

ASSUME ConstantsAssumption ==
    /\ NoVersion \notin Versions
    /\ NoOwner \notin Publishers \cup Sweepers
    /\ Publishers \cap Sweepers = {}
    /\ BatchSize \in Nat \ {0} /\ SweepBatch \in Nat \ {0}
    /\ PublishLease \in Nat /\ CleanupLease \in Nat /\ Grace \in Nat
    /\ PublishStall \in Nat /\ SweepStall \in Nat /\ MaxClock \in Nat
    /\ FrozenStamps \subseteq Nat /\ MaxLate \in Nat

\* Leases outlive the stalls they have to cover.
ASSUME StallAssumption == PublishStall < Grace /\ SweepStall < CleanupLease

VARIABLES attempts, stored, retained, late, struck, catalog, current,
          now,    \* the clock
          pub,    \* publisher -> local state of publish()
          sweep   \* sweeper -> local state of execute() and #cleanupOne()

INSTANCE StagingAttemptStore WITH Owners <- Publishers \cup Sweepers
INSTANCE VectorIndex WITH Leases <- Publishers
INSTANCE IndexCatalog

vectorVars == <<stored, retained, late, struck>>
catalogVars == <<catalog, current>>
storeVars == <<attempts, stored, retained, late, struck, catalog, current>>
vars == <<attempts, stored, retained, late, struck, catalog, current, now, pub, sweep>>

PublisherSteps == {"find", "acquire", "retain", "list", "renew", "reretain",
                   "upsert", "verify", "commit", "forget", "abandon",
                   "release", "forgetExisting", "done"}

\* Steps inside the try block of publish(): a failure there goes to abandon.
TrySteps == {"retain", "list", "renew", "reretain", "upsert", "verify", "commit"}

\* Steps that act on the strength of the last renewal.
LeasedPublish == {"reretain", "upsert", "commit"}

SweeperSteps == {"idle", "renew", "check", "count", "delete", "complete", "release"}

LeasedSweep == {"check", "count", "delete"}

\* version and scopes are inputs of the call; publishedAt and missing are
\* locals; readAt is the last clock reading a lease was taken or renewed with.
Publisher == [pc : PublisherSteps, version : Versions, scopes : ScopeShapes,
              publishedAt : Nat, missing : SUBSET Chunks, readAt : Nat]

Sweeper == [pc : SweeperSteps, version : Versions, queue : SUBSET Versions,
            readAt : Nat]

Init ==
    /\ AttemptsInit /\ VectorInit /\ CatalogInit
    /\ now = 0
    /\ pub \in [Publishers ->
                  {[pc |-> "find", version |-> v, scopes |-> s, publishedAt |-> 0,
                    missing |-> {}, readAt |-> 0] : v \in Versions, s \in ScopeShapes}]
    /\ \E v \in Versions :
         sweep = [c \in Sweepers |->
                    [pc |-> "idle", version |-> v, queue |-> {}, readAt |-> 0]]

-----------------------------------------------------------------------------
(* DocumentIndexPublisher.publish                                          *)

\* A part of `all` of the given size, or all of it when it is smaller.
FillsLimit(part, all, limit) ==
    \/ Cardinality(part) = limit
    \/ part = all /\ Cardinality(all) < limit

At(p, step) == pub[p].pc = step

Goto(p, step) == pub' = [pub EXCEPT ![p].pc = step]

\* publish() returns or throws: its locals are gone.
Leave(p) ==
    pub' = [pub EXCEPT ![p] = [@ EXCEPT !.pc = "done", !.publishedAt = 0,
                                        !.missing = {}, !.readAt = 0]]

\* findVersion.  An already catalogued version is returned as it is when it
\* matches the request, without beforeCatalogCommit and without a new current.
PublishFind(p) ==
    /\ At(p, "find")
    /\ \/ /\ ~Catalogued(pub[p].version)
          /\ Goto(p, "acquire")
       \/ /\ Catalogued(pub[p].version)
          /\ IF MatchesRequested(pub[p].version, pub[p].scopes)
             THEN Goto(p, "forgetExisting")
             ELSE Leave(p)
    /\ UNCHANGED <<storeVars, now, sweep>>

\* prepare() has answered; the two clock readings and acquirePublication
\* follow each other without an await.
PublishAcquire(p) ==
    /\ At(p, "acquire")
    /\ LET v == pub[p].version
       IN  \/ /\ Busy(v, p, now)
              /\ Leave(p)
              /\ UNCHANGED attempts
           \/ \E stamp \in {now} \cup FrozenStamps :
                /\ AcquirePublication(v, p, now, now + PublishLease)
                /\ pub' = [pub EXCEPT ![p] = [@ EXCEPT !.pc = "retain",
                                                       !.publishedAt = stamp,
                                                       !.readAt = now]]
    /\ UNCHANGED <<vectorVars, catalogVars, now, sweep>>

\* retainVersion right after the acquisition, and after every renewal.
RetainFor(p) == [write |-> "retain", version |-> pub[p].version, lease |-> p,
                 until |-> pub[p].readAt + PublishLease]

PublishRetain(p) ==
    /\ At(p, "retain")
    /\ Answered(RetainFor(p))
    /\ Goto(p, "list")
    /\ UNCHANGED <<attempts, catalogVars, now, sweep>>

\* stagedBefore and assertCompatibleStaging: what a resumed publication
\* still has to write.  Records of a version are determined by its digest,
\* so a stored one is never incompatible.
PublishList(p) ==
    /\ At(p, "list")
    /\ LET missing == Chunks \ ListVersionRecords(pub[p].version)
       IN  pub' = [pub EXCEPT ![p] =
                     [@ EXCEPT !.missing = missing,
                               !.pc = IF missing = {} THEN "verify" ELSE "renew"]]
    /\ UNCHANGED <<storeVars, now, sweep>>

\* #renewRetention, first half: staging_version_busy unless still the owner.
PublishRenew(p) ==
    /\ At(p, "renew")
    /\ LET v == pub[p].version
       IN  \/ /\ RenewPublication(v, p, now, now + PublishLease)
              /\ pub' = [pub EXCEPT ![p] = [@ EXCEPT !.pc = "reretain", !.readAt = now]]
           \/ /\ ~OwnedBy(v, "publishing", p)
              /\ Goto(p, "abandon")
              /\ UNCHANGED attempts
    /\ UNCHANGED <<vectorVars, catalogVars, now, sweep>>

\* #renewRetention, second half.  Nothing left to write: the renewal was the
\* one that precedes the catalog commit.
PublishReretain(p) ==
    /\ At(p, "reretain")
    /\ Answered(RetainFor(p))
    /\ Goto(p, IF pub[p].missing = {} THEN "commit" ELSE "upsert")
    /\ UNCHANGED <<attempts, catalogVars, now, sweep>>

\* One slice of the missing records.
Batches(p) == {b \in SUBSET pub[p].missing :
                 b # {} /\ FillsLimit(b, pub[p].missing, BatchSize)}

UpsertFor(p, batch) == [write |-> "upsert", version |-> pub[p].version,
                        records |-> batch, at |-> pub[p].readAt]

PublishUpsert(p) ==
    /\ At(p, "upsert")
    /\ \E b \in Batches(p) :
         /\ Answered(UpsertFor(p, b))
         /\ pub' = [pub EXCEPT ![p] =
                      [@ EXCEPT !.missing = pub[p].missing \ b,
                                !.pc = IF pub[p].missing = b THEN "verify" ELSE "renew"]]
    /\ UNCHANGED <<attempts, catalogVars, now, sweep>>

\* stagedAfter and assertCompleteStaging.
PublishVerify(p) ==
    /\ At(p, "verify")
    /\ IF ListVersionRecords(pub[p].version) = Chunks
       THEN Verified(pub[p].version) /\ Goto(p, "renew")
       ELSE UNCHANGED vectorVars /\ Goto(p, "abandon")
    /\ UNCHANGED <<attempts, catalogVars, now, sweep>>

\* beforeCatalogCommit and commitCurrent.  The staging lease is not checked
\* again.
PublishCommit(p) ==
    /\ At(p, "commit")
    /\ LET row == Publication(pub[p].version, pub[p].publishedAt, pub[p].scopes)
       IN  \/ /\ CommitCurrent(row)
              /\ Goto(p, "forget")
           \/ /\ CommitConflicts(row)
              /\ Goto(p, "abandon")
              /\ UNCHANGED catalogVars
    /\ UNCHANGED <<attempts, vectorVars, now, sweep>>

\* An error or an aborted signal inside the try block.  A write whose answer
\* is lost may have been applied, or will be.
PublishFail(p) ==
    /\ pub[p].pc \in TrySteps
    /\ Goto(p, "abandon")
    /\ CASE At(p, "retain") \/ At(p, "reretain") -> Unconfirmed(RetainFor(p))
         [] At(p, "upsert") -> \E b \in Batches(p) : Unconfirmed(UpsertFor(p, b))
         [] OTHER -> UNCHANGED vectorVars
    /\ UNCHANGED <<attempts, catalogVars, now, sweep>>

\* #forgetReferenced swallows its errors.
PublishForget(p) ==
    /\ At(p, "forget") \/ At(p, "forgetExisting")
    /\ ForgetReferenced(pub[p].version) \/ UNCHANGED attempts
    /\ IF At(p, "forget") THEN Goto(p, "release") ELSE Leave(p)
    /\ UNCHANGED <<vectorVars, catalogVars, now, sweep>>

\* #abandonPublication swallows its errors.
PublishAbandon(p) ==
    /\ At(p, "abandon")
    /\ AbandonPublication(pub[p].version, p) \/ UNCHANGED attempts
    /\ Goto(p, "release")
    /\ UNCHANGED <<vectorVars, catalogVars, now, sweep>>

\* The finally block, errors swallowed.
ReleaseFor(p) == [write |-> "release", version |-> pub[p].version, lease |-> p]

PublishRelease(p) ==
    /\ At(p, "release")
    /\ Unconfirmed(ReleaseFor(p))
    /\ Leave(p)
    /\ UNCHANGED <<attempts, catalogVars, now, sweep>>

\* The write requests of the publisher's step.
PublishRequests(p) ==
    CASE At(p, "retain") \/ At(p, "reretain") -> {RetainFor(p)}
      [] At(p, "upsert") -> {UpsertFor(p, b) : b \in Batches(p)}
      [] At(p, "release") -> {ReleaseFor(p)}
      [] OTHER -> {}

\* The process ends: nothing of the call survives but its effects, and a
\* request it may have sent.
PublishCrash(p) ==
    /\ pub[p].pc \notin {"find", "done"}
    /\ Leave(p)
    /\ SenderGone(PublishRequests(p))
    /\ UNCHANGED <<attempts, catalogVars, now, sweep>>

PublisherStep(p) ==
    \/ PublishFind(p) \/ PublishAcquire(p) \/ PublishRetain(p)
    \/ PublishList(p) \/ PublishRenew(p) \/ PublishReretain(p)
    \/ PublishUpsert(p) \/ PublishVerify(p) \/ PublishCommit(p)
    \/ PublishFail(p) \/ PublishForget(p) \/ PublishAbandon(p)
    \/ PublishRelease(p)

-----------------------------------------------------------------------------
(* FailedIndexStagingCleanup.execute and #cleanupOne                       *)

\* The rows claimCleanup returns: the oldest eligible ones, up to the limit.
Claims(batch) ==
    LET eligible == {v \in Versions : Eligible(v, now, Grace)}
    IN  /\ batch \subseteq eligible
        /\ FillsLimit(batch, eligible, SweepBatch)
        /\ \A v \in batch, w \in eligible \ batch : attempts[v].last <= attempts[w].last

SweepClaim(c) ==
    /\ sweep[c].pc = "idle"
    /\ \E batch \in (SUBSET Versions) \ {{}} :
         /\ Claims(batch)
         /\ ClaimCleanup(batch, c, now + CleanupLease)
         /\ sweep' = [sweep EXCEPT ![c] = [@ EXCEPT !.pc = "renew", !.queue = batch]]
    /\ UNCHANGED <<vectorVars, catalogVars, now, pub>>

\* The end of #cleanupOne: the next claimed row, or the end of execute().
NextItem(c) ==
    sweep' = [sweep EXCEPT ![c] =
                [@ EXCEPT !.pc = IF sweep[c].queue = {} THEN "idle" ELSE "renew",
                          !.readAt = 0]]

\* The start of #cleanupOne for the next row: the clock and renewCleanup.
\* `now` stays the clock reading of this step until the row is done.
SweepRenew(c) ==
    /\ sweep[c].pc = "renew"
    /\ \E v \in sweep[c].queue :
         \/ /\ RenewCleanup(v, c, now + CleanupLease)
            /\ sweep' = [sweep EXCEPT ![c] = [pc |-> "check", version |-> v,
                                              queue |-> sweep[c].queue \ {v},
                                              readAt |-> now]]
         \/ /\ ~OwnedBy(v, "cleaning", c)         \* cleanup_lease_lost
            /\ sweep' = [sweep EXCEPT ![c] =
                           [@ EXCEPT !.queue = sweep[c].queue \ {v},
                                     !.pc = IF sweep[c].queue = {v}
                                            THEN "idle" ELSE "renew"]]
            /\ UNCHANGED attempts
    /\ UNCHANGED <<vectorVars, catalogVars, now, pub>>

\* findVersion: a catalogued version is only forgotten, never deleted.
SweepCheck(c) ==
    /\ sweep[c].pc = "check"
    /\ IF Catalogued(sweep[c].version)
       THEN ForgetReferenced(sweep[c].version) /\ NextItem(c)
       ELSE UNCHANGED attempts /\ sweep' = [sweep EXCEPT ![c].pc = "count"]
    /\ UNCHANGED <<vectorVars, catalogVars, now, pub>>

\* First request of deleteVersion: index_version_retained or go on.
SweepCount(c) ==
    /\ sweep[c].pc = "count"
    /\ sweep' = [sweep EXCEPT ![c].pc =
                   IF RetainedAt(sweep[c].version, sweep[c].readAt)
                   THEN "release" ELSE "delete"]
    /\ UNCHANGED <<storeVars, now, pub>>

\* Second request of deleteVersion.
DeleteFor(c) == [write |-> "delete", version |-> sweep[c].version]

SweepDelete(c) ==
    /\ sweep[c].pc = "delete"
    /\ Answered(DeleteFor(c))
    /\ sweep' = [sweep EXCEPT ![c].pc = "complete"]
    /\ UNCHANGED <<attempts, catalogVars, now, pub>>

\* publication_check_failed, connector_unavailable, staging_delete_failed.
SweepFail(c) ==
    /\ sweep[c].pc \in LeasedSweep
    /\ sweep' = [sweep EXCEPT ![c].pc = "release"]
    /\ IF sweep[c].pc = "delete"
       THEN Unconfirmed(DeleteFor(c))
       ELSE UNCHANGED vectorVars
    /\ UNCHANGED <<attempts, catalogVars, now, pub>>

SweepComplete(c) ==
    /\ sweep[c].pc = "complete"
    /\ CompleteCleanup(sweep[c].version, c)
    /\ NextItem(c)
    /\ UNCHANGED <<vectorVars, catalogVars, now, pub>>

\* #release swallows its errors.
SweepRelease(c) ==
    /\ sweep[c].pc = "release"
    /\ ReleaseCleanup(sweep[c].version, c) \/ UNCHANGED attempts
    /\ NextItem(c)
    /\ UNCHANGED <<vectorVars, catalogVars, now, pub>>

\* The process ends, the signal is aborted between two rows, or renewCleanup
\* or completeCleanup throws: execute() is left, the rows stay claimed.
SweepCrash(c) ==
    /\ sweep[c].pc # "idle"
    /\ sweep' = [sweep EXCEPT ![c] = [@ EXCEPT !.pc = "idle", !.queue = {}, !.readAt = 0]]
    /\ SenderGone(IF sweep[c].pc = "delete" THEN {DeleteFor(c)} ELSE {})
    /\ UNCHANGED <<attempts, catalogVars, now, pub>>

SweeperStep(c) ==
    \/ SweepClaim(c) \/ SweepRenew(c) \/ SweepCheck(c) \/ SweepCount(c)
    \/ SweepDelete(c) \/ SweepFail(c) \/ SweepComplete(c) \/ SweepRelease(c)

-----------------------------------------------------------------------------

\* The server and the requests nobody waits for.
Server(r) ==
    /\ LateWrite(r) \/ LateEnd(r)
    /\ UNCHANGED <<attempts, catalogVars, now, pub, sweep>>

Tick ==
    /\ now < MaxClock
    /\ \A p \in Publishers : pub[p].pc \in LeasedPublish
                                => now < pub[p].readAt + PublishStall
    /\ \A c \in Sweepers : sweep[c].pc \in LeasedSweep
                                => now < sweep[c].readAt + SweepStall
    /\ \A r \in late : r.write = "upsert" => now < r.at + PublishStall
    /\ now' = now + 1
    /\ UNCHANGED <<storeVars, pub, sweep>>

Next ==
    \/ \E p \in Publishers : PublisherStep(p) \/ PublishCrash(p)
    \/ \E c \in Sweepers : SweeperStep(c) \/ SweepCrash(c)
    \/ \E r \in late : Server(r)
    \/ Tick

Spec == Init /\ [][Next]_vars

-----------------------------------------------------------------------------
(* Properties                                                              *)

\* Every variable keeps its shape; in particular a row without an owner is
\* absent or pending, and an owned row has an owner.
TypeOK ==
    /\ attempts \in [Versions -> Row]
    /\ stored \in [Versions -> SUBSET Chunks]
    /\ retained \in [Versions -> [Publishers -> Nat]]
    /\ late \subseteq WriteRequests /\ struck \subseteq Versions
    /\ catalog \subseteq [version : Versions, publishedAt : Nat, scopes : ScopeShapes]
    /\ current \in Versions \cup {NoVersion}
    /\ now \in Nat
    /\ pub \in [Publishers -> Publisher]
    /\ sweep \in [Sweepers -> Sweeper]

\* A version in the catalog can be searched in full: no interleaving of
\* publishers, failed requests, crashes and sweepers commits a version with
\* records missing, or deletes records of a committed one.  The exemption is
\* a delete its sweeper no longer waits for that the server carries out after
\* the last verification; PublishedWhole is the claim without it.
PublishedComplete == \A v \in Versions : Catalogued(v) => Intact(v)

\* The claim without the exemption: failed staging cleanup is a "maintenance
\* operation for vector-only versions never published"
\* (cleanup-failed-index-staging.ts), so a version in the catalog has all its
\* records.  It fails: after releaseCleanup or completeCleanup a publisher may
\* take the row, stage, verify and commit, and then the late delete is
\* carried out.
PublishedWhole == \A v \in Versions : Catalogued(v) => stored[v] = Chunks

\* Records of a version that was never published are always covered by a
\* row of the staging attempts, whatever failed or crashed: cleanup can find
\* them.  A sweeper must not drop the row before the records, nor a late
\* writer add records to a version whose row is gone.
OrphansTracked ==
    \A v \in Versions : stored[v] # {} /\ ~Catalogued(v) => Tracked(v)

\* Cleanup and publication exclude each other although they only ever look
\* at each other's leases: while a sweeper is about to delete a version no
\* publisher is about to write or commit it, no upsert of it is late, and the
\* version is not published.
CleanupExcludesWriters ==
    \A c \in Sweepers :
      sweep[c].pc \in {"count", "delete"} =>
        /\ ~Catalogued(sweep[c].version)
        /\ \A p \in Publishers : pub[p].version = sweep[c].version
                                   => pub[p].pc \notin LeasedPublish
        /\ \A r \in late : r.version = sweep[c].version => r.write # "upsert"

\* A publication that is reported as published, by a commit or because the
\* version was already there, is in the catalog the way it was requested;
\* one that committed is there with the publishedAt it carries.
AcknowledgedAsRequested ==
    \A p \in Publishers :
      /\ pub[p].pc \in {"forget", "forgetExisting"} =>
           \E row \in FindVersion(pub[p].version) : row.scopes = pub[p].scopes
      /\ At(p, "forget") =>
           FindVersion(pub[p].version)
             = {Publication(pub[p].version, pub[p].publishedAt, pub[p].scopes)}

\* The staged publication protocol implements the promise of PublishedIndex:
\* a version becomes searchable and head in the one step that commits it to
\* the catalog, and only a late delete (PublishedWhole) takes that back.
Promise == INSTANCE PublishedIndex
             WITH searchable <- {v \in Versions : Catalogued(v) /\ Intact(v)},
                  head <- current

PublishesWhole == Promise!Spec

-----------------------------------------------------------------------------
(* The inductive invariant behind these properties                         *)

\* A sweeper that has renewed its claim still holds the row, with an expiry
\* that is ahead of the clock, unless the version turned out to be published.
SweepHoldsRow ==
    \A c \in Sweepers : sweep[c].pc \in LeasedSweep =>
      /\ sweep[c].readAt <= now /\ now <= sweep[c].readAt + SweepStall
      /\ \/ sweep[c].pc = "check" /\ Catalogued(sweep[c].version)
         \/ /\ OwnedBy(sweep[c].version, "cleaning", c)
            /\ attempts[sweep[c].version].expires = sweep[c].readAt + CleanupLease

\* A sweeper past its catalog check works on an unpublished version.
SweepsUnpublished ==
    \A c \in Sweepers : sweep[c].pc \in {"count", "delete"}
                          => ~Catalogued(sweep[c].version)

\* The version of a write sent under a clock reading has no row that cleanup
\* owns or could claim, unless it has been published.
Covered(v, at) ==
    /\ at <= now /\ now <= at + PublishStall
    /\ \/ Catalogued(v)
       \/ /\ attempts[v].state \in {"pending", "publishing"}
          /\ attempts[v].last >= at

\* A publisher that acts on a renewal may have lost the row to another
\* publisher, but not to a sweeper.
PublishKeepsRow ==
    \A p \in Publishers : pub[p].pc \in LeasedPublish
                             => Covered(pub[p].version, pub[p].readAt)

\* The same for the upserts nobody waits for.
LateUpsertsCovered == \A r \in late : r.write = "upsert" => Covered(r.version, r.at)

\* What the final verification saw is still there when the commit happens;
\* before the final renewal it may only be gone together with the row.
VerifiedStaysStaged ==
    \A p \in Publishers :
      /\ At(p, "commit") => pub[p].missing = {}
      /\ (pub[p].missing = {} /\ pub[p].pc \in {"reretain", "commit"})
            => Intact(pub[p].version)
      /\ (pub[p].missing = {} /\ At(p, "renew")
            /\ OwnedBy(pub[p].version, "publishing", p))
            => Intact(pub[p].version)

\* A sweeper that still owns a row it has cleaned leaves no record behind.
CleanedBeforeComplete ==
    \A c \in Sweepers :
      (sweep[c].pc = "complete" /\ OwnedBy(sweep[c].version, "cleaning", c))
        => stored[sweep[c].version] = {} /\ ~Catalogued(sweep[c].version)

\* Rows are forgotten by publishers only for published versions.
ForgetsPublished ==
    \A p \in Publishers : pub[p].pc \in {"forget", "forgetExisting"}
                            => Catalogued(pub[p].version)

StagingInv ==
    /\ TypeOK /\ PublishedComplete /\ OrphansTracked
    /\ SweepHoldsRow /\ SweepsUnpublished /\ PublishKeepsRow /\ LateUpsertsCovered
    /\ VerifiedStaysStaged /\ CleanedBeforeComplete /\ ForgetsPublished
=============================================================================
