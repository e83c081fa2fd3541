------------------------- MODULE IndexStagingProofs -------------------------
(* Machine-checked proofs about IndexStaging, for any number of versions,   *)
(* chunks, publishers and sweepers and any lease lengths that satisfy the   *)
(* two assumptions of that module.                                          *)
EXTENDS IndexStaging, TLAPS

\* A row that is given back is a row.
LEMMA ReleasedRows ==
    ASSUME attempts \in [Versions -> Row], NEW v \in Versions, NEW lease, NEW state,
           Release(v, lease, state)
    PROVE  attempts' \in [Versions -> Row]
<1> DEFINE row == [attempts[v] EXCEPT !.state = "pending", !.owner = NoOwner, !.expires = 0]
<1>1. row \in Row
  <2>1. attempts[v] \in Row
    OBVIOUS
  <2>2. QED
    BY <2>1 DEF Row, RowStates
<1>2. attempts' = attempts \/ attempts' = [attempts EXCEPT ![v] = row]
  BY DEF Release
<1> HIDE DEF row
<1>3. QED
  BY <1>1, <1>2

\* A request that may or may not be carried out keeps the types, and touches
\* the version it names.
LEMMA RequestEffect ==
    ASSUME TypeOK, NEW r \in WriteRequests, CarriedOut(r)
    PROVE  /\ stored' \in [Versions -> SUBSET Chunks]
           /\ retained' \in [Versions -> [Publishers -> Nat]]
           /\ \A w \in Versions :
                \/ stored'[w] = stored[w]
                \/ w = r.version /\ r.write = "upsert" /\ stored[w] \subseteq stored'[w]
                \/ w = r.version /\ r.write = "delete" /\ stored'[w] = {}
<1>0. stored \in [Versions -> SUBSET Chunks] /\ retained \in [Versions -> [Publishers -> Nat]]
  BY DEF TypeOK
<1>1. r.version \in Versions
  BY DEF WriteRequests, UpsertRequests, RetainRequests, ReleaseRequests, DeleteRequests
<1>2. CASE r.write = "upsert" /\ UpsertRecords(r.version, r.records)
  <2>1. r.records \subseteq Chunks
    BY <1>2 DEF WriteRequests, UpsertRequests, RetainRequests, ReleaseRequests, DeleteRequests
  <2>2. stored' = [stored EXCEPT ![r.version] = stored[r.version] \cup r.records] /\ retained' = retained
    BY <1>2 DEF UpsertRecords
  <2>3. QED
    BY <1>0, <1>1, <1>2, <2>1, <2>2
<1>3. CASE r.write = "retain" /\ RetainVersion(r.version, r.lease, r.until)
  <2>1. r.lease \in Publishers /\ r.until \in Nat
    BY <1>3 DEF WriteRequests, UpsertRequests, RetainRequests, ReleaseRequests, DeleteRequests
  <2>2. QED
    BY <1>0, <1>1, <1>3, <2>1 DEF RetainVersion
<1>4. CASE r.write = "release" /\ ReleaseRetentionLease(r.version, r.lease)
  BY <1>0, <1>1, <1>4 DEF ReleaseRetentionLease
<1>5. CASE r.write = "delete" /\ DeleteVersionPoints(r.version)
  BY <1>0, <1>1, <1>5 DEF DeleteVersionPoints
<1>6. QED
  BY <1>2, <1>3, <1>4, <1>5 DEF CarriedOut

\* What is left of it on the way is a request.
LEMMA UnconfirmedEffect ==
    ASSUME TypeOK, NEW r \in WriteRequests, Unconfirmed(r)
    PROVE  /\ stored' \in [Versions -> SUBSET Chunks]
           /\ retained' \in [Versions -> [Publishers -> Nat]]
           /\ late' \subseteq WriteRequests /\ late' \subseteq late \cup {r}
           /\ struck' = struck
           /\ \A w \in Versions :
                \/ stored'[w] = stored[w]
                \/ w = r.version /\ r.write = "upsert" /\ stored[w] \subseteq stored'[w]
                \/ w = r.version /\ r.write = "delete" /\ stored'[w] = {}
<1>1. late' \subseteq late \cup {r} /\ struck' = struck
  BY DEF Unconfirmed, MayLinger
<1>2. late \subseteq WriteRequests
  BY DEF TypeOK
<1>3. CASE CarriedOut(r)
  BY <1>1, <1>2, <1>3, RequestEffect
<1>4. CASE stored' = stored /\ retained' = retained
  BY <1>1, <1>2, <1>4 DEF TypeOK
<1>5. QED
  BY <1>3, <1>4 DEF Unconfirmed

\* A request of p's current step.
Sends(p, r) ==
    /\ r \in WriteRequests /\ r.version = pub[p].version /\ r.write # "delete"
    /\ r.write = "upsert" => At(p, "upsert") /\ r.at = pub[p].readAt

\* What a publisher step may do to the vector index: nothing, send one
\* request, or note that it has seen every record.
LEMMA PublisherVector ==
    ASSUME TypeOK, NEW p \in Publishers, PublisherStep(p) \/ PublishCrash(p)
    PROVE  \/ UNCHANGED vectorVars
           \/ \E r : Sends(p, r) /\ Unconfirmed(r)
           \/ stored[pub[p].version] = Chunks /\ Verified(pub[p].version)
<1>0. /\ pub[p].version \in Versions /\ pub[p].readAt \in Nat
      /\ pub[p].readAt + PublishLease \in Nat /\ pub[p].missing \subseteq Chunks
  BY ConstantsAssumption DEF TypeOK, Publisher
<1>1. Sends(p, RetainFor(p))
  BY <1>0 DEF Sends, RetainFor, WriteRequests, RetainRequests
<1>2. Sends(p, ReleaseFor(p))
  BY <1>0 DEF Sends, ReleaseFor, WriteRequests, ReleaseRequests
<1>3. ASSUME NEW b \in Batches(p), At(p, "upsert") PROVE Sends(p, UpsertFor(p, b))
  <2>1. b \subseteq Chunks
    BY <1>0 DEF Batches
  <2>2. UpsertFor(p, b) \in UpsertRequests
    BY <1>0, <2>1 DEF UpsertFor, UpsertRequests
  <2>3. QED
    BY <1>3, <2>2 DEF Sends, UpsertFor, WriteRequests
<1>4. \A r : Answered(r) => Unconfirmed(r)
  BY DEF Answered, Unconfirmed
<1>5. CASE PublishRetain(p) \/ PublishReretain(p)
  BY <1>1, <1>4, <1>5 DEF PublishRetain, PublishReretain
<1>6. CASE PublishUpsert(p)
  BY <1>3, <1>4, <1>6 DEF PublishUpsert
<1>7. CASE PublishVerify(p)
  BY <1>7 DEF PublishVerify, ListVersionRecords
<1>8. CASE PublishFail(p)
  <2>1. \/ Unconfirmed(RetainFor(p)) \/ UNCHANGED vectorVars
        \/ At(p, "upsert") /\ \E b \in Batches(p) : Unconfirmed(UpsertFor(p, b))
    BY <1>8 DEF PublishFail, At
  <2>2. QED
    BY <1>1, <1>3, <2>1
<1>9. CASE PublishRelease(p)
  BY <1>2, <1>9 DEF PublishRelease
<1>10. CASE PublishCrash(p)
  <2>1. ASSUME NEW r \in PublishRequests(p) PROVE Sends(p, r)
    BY <1>1, <1>2, <1>3, <2>1 DEF PublishRequests, At
  <2>2. UNCHANGED <<stored, retained, struck>> /\ (late' = late \/ \E r \in PublishRequests(p) : MayLinger(r))
    BY <1>10 DEF PublishCrash, SenderGone
  <2>3. QED
    BY <2>1, <2>2 DEF Unconfirmed, vectorVars
<1>11. CASE UNCHANGED vectorVars
  BY <1>11
<1>12. QED
  BY <1>5, <1>6, <1>7, <1>8, <1>9, <1>10, <1>11 DEF PublisherStep, PublishFind,
     PublishAcquire, PublishList, PublishRenew, PublishCommit, PublishForget,
     PublishAbandon, storeVars, vectorVars

\* A sweeper step changes the vector index by its delete at most.
LEMMA SweeperVector ==
    ASSUME TypeOK, NEW c \in Sweepers, SweeperStep(c) \/ SweepCrash(c)
    PROVE  /\ DeleteFor(c) \in WriteRequests
           /\ \/ UNCHANGED vectorVars
              \/ sweep[c].pc = "delete" /\ Unconfirmed(DeleteFor(c))
<1>1. DeleteFor(c) \in WriteRequests
  BY DEF TypeOK, Sweeper, DeleteFor, WriteRequests, DeleteRequests
<1>2. CASE SweepDelete(c)
  BY <1>1, <1>2 DEF SweepDelete, Answered, Unconfirmed
<1>3. CASE SweepFail(c)
  BY <1>1, <1>3 DEF SweepFail
<1>4. CASE SweepCrash(c)
  BY <1>1, <1>4 DEF SweepCrash, SenderGone, Unconfirmed, vectorVars
<1>5. CASE UNCHANGED vectorVars
  BY <1>1, <1>5
<1>6. QED
  BY <1>2, <1>3, <1>4, <1>5 DEF SweeperStep, SweepClaim, SweepRenew, SweepCheck, SweepCount,
     SweepComplete, SweepRelease, storeVars, vectorVars

\* The publisher's steps that leave the staging rows alone.
RowKept(p) == \/ PublishCrash(p) \/ PublishFind(p) \/ PublishRetain(p) \/ PublishList(p)
              \/ PublishReretain(p) \/ PublishUpsert(p) \/ PublishVerify(p)
              \/ PublishCommit(p) \/ PublishFail(p) \/ PublishRelease(p)

\* Type correctness of one publisher step.
LEMMA TypePublisher ==
    ASSUME TypeOK, NEW p \in Publishers, PublisherStep(p) \/ PublishCrash(p)
    PROVE  TypeOK'
<1> USE DEF vectorVars, catalogVars, storeVars
<1>0. /\ pub[p] \in Publisher /\ pub[p].version \in Versions
      /\ pub[p].missing \in SUBSET Chunks /\ pub[p].readAt \in Nat
  BY DEF TypeOK, Publisher
<1>1. now' = now /\ sweep' = sweep
  BY DEF PublisherStep, PublishCrash, PublishFind, PublishAcquire, PublishRetain,
     PublishList, PublishRenew, PublishReretain, PublishUpsert, PublishVerify,
     PublishCommit, PublishFail, PublishForget, PublishAbandon, PublishRelease
<1>2. attempts' \in [Versions -> Row]
  <2>1. CASE UNCHANGED attempts
    BY <2>1 DEF TypeOK
  <2>2. CASE AcquirePublication(pub[p].version, p, now, now + PublishLease)
    BY <1>0, <2>2, ConstantsAssumption DEF TypeOK, AcquirePublication, Row, RowStates
  <2>3. CASE RenewPublication(pub[p].version, p, now, now + PublishLease)
    <3> DEFINE row == [attempts[pub[p].version] EXCEPT !.expires = now + PublishLease,
                                                       !.last = now]
    <3>1. row \in Row
      <4>1. attempts[pub[p].version] \in Row
        BY <1>0 DEF TypeOK
      <4>2. now \in Nat /\ now + PublishLease \in Nat
        BY ConstantsAssumption DEF TypeOK
      <4>3. QED
        BY <4>1, <4>2 DEF Row
    <3>2. attempts' = [attempts EXCEPT ![pub[p].version] = row]
      BY <2>3 DEF RenewPublication
    <3>3. QED
      BY <1>0, <3>1, <3>2 DEF TypeOK
  <2>4. CASE ForgetReferenced(pub[p].version)
    BY <1>0, <2>4 DEF TypeOK, ForgetReferenced, NoRow, Row, RowStates
  <2>5. CASE AbandonPublication(pub[p].version, p)
    BY <1>0, <2>5, ReleasedRows DEF TypeOK, AbandonPublication
  <2>6. CASE PublishAcquire(p) \/ PublishRenew(p)
    <3>1. \/ UNCHANGED attempts \/ AcquirePublication(pub[p].version, p, now, now + PublishLease)
          \/ RenewPublication(pub[p].version, p, now, now + PublishLease)
      BY ONLY <2>6 DEF PublishAcquire, PublishRenew
    <3>2. QED
      BY ONLY <2>1, <2>2, <2>3, <3>1
  <2>7. CASE PublishForget(p) \/ PublishAbandon(p)
    BY <2>1, <2>4, <2>5, <2>7 DEF PublishForget, PublishAbandon
  <2>8. CASE RowKept(p)
    BY <2>1, <2>8 DEF RowKept, PublishCrash, PublishFind, PublishRetain, PublishList,
       PublishReretain, PublishUpsert, PublishVerify, PublishCommit, PublishFail, PublishRelease
  <2>9. QED
    BY <2>6, <2>7, <2>8 DEF RowKept, PublisherStep
<1>3. /\ stored' \in [Versions -> SUBSET Chunks] /\ retained' \in [Versions -> [Publishers -> Nat]]
      /\ late' \subseteq WriteRequests /\ struck' \subseteq Versions
  <2>1. CASE UNCHANGED vectorVars
    BY <2>1 DEF TypeOK
  <2>2. ASSUME NEW r, Sends(p, r), Unconfirmed(r)
        PROVE  /\ stored' \in [Versions -> SUBSET Chunks] /\ retained' \in [Versions -> [Publishers -> Nat]]
               /\ late' \subseteq WriteRequests /\ struck' \subseteq Versions
    BY <2>2, UnconfirmedEffect DEF Sends, TypeOK
  <2>3. CASE Verified(pub[p].version)
    BY <2>3 DEF Verified, TypeOK
  <2>4. QED
    BY <2>1, <2>2, <2>3, PublisherVector
<1>4. /\ catalog' \subseteq [version : Versions, publishedAt : Nat, scopes : ScopeShapes]
      /\ current' \in Versions \cup {NoVersion}
  <2>1. CASE UNCHANGED catalogVars
    BY <2>1 DEF TypeOK
  <2>2. CASE PublishCommit(p)
    BY <2>2 DEF TypeOK, Publisher, PublishCommit, CommitCurrent, Publication
  <2>3. QED
    BY <2>1, <2>2 DEF PublisherStep, PublishCrash, PublishFind, PublishAcquire,
       PublishRetain, PublishReretain, PublishUpsert, PublishList, PublishRenew,
       PublishVerify, PublishFail, PublishForget, PublishAbandon, PublishRelease
<1>5. pub' \in [Publishers -> Publisher]
  <2>1. CASE \E step \in PublisherSteps : Goto(p, step)
    BY <2>1, ZenonT(60) DEF TypeOK, Publisher, Goto
  <2>2. CASE Leave(p)
    BY <2>2, ZenonT(60) DEF TypeOK, Publisher, PublisherSteps, Leave
  <2>3. ASSUME NEW q \in Publisher, pub' = [pub EXCEPT ![p] = q]
        PROVE  pub' \in [Publishers -> Publisher]
    BY <2>3 DEF TypeOK
  <2>4. CASE PublishAcquire(p)
    <3>1. ASSUME NEW stamp \in {now} \cup FrozenStamps
          PROVE  [pub[p] EXCEPT !.pc = "retain", !.publishedAt = stamp, !.readAt = now]
                   \in Publisher
      BY ConstantsAssumption, ZenonT(60) DEF TypeOK, Publisher, PublisherSteps
    <3>2. QED
      BY <2>2, <2>3, <2>4, <3>1 DEF PublishAcquire
  <2>5. CASE PublishList(p)
    <3> DEFINE missing == Chunks \ ListVersionRecords(pub[p].version)
    <3>1. [pub[p] EXCEPT !.missing = missing,
                         !.pc = IF missing = {} THEN "verify" ELSE "renew"] \in Publisher
      BY <1>0 DEF Publisher, PublisherSteps
    <3>2. QED
      BY <2>3, <2>5, <3>1 DEF PublishList
  <2>6. CASE PublishRenew(p)
    <3>1. [pub[p] EXCEPT !.pc = "reretain", !.readAt = now] \in Publisher
      BY <1>0 DEF TypeOK, Publisher, PublisherSteps
    <3>2. QED
      BY <2>1, <2>3, <2>6, <3>1 DEF PublishRenew, PublisherSteps
  <2>7. CASE PublishUpsert(p)
    <3>1. PICK b \in Batches(p) :
            pub' = [pub EXCEPT ![p] =
                      [pub[p] EXCEPT !.missing = pub[p].missing \ b,
                                     !.pc = IF pub[p].missing = b THEN "verify" ELSE "renew"]]
      BY <2>7 DEF PublishUpsert
    <3>2. [pub[p] EXCEPT !.missing = pub[p].missing \ b,
                         !.pc = IF pub[p].missing = b THEN "verify" ELSE "renew"] \in Publisher
      BY <1>0 DEF Publisher, PublisherSteps
    <3>3. QED
      BY <2>3, <3>1, <3>2
  <2>8. QED
    BY <2>1, <2>2, <2>4, <2>5, <2>6, <2>7 DEF PublisherSteps, PublisherStep,
       PublishCrash, PublishFind, PublishRetain, PublishReretain, PublishVerify,
       PublishCommit, PublishFail, PublishForget, PublishAbandon, PublishRelease
<1>6. QED
  BY <1>1, <1>2, <1>3, <1>4, <1>5 DEF TypeOK

\* Type correctness of one sweeper step.
LEMMA TypeSweeper ==
    ASSUME TypeOK, NEW c \in Sweepers, SweeperStep(c) \/ SweepCrash(c)
    PROVE  TypeOK'
<1> USE DEF vectorVars, catalogVars, storeVars
<1>0. /\ sweep[c] \in Sweeper /\ sweep[c].version \in Versions
      /\ sweep[c].queue \in SUBSET Versions
      /\ now \in Nat /\ now + CleanupLease \in Nat
  BY ConstantsAssumption DEF TypeOK, Sweeper
<1>1. UNCHANGED <<catalog, current, now, pub>>
  BY DEF SweeperStep, SweepClaim, SweepRenew, SweepCheck, SweepCount, SweepDelete,
     SweepFail, SweepComplete, SweepRelease, SweepCrash
<1>2. attempts' \in [Versions -> Row]
  <2>1. CASE UNCHANGED attempts
    BY <2>1 DEF TypeOK
  <2>2. ASSUME NEW batch, ClaimCleanup(batch, c, now + CleanupLease)
        PROVE  attempts' \in [Versions -> Row]
    <3>1. ASSUME NEW v \in Versions
          PROVE  [attempts[v] EXCEPT !.state = "cleaning", !.owner = c,
                                     !.expires = now + CleanupLease] \in Row
      <4>1. attempts[v] \in Row /\ c # NoOwner
        BY ConstantsAssumption DEF TypeOK
      <4>2. QED
        BY <1>0, <4>1 DEF Row, RowStates
    <3>2. QED
      BY <2>2, <3>1 DEF TypeOK, ClaimCleanup
  <2>3. ASSUME NEW v \in Versions, RenewCleanup(v, c, now + CleanupLease)
        PROVE  attempts' \in [Versions -> Row]
    <3>1. attempts[v] \in Row
      BY DEF TypeOK
    <3>2. [attempts[v] EXCEPT !.expires = now + CleanupLease] \in Row
      BY <1>0, <3>1 DEF Row
    <3>3. QED
      BY <2>3, <3>2 DEF TypeOK, RenewCleanup
  <2>4. CASE ForgetReferenced(sweep[c].version)
    BY <1>0, <2>4 DEF TypeOK, ForgetReferenced, NoRow, Row, RowStates
  <2>5. CASE CompleteCleanup(sweep[c].version, c)
    BY <1>0, <2>5 DEF TypeOK, CompleteCleanup, NoRow, Row, RowStates
  <2>6. CASE ReleaseCleanup(sweep[c].version, c)
    BY <1>0, <2>6, ReleasedRows DEF TypeOK, ReleaseCleanup
  <2>7. CASE SweepClaim(c)
    BY <2>2, <2>7 DEF SweepClaim
  <2>8. CASE SweepRenew(c)
    BY <1>0, <2>1, <2>3, <2>8 DEF SweepRenew
  <2>9. CASE SweepCheck(c) \/ SweepComplete(c) \/ SweepRelease(c)
    BY <2>1, <2>4, <2>5, <2>6, <2>9 DEF SweepCheck, SweepComplete, SweepRelease
  <2>10. CASE SweepCount(c) \/ SweepDelete(c) \/ SweepFail(c) \/ SweepCrash(c)
    BY <2>1, <2>10 DEF SweepCount, SweepDelete, SweepFail, SweepCrash
  <2>11. QED
    BY <2>7, <2>8, <2>9, <2>10 DEF SweeperStep
<1>3. /\ stored' \in [Versions -> SUBSET Chunks] /\ retained' \in [Versions -> [Publishers -> Nat]]
      /\ late' \subseteq WriteRequests /\ struck' \subseteq Versions
  BY SweeperVector, UnconfirmedEffect DEF TypeOK
<1>4. sweep' \in [Sweepers -> Sweeper]
  <2>1. ASSUME NEW q \in Sweeper, sweep' = [sweep EXCEPT ![c] = q]
        PROVE  sweep' \in [Sweepers -> Sweeper]
    BY <2>1 DEF TypeOK
  <2>2. ASSUME NEW step \in SweeperSteps, NEW queue \in SUBSET Versions, NEW at \in Nat
        PROVE  /\ [sweep[c] EXCEPT !.pc = step] \in Sweeper
               /\ [sweep[c] EXCEPT !.pc = step, !.queue = queue] \in Sweeper
               /\ [sweep[c] EXCEPT !.queue = queue, !.pc = step] \in Sweeper
               /\ [sweep[c] EXCEPT !.pc = step, !.readAt = at] \in Sweeper
               /\ [sweep[c] EXCEPT !.pc = step, !.queue = queue, !.readAt = at] \in Sweeper
    BY <1>0 DEF Sweeper
  <2>3. CASE SweepClaim(c)
    BY <2>1, <2>2, <2>3 DEF SweepClaim, SweeperSteps
  <2>4. CASE SweepRenew(c)
    <3>1. PICK v \in sweep[c].queue :
            \/ sweep' = [sweep EXCEPT ![c] = [pc |-> "check", version |-> v,
                                              queue |-> sweep[c].queue \ {v}, readAt |-> now]]
            \/ sweep' = [sweep EXCEPT ![c] =
                           [sweep[c] EXCEPT !.queue = sweep[c].queue \ {v},
                                            !.pc = IF sweep[c].queue = {v}
                                                   THEN "idle" ELSE "renew"]]
      BY <2>4 DEF SweepRenew
    <3>2. [pc |-> "check", version |-> v, queue |-> sweep[c].queue \ {v},
           readAt |-> now] \in Sweeper
      BY <1>0 DEF Sweeper, SweeperSteps
    <3>3. QED
      BY <1>0, <2>1, <2>2, <3>1, <3>2 DEF SweeperSteps
  <2>5. CASE SweepCrash(c)
    BY <2>1, <2>2, <2>5 DEF SweepCrash, SweeperSteps
  <2>6. CASE NextItem(c)
    BY <2>1, <2>2, <2>6 DEF NextItem, SweeperSteps
  <2>7. CASE \E step \in SweeperSteps : sweep' = [sweep EXCEPT ![c].pc = step]
    BY <1>0, <2>7 DEF TypeOK, Sweeper
  <2>8. QED
    BY <2>3, <2>4, <2>5, <2>6, <2>7 DEF SweeperStep, SweepCheck, SweepCount, SweepDelete,
       SweepFail, SweepComplete, SweepRelease, SweeperSteps
<1>5. QED
  BY <1>1, <1>2, <1>3, <1>4 DEF TypeOK

\* A step of the server keeps everybody else's state, and the types.
LEMMA TypeServer ==
    ASSUME TypeOK, NEW r \in late, Server(r)
    PROVE  TypeOK' /\ UNCHANGED <<attempts, catalog, current, now, pub, sweep>>
<1>1. UNCHANGED <<attempts, catalog, current, now, pub, sweep>>
  BY DEF Server, catalogVars
<1>2. /\ stored' \in [Versions -> SUBSET Chunks] /\ retained' \in [Versions -> [Publishers -> Nat]]
      /\ late' \subseteq WriteRequests /\ struck' \subseteq Versions
  <2>1. r \in WriteRequests /\ r.version \in Versions
    BY DEF TypeOK, WriteRequests, UpsertRequests, RetainRequests, ReleaseRequests, DeleteRequests
  <2>2. CASE LateWrite(r)
    BY <2>1, <2>2, RequestEffect DEF LateWrite, TypeOK
  <2>3. CASE LateEnd(r)
    BY <2>3 DEF LateEnd, TypeOK
  <2>4. QED
    BY <2>2, <2>3 DEF Server
<1>3. QED
  BY <1>1, <1>2 DEF TypeOK

\* The initial state has its type.
LEMMA TypeInit == Init => TypeOK
<1> SUFFICES ASSUME Init PROVE TypeOK
  OBVIOUS
<1>1. attempts \in [Versions -> Row]
  BY DEF Init, AttemptsInit, NoRow, Row, RowStates
<1>2. pub \in [Publishers -> Publisher]
  BY DEF Init, Publisher, PublisherSteps
<1>3. sweep \in [Sweepers -> Sweeper]
  BY DEF Init, Sweeper, SweeperSteps
<1>4. QED
  BY <1>1, <1>2, <1>3 DEF Init, VectorInit, CatalogInit, TypeOK

\* Every step keeps the types.
LEMMA TypeNext == TypeOK /\ [Next]_vars => TypeOK'
<1> SUFFICES ASSUME TypeOK, [Next]_vars PROVE TypeOK'
  OBVIOUS
<1>1. CASE Tick
  BY <1>1 DEF Tick, TypeOK, storeVars
<1>2. CASE UNCHANGED vars
  BY <1>2 DEF vars, TypeOK
<1>3. CASE \E r \in late : Server(r)
  BY <1>3, TypeServer
<1>4. QED
  BY <1>1, <1>2, <1>3, TypePublisher, TypeSweeper DEF Next

\* Type correctness: rows, leases and local states keep their shape in every
\* behaviour of publishers and sweepers.
THEOREM TypeCorrect == Spec => []TypeOK
BY TypeInit, TypeNext, PTL DEF Spec

-----------------------------------------------------------------------------
(* What a step may change                                                  *)

\* What a publisher step does to the other actors and to its own inputs.
LEMMA PublisherFrame ==
    ASSUME TypeOK, NEW p \in Publishers, PublisherStep(p) \/ PublishCrash(p)
    PROVE  /\ now' = now /\ sweep' = sweep
           /\ \A q \in Publishers : q # p => pub'[q] = pub[q]
           /\ pub'[p].version = pub[p].version
           /\ pub[p].version \in Versions
<1> USE DEF Goto, Leave
<1>1. pub[p].version \in Versions /\ pub[p] \in Publisher /\ pub \in [Publishers -> Publisher]
  BY DEF TypeOK, Publisher
<1>2. now' = now /\ sweep' = sweep
  BY DEF PublisherStep, PublishCrash, PublishFind, PublishAcquire, PublishRetain,
     PublishList, PublishRenew, PublishReretain, PublishUpsert, PublishVerify,
     PublishCommit, PublishFail, PublishForget, PublishAbandon, PublishRelease
<1>3. \A q \in Publishers : q # p => pub'[q] = pub[q]
  BY <1>1 DEF PublisherStep, PublishCrash, PublishFind, PublishAcquire, PublishRetain,
     PublishList, PublishRenew, PublishReretain, PublishUpsert, PublishVerify,
     PublishCommit, PublishFail, PublishForget, PublishAbandon, PublishRelease
<1>4. pub'[p].version = pub[p].version
  <2>1. CASE PublishFind(p) \/ PublishAcquire(p) \/ PublishRetain(p) \/ PublishList(p)
    BY <1>1, <2>1 DEF Publisher, PublishFind, PublishAcquire, PublishRetain, PublishList
  <2>2. CASE PublishRenew(p) \/ PublishReretain(p) \/ PublishUpsert(p) \/ PublishVerify(p)
    BY <1>1, <2>2 DEF Publisher, PublishRenew, PublishReretain, PublishUpsert, PublishVerify
  <2>3. CASE PublishCommit(p) \/ PublishFail(p) \/ PublishForget(p) \/ PublishAbandon(p)
    BY <1>1, <2>3 DEF Publisher, PublishCommit, PublishFail, PublishForget, PublishAbandon
  <2>4. CASE PublishRelease(p) \/ PublishCrash(p)
    BY <1>1, <2>4 DEF Publisher, PublishRelease, PublishCrash
  <2>5. QED
    BY <2>1, <2>2, <2>3, <2>4 DEF PublisherStep
<1>5. QED
  BY <1>1, <1>2, <1>3, <1>4

\* What a publisher step may do to a row of the staging attempts.
LEMMA PublisherRows ==
    ASSUME TypeOK, NEW p \in Publishers, PublisherStep(p) \/ PublishCrash(p),
           NEW w \in Versions
    PROVE  LET old == attempts[w]
               new == attempts'[w]
           IN  \/ new = old
               \/ /\ w = pub[p].version
                  /\ \/ /\ At(p, "acquire") /\ ~Busy(w, p, now)
                        /\ new.state = "publishing" /\ new.owner = p /\ new.last = now
                     \/ /\ At(p, "renew") /\ OwnedBy(w, "publishing", p)
                        /\ new.state = "publishing" /\ new.owner = p /\ new.last = now
                     \/ pub[p].pc \in {"forget", "forgetExisting"} /\ new = NoRow
                     \/ /\ At(p, "abandon") /\ OwnedBy(w, "publishing", p)
                        /\ new.state = "pending" /\ new.owner = NoOwner
                        /\ new.last = old.last
<1>1. pub[p].version \in Versions /\ attempts \in [Versions -> Row]
  BY DEF TypeOK, Publisher
<1>2. CASE PublishAcquire(p)
  <2>1. CASE UNCHANGED attempts
    BY <2>1
  <2>2. CASE AcquirePublication(pub[p].version, p, now, now + PublishLease)
    <3>1. attempts' = [attempts EXCEPT ![pub[p].version] =
             [state |-> "publishing", owner |-> p, expires |-> now + PublishLease,
              last |-> now]]
      BY <2>2 DEF AcquirePublication
    <3>2. ~Busy(pub[p].version, p, now) /\ At(p, "acquire")
      BY <1>2, <2>2 DEF AcquirePublication, PublishAcquire
    <3>3. QED
      BY <1>1, <3>1, <3>2
  <2>3. QED
    BY <1>2, <2>1, <2>2 DEF PublishAcquire
<1>3. CASE PublishRenew(p)
  <2> DEFINE row == [attempts[pub[p].version] EXCEPT !.expires = now + PublishLease,
                                                     !.last = now]
  <2>1. \/ UNCHANGED attempts
        \/ /\ OwnedBy(pub[p].version, "publishing", p)
           /\ attempts' = [attempts EXCEPT ![pub[p].version] = row]
    BY <1>3 DEF PublishRenew, RenewPublication
  <2>2. /\ row.state = attempts[pub[p].version].state /\ row.owner = attempts[pub[p].version].owner
        /\ row.expires = now + PublishLease /\ row.last = now
    <3>1. attempts[pub[p].version] \in Row
      BY <1>1
    <3>2. QED
      BY <3>1 DEF Row
  <2>3. At(p, "renew")
    BY <1>3 DEF PublishRenew
  <2> HIDE DEF row
  <2>4. QED
    BY <1>1, <2>1, <2>2, <2>3 DEF OwnedBy
<1>4. CASE PublishForget(p)
  BY <1>1, <1>4 DEF PublishForget, ForgetReferenced, At
<1>5. CASE PublishAbandon(p)
  <2> DEFINE row == [attempts[pub[p].version] EXCEPT !.state = "pending",
                                                     !.owner = NoOwner, !.expires = 0]
  <2>1. \/ UNCHANGED attempts
        \/ /\ OwnedBy(pub[p].version, "publishing", p)
           /\ attempts' = [attempts EXCEPT ![pub[p].version] = row]
    BY <1>5 DEF PublishAbandon, AbandonPublication, Release
  <2>2. /\ row.state = "pending" /\ row.owner = NoOwner
        /\ row.last = attempts[pub[p].version].last
    <3>1. attempts[pub[p].version] \in Row
      BY <1>1
    <3>2. QED
      BY <3>1 DEF Row
  <2>3. At(p, "abandon")
    BY <1>5 DEF PublishAbandon
  <2> HIDE DEF row
  <2>4. QED
    BY <1>1, <2>1, <2>2, <2>3
<1>6. CASE UNCHANGED attempts
  BY <1>6
<1>7. QED
  BY <1>2, <1>3, <1>4, <1>5, <1>6 DEF PublisherStep, PublishCrash, PublishFind, PublishRetain,
     PublishList, PublishReretain, PublishUpsert, PublishVerify, storeVars,
     PublishCommit, PublishFail, PublishRelease

\* Publishers only add records, in their upsert step, and leave only such
\* upserts behind.
LEMMA PublisherRecords ==
    ASSUME TypeOK, NEW p \in Publishers, PublisherStep(p) \/ PublishCrash(p)
    PROVE  /\ \A w \in Versions : \/ stored'[w] = stored[w]
                                 \/ /\ At(p, "upsert") /\ w = pub[p].version
                                    /\ stored[w] \subseteq stored'[w]
           /\ \A r \in late' : r.write = "upsert" =>
                r \in late \/ (At(p, "upsert") /\ r.version = pub[p].version /\ r.at = pub[p].readAt)
<1>1. CASE UNCHANGED vectorVars
  BY <1>1 DEF vectorVars
<1>2. ASSUME NEW r, Sends(p, r), Unconfirmed(r)
      PROVE  /\ \A w \in Versions : \/ stored'[w] = stored[w]
                                   \/ /\ At(p, "upsert") /\ w = pub[p].version
                                      /\ stored[w] \subseteq stored'[w]
             /\ late' \subseteq late \cup {r}
  BY <1>2, UnconfirmedEffect DEF Sends
<1>3. CASE Verified(pub[p].version)
  BY <1>3 DEF Verified
<1>4. QED
  BY <1>1, <1>2, <1>3, PublisherVector DEF Sends

\* A publisher step takes no record of an intact version, and forgets that a
\* version was struck only when it has seen it whole.
LEMMA PublisherIntact ==
    ASSUME TypeOK, TypeOK', NEW p \in Publishers, PublisherStep(p) \/ PublishCrash(p),
           NEW w \in Versions, Intact(w)
    PROVE  Intact(w)'
<1>1. stored'[w] \subseteq Chunks
  BY DEF TypeOK
<1>2. CASE UNCHANGED vectorVars
  BY <1>2 DEF vectorVars, Intact
<1>3. ASSUME NEW r, Sends(p, r), Unconfirmed(r) PROVE Intact(w)'
  <2>1. struck' = struck /\ stored[w] \subseteq stored'[w]
    BY <1>3, UnconfirmedEffect DEF Sends
  <2>2. QED
    BY <1>1, <2>1 DEF Intact
<1>4. CASE stored[pub[p].version] = Chunks /\ Verified(pub[p].version)
  BY <1>4 DEF Verified, Intact
<1>5. QED
  BY <1>2, <1>3, <1>4, PublisherVector

\* Publishers only add their own version to the catalog, in their commit step.
LEMMA PublisherCatalog ==
    ASSUME TypeOK, NEW p \in Publishers, PublisherStep(p) \/ PublishCrash(p)
    PROVE  \/ catalog' = catalog /\ current' = current
           \/ /\ At(p, "commit") /\ ~Catalogued(pub[p].version)
              /\ current' = pub[p].version
              /\ \A w \in Versions : Catalogued(w)' <=> (Catalogued(w) \/ w = pub[p].version)
<1>1. pub[p].version \in Versions
  BY DEF TypeOK, Publisher
<1>2. CASE PublishCommit(p)
  <2>1. PICK row : /\ row.version = pub[p].version
                   /\ \/ UNCHANGED <<catalog, current>>
                      \/ /\ ~Catalogued(row.version)
                         /\ catalog' = catalog \cup {row} /\ current' = row.version
    BY <1>2 DEF PublishCommit, CommitCurrent, Publication, catalogVars
  <2>2. QED
    BY <1>2, <2>1 DEF PublishCommit, Catalogued, FindVersion
<1>3. CASE UNCHANGED catalogVars
  BY <1>3 DEF catalogVars
<1>4. QED
  BY <1>2, <1>3 DEF PublisherStep, PublishCrash, PublishFind, PublishAcquire, PublishRetain,
     PublishList, PublishRenew, PublishReretain, PublishUpsert, PublishVerify,
     PublishFail, PublishForget, PublishAbandon, PublishRelease, storeVars, catalogVars

\* What a sweeper step may do to a row of the staging attempts.
LEMMA SweeperRows ==
    ASSUME TypeOK, NEW c \in Sweepers, SweeperStep(c) \/ SweepCrash(c),
           NEW w \in Versions
    PROVE  LET old == attempts[w]
               new == attempts'[w]
           IN  \/ new = old
               \/ /\ sweep[c].pc = "idle" /\ Eligible(w, now, Grace)
                  /\ new.state = "cleaning" /\ new.owner = c /\ new.last = old.last
               \/ /\ sweep[c].pc = "renew" /\ OwnedBy(w, "cleaning", c)
                  /\ new.state = "cleaning" /\ new.owner = c
               \/ /\ w = sweep[c].version
                  /\ \/ sweep[c].pc = "check" /\ Catalogued(w) /\ new = NoRow
                     \/ /\ sweep[c].pc = "complete" /\ OwnedBy(w, "cleaning", c)
                        /\ new = NoRow
                     \/ /\ sweep[c].pc = "release" /\ OwnedBy(w, "cleaning", c)
                        /\ new.state = "pending" /\ new.owner = NoOwner
                        /\ new.last = old.last
<1>1. /\ sweep[c].version \in Versions /\ attempts \in [Versions -> Row]
      /\ sweep \in [Sweepers -> Sweeper] /\ attempts[w] \in Row
  BY DEF TypeOK, Sweeper
<1>2. CASE SweepClaim(c)
  <2>1. PICK batch : /\ batch \subseteq {v \in Versions : Eligible(v, now, Grace)}
                     /\ ClaimCleanup(batch, c, now + CleanupLease)
    BY <1>2 DEF SweepClaim, Claims
  <2> DEFINE row == [attempts[w] EXCEPT !.state = "cleaning", !.owner = c,
                                        !.expires = now + CleanupLease]
  <2>2. row.state = "cleaning" /\ row.owner = c /\ row.last = attempts[w].last
    BY <1>1 DEF Row
  <2>3. w \in batch => attempts'[w] = row
    BY <2>1 DEF ClaimCleanup
  <2>4. w \notin batch => attempts'[w] = attempts[w]
    BY <2>1 DEF ClaimCleanup
  <2>5. sweep[c].pc = "idle"
    BY <1>2 DEF SweepClaim
  <2> HIDE DEF row
  <2>6. QED
    BY <2>1, <2>2, <2>3, <2>4, <2>5
<1>3. CASE SweepRenew(c)
  <2>1. PICK v \in sweep[c].queue :
          \/ UNCHANGED attempts
          \/ /\ OwnedBy(v, "cleaning", c)
             /\ attempts' = [attempts EXCEPT ![v] =
                               [attempts[v] EXCEPT !.expires = now + CleanupLease]]
    BY <1>3 DEF SweepRenew, RenewCleanup
  <2>2. sweep[c].pc = "renew"
    BY <1>3 DEF SweepRenew
  <2>3. [attempts[w] EXCEPT !.expires = now + CleanupLease].state = attempts[w].state
    BY <1>1 DEF Row
  <2>4. [attempts[w] EXCEPT !.expires = now + CleanupLease].owner = attempts[w].owner
    BY <1>1 DEF Row
  <2>5. QED
    BY <1>1, <2>1, <2>2, <2>3, <2>4 DEF OwnedBy
<1>4. CASE SweepCheck(c)
  BY <1>1, <1>4 DEF SweepCheck, ForgetReferenced
<1>5. CASE SweepComplete(c)
  BY <1>1, <1>5 DEF SweepComplete, CompleteCleanup
<1>6. CASE SweepRelease(c)
  <2> DEFINE row == [attempts[sweep[c].version] EXCEPT !.state = "pending",
                                                       !.owner = NoOwner, !.expires = 0]
  <2>1. \/ UNCHANGED attempts
        \/ /\ OwnedBy(sweep[c].version, "cleaning", c)
           /\ attempts' = [attempts EXCEPT ![sweep[c].version] = row]
    BY <1>6 DEF SweepRelease, ReleaseCleanup, Release
  <2>2. /\ row.state = "pending" /\ row.owner = NoOwner
        /\ row.last = attempts[sweep[c].version].last
    <3>1. attempts[sweep[c].version] \in Row
      BY <1>1
    <3>2. QED
      BY <3>1 DEF Row
  <2>3. sweep[c].pc = "release"
    BY <1>6 DEF SweepRelease
  <2> HIDE DEF row
  <2>4. QED
    BY <1>1, <2>1, <2>2, <2>3
<1>7. CASE UNCHANGED attempts
  BY <1>7
<1>8. QED
  BY <1>2, <1>3, <1>4, <1>5, <1>6, <1>7 DEF SweeperStep, SweepCrash, SweepCount,
     SweepDelete, SweepFail, storeVars

\* A sweeper step leaves publishers, clock, catalog and other sweepers alone
\* and deletes records only in its delete step.
LEMMA SweeperFrame ==
    ASSUME TypeOK, NEW c \in Sweepers, SweeperStep(c) \/ SweepCrash(c)
    PROVE  /\ now' = now /\ pub' = pub /\ catalog' = catalog /\ current' = current
           /\ \A d \in Sweepers : d # c => sweep'[d] = sweep[d]
           /\ struck' = struck /\ \A r \in late' : r.write = "upsert" => r \in late
           /\ \A w \in Versions :
                \/ stored'[w] = stored[w]
                \/ sweep[c].pc = "delete" /\ w = sweep[c].version
<1>1. /\ sweep[c].version \in Versions /\ stored \in [Versions -> SUBSET Chunks]
      /\ sweep \in [Sweepers -> Sweeper]
  BY DEF TypeOK, Sweeper
<1>2. UNCHANGED <<now, pub, catalog, current>>
  BY DEF SweeperStep, SweepClaim, SweepRenew, SweepCheck, SweepCount, SweepDelete,
     SweepFail, SweepComplete, SweepRelease, SweepCrash, storeVars, catalogVars
<1>3. \A d \in Sweepers : d # c => sweep'[d] = sweep[d]
  BY <1>1 DEF SweeperStep, SweepClaim, SweepRenew, SweepCheck, SweepCount, SweepDelete,
     SweepFail, SweepComplete, SweepRelease, SweepCrash, NextItem
<1>4. CASE UNCHANGED vectorVars
  BY <1>2, <1>3, <1>4 DEF vectorVars
<1>5. CASE sweep[c].pc = "delete" /\ Unconfirmed(DeleteFor(c))
  <2>1. DeleteFor(c).version = sweep[c].version /\ DeleteFor(c).write = "delete"
    BY DEF DeleteFor
  <2>2. /\ struck' = struck /\ late' \subseteq late \cup {DeleteFor(c)}
        /\ \A w \in Versions : stored'[w] = stored[w] \/ w = sweep[c].version
    BY <1>5, <2>1, SweeperVector, UnconfirmedEffect
  <2>3. QED
    BY <1>2, <1>3, <1>5, <2>1, <2>2
<1>6. QED
  BY <1>4, <1>5, SweeperVector

\* How a publisher gets to the steps the invariant speaks of.
LEMMA PublisherMoves ==
    ASSUME TypeOK, NEW p \in Publishers, PublisherStep(p) \/ PublishCrash(p)
    PROVE  LET v == pub[p].version
               old == pub[p]
               new == pub'[p]
           IN  /\ new.pc \in LeasedPublish =>
                    \/ /\ old.pc = "renew" /\ new.pc = "reretain"
                       /\ new.readAt = now /\ new.missing = old.missing
                       /\ OwnedBy(v, "publishing", p)
                       /\ attempts'[v].state = "publishing" /\ attempts'[v].last = now
                    \/ /\ old.pc = "reretain" /\ new.readAt = old.readAt
                       /\ new.missing = old.missing /\ attempts' = attempts
                       /\ new.pc = "commit" => old.missing = {}
               /\ (new.pc = "renew" /\ new.missing = {}) =>
                    stored[v] = Chunks /\ stored' = stored
               /\ new.pc \in {"forget", "forgetExisting"} =>
                    \E row \in catalog' : row.version = v
<1>0. /\ pub \in [Publishers -> Publisher] /\ pub[p] \in Publisher
      /\ attempts \in [Versions -> Row] /\ pub[p].version \in Versions
  BY DEF TypeOK, Publisher
<1> USE DEF At, LeasedPublish
<1>1. ASSUME NEW step, Goto(p, step)
      PROVE  /\ pub'[p].pc = step /\ pub'[p].missing = pub[p].missing
             /\ pub'[p].readAt = pub[p].readAt
  BY <1>0, <1>1 DEF Goto, Publisher
<1>2. ASSUME Leave(p) PROVE pub'[p].pc = "done"
  BY <1>0, <1>2 DEF Leave, Publisher
<1>3. CASE PublishFind(p)
  <2>1. \/ pub'[p].pc \in {"acquire", "done"}
        \/ pub'[p].pc = "forgetExisting" /\ Catalogued(pub[p].version)
    BY <1>1, <1>2, <1>3 DEF PublishFind
  <2>2. catalog' = catalog
    BY <1>3 DEF PublishFind, storeVars
  <2>3. QED
    BY <2>1, <2>2 DEF Catalogued, FindVersion
<1>4. CASE PublishAcquire(p)
  <2>1. pub'[p].pc \in {"done", "retain"}
    BY <1>0, <1>2, <1>4 DEF PublishAcquire, Publisher
  <2>2. QED
    BY <2>1
<1>5. CASE PublishRetain(p)
  BY <1>1, <1>5 DEF PublishRetain
<1>6. CASE PublishList(p)
  <2>1. \/ pub'[p].pc = "verify"
        \/ pub'[p].pc = "renew" /\ pub'[p].missing # {}
    BY <1>0, <1>6 DEF PublishList, Publisher
  <2>2. QED
    BY <2>1
<1>7. CASE PublishRenew(p)
  <2>1. CASE ~OwnedBy(pub[p].version, "publishing", p)
    BY <1>1, <1>7, <2>1 DEF PublishRenew, RenewPublication
  <2>2. CASE OwnedBy(pub[p].version, "publishing", p)
    <3>1. /\ pub' = [pub EXCEPT ![p] = [pub[p] EXCEPT !.pc = "reretain", !.readAt = now]]
          /\ RenewPublication(pub[p].version, p, now, now + PublishLease)
      BY <1>7, <2>2 DEF PublishRenew
    <3>2. /\ pub'[p].pc = "reretain" /\ pub'[p].readAt = now
          /\ pub'[p].missing = pub[p].missing
      BY <1>0, <3>1 DEF Publisher
    <3>3. attempts'[pub[p].version].state = "publishing" /\ attempts'[pub[p].version].last = now
      BY <1>0, <2>2, <3>1 DEF RenewPublication, OwnedBy, Row
    <3>4. QED
      BY <1>7, <2>2, <3>2, <3>3 DEF PublishRenew
  <2>3. QED
    BY <2>1, <2>2
<1>8. CASE PublishReretain(p)
  BY <1>1, <1>8 DEF PublishReretain
<1>9. CASE PublishUpsert(p)
  <2>1. PICK b \in Batches(p) :
          pub' = [pub EXCEPT ![p] =
                    [pub[p] EXCEPT !.missing = pub[p].missing \ b,
                                   !.pc = IF pub[p].missing = b THEN "verify" ELSE "renew"]]
    BY <1>9 DEF PublishUpsert
  <2>2. b \subseteq pub[p].missing
    BY DEF Batches
  <2>3. \/ pub'[p].pc = "verify"
        \/ pub'[p].pc = "renew" /\ pub'[p].missing # {}
    BY <1>0, <2>1, <2>2 DEF Publisher
  <2>4. QED
    BY <2>3
<1>10. CASE PublishVerify(p)
  BY <1>1, <1>10 DEF PublishVerify, Verified, ListVersionRecords
<1>11. CASE PublishCommit(p)
  <2>1. CASE Goto(p, "abandon")
    BY <1>1, <2>1
  <2>2. CASE CommitCurrent(Publication(pub[p].version, pub[p].publishedAt, pub[p].scopes))
             /\ Goto(p, "forget")
    <3>1. \E row \in catalog' : row.version = pub[p].version
      BY <2>2 DEF CommitCurrent, Publication, Catalogued, FindVersion
    <3>2. QED
      BY <1>1, <2>2, <3>1
  <2>3. QED
    BY <1>11, <2>1, <2>2 DEF PublishCommit
<1>12. CASE PublishFail(p)
  BY <1>1, <1>12 DEF PublishFail
<1>13. CASE PublishForget(p)
  BY <1>1, <1>2, <1>13 DEF PublishForget
<1>14. CASE PublishAbandon(p)
  BY <1>1, <1>14 DEF PublishAbandon
<1>15. CASE PublishRelease(p)
  BY <1>2, <1>15 DEF PublishRelease
<1>16. CASE PublishCrash(p)
  BY <1>2, <1>16 DEF PublishCrash
<1>17. QED
  BY <1>3, <1>4, <1>5, <1>6, <1>7, <1>8, <1>9, <1>10, <1>11, <1>12, <1>13, <1>14,
     <1>15, <1>16 DEF PublisherStep

\* How a sweeper gets to the steps the invariant speaks of.
LEMMA SweeperMoves ==
    ASSUME TypeOK, NEW c \in Sweepers, SweeperStep(c) \/ SweepCrash(c)
    PROVE  LET old == sweep[c]
               new == sweep'[c]
           IN  /\ new.pc = "check" => 
                     /\ old.pc = "renew" /\ new.readAt = now /\ new.version \in Versions
                     /\ attempts'[new.version].state = "cleaning"
                     /\ attempts'[new.version].owner = c
                     /\ attempts'[new.version].expires = now + CleanupLease
               /\ new.pc \in {"count", "delete"} =>
                     /\ attempts' = attempts
                     /\ new.version = old.version /\ new.readAt = old.readAt
                     /\ \/ old.pc = "check" /\ ~Catalogued(old.version)
                        \/ old.pc = "count"
               /\ new.pc = "complete" =>
                     /\ attempts' = attempts /\ new.version = old.version
                     /\ old.pc = "delete" /\ stored'[old.version] = {}
<1>0. /\ sweep \in [Sweepers -> Sweeper] /\ sweep[c] \in Sweeper
      /\ attempts \in [Versions -> Row] /\ sweep[c].version \in Versions
      /\ stored \in [Versions -> SUBSET Chunks] /\ sweep[c].queue \subseteq Versions
  BY DEF TypeOK, Sweeper
<1>1. ASSUME NEW step, sweep' = [sweep EXCEPT ![c].pc = step]
      PROVE  /\ sweep'[c].pc = step /\ sweep'[c].version = sweep[c].version
             /\ sweep'[c].readAt = sweep[c].readAt
  BY <1>0, <1>1 DEF Sweeper
<1>2. ASSUME NextItem(c) PROVE sweep'[c].pc \in {"idle", "renew"}
  BY <1>0, <1>2 DEF NextItem, Sweeper
<1>3. CASE SweepClaim(c)
  <2>1. sweep'[c].pc = "renew"
    BY <1>0, <1>3 DEF SweepClaim, Sweeper
  <2>2. QED
    BY <2>1
<1>4. CASE SweepRenew(c)
  <2>1. PICK v \in sweep[c].queue :
          \/ sweep' = [sweep EXCEPT ![c] =
                         [sweep[c] EXCEPT !.queue = sweep[c].queue \ {v},
                                          !.pc = IF sweep[c].queue = {v}
                                                 THEN "idle" ELSE "renew"]]
          \/ /\ OwnedBy(v, "cleaning", c)
             /\ attempts' = [attempts EXCEPT ![v] =
                               [attempts[v] EXCEPT !.expires = now + CleanupLease]]
             /\ sweep' = [sweep EXCEPT ![c] = [pc |-> "check", version |-> v,
                                               queue |-> sweep[c].queue \ {v}, readAt |-> now]]
    BY <1>4 DEF SweepRenew, RenewCleanup
  <2>2. CASE sweep' = [sweep EXCEPT ![c] =
                         [sweep[c] EXCEPT !.queue = sweep[c].queue \ {v},
                                          !.pc = IF sweep[c].queue = {v}
                                                 THEN "idle" ELSE "renew"]]
    <3>1. sweep'[c].pc \in {"idle", "renew"}
      BY <1>0, <2>2 DEF Sweeper
    <3>2. QED
      BY <3>1
  <2>3. CASE /\ OwnedBy(v, "cleaning", c)
             /\ attempts' = [attempts EXCEPT ![v] =
                               [attempts[v] EXCEPT !.expires = now + CleanupLease]]
             /\ sweep' = [sweep EXCEPT ![c] = [pc |-> "check", version |-> v,
                                               queue |-> sweep[c].queue \ {v}, readAt |-> now]]
    <3>1. sweep'[c].pc = "check" /\ sweep'[c].version = v /\ sweep'[c].readAt = now
      BY <1>0, <2>3
    <3>2. v \in Versions /\ attempts[v] \in Row
      BY <1>0
    <3>3. /\ attempts'[v].state = "cleaning" /\ attempts'[v].owner = c
          /\ attempts'[v].expires = now + CleanupLease
      BY <1>0, <2>3, <3>2 DEF OwnedBy, Row
    <3>4. QED
      BY <1>4, <3>1, <3>2, <3>3 DEF SweepRenew, OwnedBy
  <2>4. QED
    BY <2>1, <2>2, <2>3
<1>5. CASE SweepCheck(c)
  BY <1>1, <1>2, <1>5 DEF SweepCheck
<1>6. CASE SweepCount(c)
  BY <1>1, <1>6 DEF SweepCount, storeVars
<1>7. CASE SweepDelete(c)
  <2>1. stored'[sweep[c].version] = {}
    BY <1>0, <1>7 DEF SweepDelete, Answered, CarriedOut, DeleteFor, DeleteVersionPoints
  <2>2. QED
    BY <1>1, <1>7, <2>1 DEF SweepDelete
<1>8. CASE SweepFail(c)
  BY <1>1, <1>8 DEF SweepFail
<1>9. CASE SweepComplete(c)
  BY <1>2, <1>9 DEF SweepComplete
<1>10. CASE SweepRelease(c)
  BY <1>2, <1>10 DEF SweepRelease
<1>11. CASE SweepCrash(c)
  <2>1. sweep'[c].pc = "idle"
    BY <1>0, <1>11 DEF SweepCrash, Sweeper
  <2>2. QED
    BY <2>1
<1>12. QED
  BY <1>3, <1>4, <1>5, <1>6, <1>7, <1>8, <1>9, <1>10, <1>11 DEF SweeperStep

-----------------------------------------------------------------------------
(* The invariant is inductive                                              *)

\* A publisher step preserves the invariant.
LEMMA PublisherKeepsInv ==
    ASSUME StagingInv, NEW p \in Publishers, PublisherStep(p) \/ PublishCrash(p)
    PROVE  StagingInv'
<1> DEFINE v == pub[p].version
<1>0. TypeOK /\ TypeOK'
  BY TypePublisher DEF StagingInv
<1>1. /\ now' = now /\ sweep' = sweep /\ v \in Versions
      /\ \A q \in Publishers : q # p => pub'[q] = pub[q]
      /\ \A q \in Publishers : pub'[q].version = pub[q].version /\ pub[q].version \in Versions
      /\ \A c \in Sweepers : sweep[c].version \in Versions
  BY <1>0, PublisherFrame DEF TypeOK, Publisher, Sweeper
\* The catalog grows by the version of a committing publisher at most.
<1>2. \A w \in Versions :
        /\ Catalogued(w) => Catalogued(w)'
        /\ Catalogued(w)' => Catalogued(w) \/ (w = v /\ At(p, "commit"))
  BY <1>0, PublisherCatalog DEF Catalogued, FindVersion
\* Nobody cleans the version of a publisher that acts on its renewal.
<1>3. \A c \in Sweepers : At(p, "commit") /\ ~Catalogued(v) => ~OwnedBy(v, "cleaning", c)
  BY DEF StagingInv, PublishKeepsRow, Covered, LeasedPublish, At, OwnedBy
<1>4. PublishedComplete'
  <2> SUFFICES ASSUME NEW w \in Versions, Catalogued(w)' PROVE Intact(w)'
    BY DEF PublishedComplete, Catalogued, FindVersion, Intact
  <2>1. Intact(w)
    BY <1>2 DEF StagingInv, PublishedComplete, VerifiedStaysStaged, At
  <2>2. QED
    BY <1>0, <2>1, PublisherIntact
<1>5. OrphansTracked'
  <2> SUFFICES ASSUME NEW w \in Versions, stored'[w] # {}, ~Catalogued(w)'
               PROVE  attempts'[w].state # "absent"
    BY DEF OrphansTracked, Tracked, Catalogued, FindVersion
  <2>1. ~Catalogued(w)
    BY <1>2
  <2>2. attempts[w].state # "absent"
    <3>1. CASE stored'[w] = stored[w]
      BY <2>1, <3>1 DEF StagingInv, OrphansTracked, Tracked
    <3>2. CASE At(p, "upsert") /\ w = v
      BY <2>1, <3>2 DEF StagingInv, PublishKeepsRow, Covered, LeasedPublish, At
    <3>3. QED
      BY <1>0, <3>1, <3>2, PublisherRecords
  <2>3. ~(w = v /\ pub[p].pc \in {"forget", "forgetExisting"})
    BY <2>1 DEF StagingInv, ForgetsPublished
  <2>4. QED
    BY <1>0, <2>2, <2>3, PublisherRows
<1>6. SweepHoldsRow'
  <2> SUFFICES ASSUME NEW c \in Sweepers, sweep[c].pc \in LeasedSweep
               PROVE  /\ sweep[c].readAt <= now /\ now <= sweep[c].readAt + SweepStall
                      /\ \/ sweep[c].pc = "check" /\ Catalogued(sweep[c].version)'
                         \/ /\ OwnedBy(sweep[c].version, "cleaning", c)'
                            /\ attempts'[sweep[c].version].expires = sweep[c].readAt + CleanupLease
    BY <1>1 DEF SweepHoldsRow, OwnedBy, Catalogued, FindVersion
  <2> DEFINE w == sweep[c].version
  <2>1. sweep[c].readAt \in Nat /\ now \in Nat /\ w \in Versions
    BY <1>0 DEF TypeOK, Sweeper
  <2>2. sweep[c].readAt <= now /\ now <= sweep[c].readAt + SweepStall
    BY DEF StagingInv, SweepHoldsRow
  <2>3. CASE sweep[c].pc = "check" /\ Catalogued(w)
    BY <1>1, <1>2, <2>1, <2>2, <2>3
  <2>4. CASE OwnedBy(w, "cleaning", c) /\ attempts[w].expires = sweep[c].readAt + CleanupLease
    <3>1. attempts[w].expires > now
      BY <2>1, <2>2, <2>4, ConstantsAssumption, StallAssumption
    <3>2. Busy(w, p, now) /\ ~OwnedBy(w, "publishing", p)
      BY <2>4, <3>1 DEF Busy, OwnedBy
    <3>3. CASE attempts'[w] = attempts[w]
      BY <2>2, <2>4, <3>3, <1>1 DEF OwnedBy
    <3>4. CASE w = v /\ pub[p].pc \in {"forget", "forgetExisting"}
      <4>1. Catalogued(w)
        BY <3>4 DEF StagingInv, ForgetsPublished
      <4>2. sweep[c].pc = "check"
        BY <4>1 DEF StagingInv, SweepsUnpublished, LeasedSweep
      <4>3. QED
        BY <1>1, <1>2, <2>1, <2>2, <4>1, <4>2
    <3>5. QED
      BY <1>0, <2>1, <3>2, <3>3, <3>4, PublisherRows
  <2>5. QED
    BY <2>3, <2>4 DEF StagingInv, SweepHoldsRow
<1>7. SweepsUnpublished'
  <2> SUFFICES ASSUME NEW c \in Sweepers, sweep[c].pc \in {"count", "delete"}
               PROVE  ~Catalogued(sweep[c].version)'
    BY <1>1 DEF SweepsUnpublished, Catalogued, FindVersion
  <2>1. /\ ~Catalogued(sweep[c].version)
        /\ OwnedBy(sweep[c].version, "cleaning", c)
    BY DEF StagingInv, SweepsUnpublished, SweepHoldsRow, LeasedSweep
  <2>2. QED
    BY <1>1, <1>2, <1>3, <2>1
\* What is covered stays covered.
<1>8. ASSUME NEW w \in Versions, NEW at \in Nat, Covered(w, at) PROVE Covered(w, at)'
  <2>1. now \in Nat /\ at <= now /\ now <= at + PublishStall
    BY <1>0, <1>8 DEF Covered, TypeOK
  <2>2. CASE Catalogued(w)
    BY <1>1, <1>2, <2>1, <2>2 DEF Covered
  <2>3. CASE ~Catalogued(w) /\ attempts[w].state \in {"pending", "publishing"} /\ attempts[w].last >= at
    <3>1. ~(w = v /\ pub[p].pc \in {"forget", "forgetExisting"})
      BY <2>3 DEF StagingInv, ForgetsPublished
    <3>2. attempts'[w].state \in {"pending", "publishing"} /\ attempts'[w].last >= at
      BY <1>0, <2>1, <2>3, <3>1, PublisherRows
    <3>3. QED
      BY <1>1, <2>1, <3>2 DEF Covered
  <2>4. QED
    BY <1>8, <2>2, <2>3 DEF Covered
<1>8a. PublishKeepsRow'
  <2> SUFFICES ASSUME NEW q \in Publishers, pub'[q].pc \in LeasedPublish
               PROVE  Covered(pub[q].version, pub[q].readAt)'
    BY DEF PublishKeepsRow, Covered, Catalogued, FindVersion
  <2>1. PICK w \in Versions, at \in Nat : w = pub[q].version /\ at = pub'[q].readAt
    BY <1>0 DEF TypeOK, Publisher
  <2>2. Covered(w, at)'
    <3>1. CASE q = p /\ pub[p].pc = "renew"
      <4>1. at = now /\ attempts'[w].state = "publishing" /\ attempts'[w].last = now
        BY <1>0, <2>1, <3>1, PublisherMoves
      <4>2. at <= now /\ now <= at + PublishStall
        BY <2>1, <4>1, ConstantsAssumption
      <4>3. QED
        BY <1>1, <2>1, <4>1, <4>2 DEF Covered
    <3>2. CASE pub[q].pc \in LeasedPublish /\ at = pub[q].readAt
      <4>1. Covered(w, at)
        BY <2>1, <3>2 DEF StagingInv, PublishKeepsRow
      <4>2. QED
        BY <1>8, <4>1
    <3>3. QED
      BY <1>0, <1>1, <2>1, <3>1, <3>2, PublisherMoves DEF LeasedPublish
  <2>3. w = pub'[q].version
    BY <1>1, <2>1
  <2>4. QED
    BY <2>1, <2>2, <2>3 DEF Covered, Catalogued, FindVersion
<1>8b. LateUpsertsCovered'
  <2> SUFFICES ASSUME NEW r \in late', r.write = "upsert" PROVE Covered(r.version, r.at)'
    BY DEF LateUpsertsCovered, Covered, Catalogued, FindVersion
  <2>1. r.version \in Versions /\ r.at \in Nat
    BY <1>0 DEF TypeOK, WriteRequests, UpsertRequests, RetainRequests, ReleaseRequests, DeleteRequests
  <2>2. Covered(r.version, r.at)
    BY <1>0, PublisherRecords DEF StagingInv, LateUpsertsCovered, PublishKeepsRow, LeasedPublish, At
  <2>3. QED
    BY <1>8, <2>1, <2>2
<1>9. VerifiedStaysStaged'
  <2> SUFFICES ASSUME NEW q \in Publishers
               PROVE  /\ pub'[q].pc = "commit" => pub'[q].missing = {}
                      /\ (pub'[q].missing = {} /\ pub'[q].pc \in {"reretain", "commit"})
                            => stored'[pub[q].version] = Chunks \/ pub[q].version \in struck'
                      /\ (pub'[q].missing = {} /\ pub'[q].pc = "renew"
                            /\ attempts'[pub[q].version].state = "publishing"
                            /\ attempts'[pub[q].version].owner = q)
                            => stored'[pub[q].version] = Chunks \/ pub[q].version \in struck'
    BY <1>1 DEF VerifiedStaysStaged, At, OwnedBy, Intact
  <2>1. ASSUME NEW w \in Versions, Intact(w) PROVE stored'[w] = Chunks \/ w \in struck'
    BY <1>0, <2>1, PublisherIntact DEF Intact
  <2>2. CASE q = p
    <3>1. pub'[p].pc = "commit" => pub'[p].missing = {}
      BY <1>0, PublisherMoves DEF LeasedPublish
    <3>2. (pub'[p].missing = {} /\ pub'[p].pc \in {"reretain", "commit"}) => Intact(v)
      BY <1>0, PublisherMoves DEF LeasedPublish, StagingInv, VerifiedStaysStaged, At
    <3>3. (pub'[p].missing = {} /\ pub'[p].pc = "renew") => Intact(v)
      BY <1>0, PublisherMoves DEF Intact
    <3>4. QED
      BY <1>1, <2>1, <2>2, <3>1, <3>2, <3>3
  <2>3. CASE q # p
    <3>1. pub'[q] = pub[q] /\ pub[q].version \in Versions
      BY <1>1, <2>3
    <3>2. (/\ attempts'[pub[q].version].state = "publishing"
           /\ attempts'[pub[q].version].owner = q) => OwnedBy(pub[q].version, "publishing", q)
      <4>1. NoOwner # q
        BY ConstantsAssumption
      <4>2. QED
        BY <1>0, <2>3, <3>1, <4>1, PublisherRows DEF OwnedBy, NoRow
    <3>3. QED
      BY <2>1, <3>1, <3>2 DEF StagingInv, VerifiedStaysStaged, At
  <2>4. QED
    BY <2>2, <2>3
<1>10. CleanedBeforeComplete'
  <2> SUFFICES ASSUME NEW c \in Sweepers, sweep[c].pc = "complete",
                      attempts'[sweep[c].version].state = "cleaning",
                      attempts'[sweep[c].version].owner = c
               PROVE  stored'[sweep[c].version] = {} /\ ~Catalogued(sweep[c].version)'
    BY <1>1 DEF CleanedBeforeComplete, OwnedBy, Catalogued, FindVersion
  <2> DEFINE w == sweep[c].version
  <2>1. w \in Versions
    BY <1>1
  <2>3. OwnedBy(w, "cleaning", c)
    BY <1>0, <2>1, PublisherRows DEF OwnedBy, NoRow
  <2>4. stored[w] = {} /\ ~Catalogued(w)
    BY <2>3 DEF StagingInv, CleanedBeforeComplete
  <2>5. ~(At(p, "upsert") /\ w = v)
    BY <2>3, <2>4 DEF StagingInv, PublishKeepsRow, Covered, LeasedPublish, At, OwnedBy
  <2>6. QED
    BY <1>0, <1>1, <1>2, <1>3, <2>1, <2>3, <2>4, <2>5, PublisherRecords
<1>11. ForgetsPublished'
  <2> SUFFICES ASSUME NEW q \in Publishers, pub'[q].pc \in {"forget", "forgetExisting"}
               PROVE  Catalogued(pub[q].version)'
    BY <1>1 DEF ForgetsPublished, Catalogued, FindVersion
  <2>1. CASE q = p
    BY <1>0, <1>1, <2>1, PublisherMoves DEF Catalogued, FindVersion
  <2>2. CASE q # p
    BY <1>1, <1>2, <2>2 DEF StagingInv, ForgetsPublished
  <2>3. QED
    BY <2>1, <2>2
<1>12. QED
  BY <1>0, <1>4, <1>5, <1>6, <1>7, <1>8a, <1>8b, <1>9, <1>10, <1>11 DEF StagingInv

\* A sweeper step preserves the invariant.
LEMMA SweeperKeepsInv ==
    ASSUME StagingInv, NEW c \in Sweepers, SweeperStep(c) \/ SweepCrash(c)
    PROVE  StagingInv'
<1>0. TypeOK /\ TypeOK'
  BY TypeSweeper DEF StagingInv
<1>1. /\ now' = now /\ pub' = pub /\ catalog' = catalog
      /\ \A d \in Sweepers : d # c => sweep'[d] = sweep[d]
      /\ \A q \in Publishers : pub[q].version \in Versions /\ pub[q].readAt \in Nat
      /\ \A d \in Sweepers : /\ sweep[d].version \in Versions /\ sweep[d].readAt \in Nat
                             /\ sweep'[d].version \in Versions
      /\ now \in Nat
  BY <1>0, SweeperFrame DEF TypeOK, Publisher, Sweeper
<1>2. \A w : Catalogued(w)' <=> Catalogued(w)
  BY <1>1 DEF Catalogued, FindVersion
\* A delete only hits an unpublished version whose row the sweeper owns.
<1>3. sweep[c].pc = "delete" => /\ ~Catalogued(sweep[c].version)
                                /\ OwnedBy(sweep[c].version, "cleaning", c)
  BY DEF StagingInv, SweepsUnpublished, SweepHoldsRow, LeasedSweep
\* No sweeper claims a row whose holder is within its stall bound.
<1>4. \A d \in Sweepers : \A w \in Versions :
        /\ sweep[d].pc \in LeasedSweep /\ w = sweep[d].version
        /\ OwnedBy(w, "cleaning", d)
        /\ attempts[w].expires = sweep[d].readAt + CleanupLease
        => ~Eligible(w, now, Grace)
  BY <1>1, ConstantsAssumption, StallAssumption
     DEF StagingInv, SweepHoldsRow, Eligible, OwnedBy
\* Nor one that covers a write.
<1>5. ASSUME NEW w \in Versions, NEW at \in Nat, Covered(w, at), ~Catalogued(w)
      PROVE  ~Eligible(w, now, Grace)
  <2>1. attempts[w].last \in Nat
    BY <1>0 DEF TypeOK, Row
  <2>2. now <= at + PublishStall /\ attempts[w].last >= at
    BY <1>5 DEF Covered
  <2>3. ~(attempts[w].last + Grace <= now)
    BY <1>1, <2>1, <2>2, ConstantsAssumption, StallAssumption
  <2>4. QED
    BY <2>3 DEF Eligible
<1>6. PublishedComplete'
  <2> SUFFICES ASSUME NEW w \in Versions, Catalogued(w) PROVE Intact(w)'
    BY <1>2 DEF PublishedComplete
  <2>1. QED
    BY <1>0, <1>3, SweeperFrame DEF StagingInv, PublishedComplete, Intact
<1>7. OrphansTracked'
  <2> SUFFICES ASSUME NEW w \in Versions, stored'[w] # {}, ~Catalogued(w)
               PROVE  attempts'[w].state # "absent"
    BY <1>2 DEF OrphansTracked, Tracked
  <2>1. CASE sweep[c].pc = "delete" /\ w = sweep[c].version
    <3>1. attempts[w].state = "cleaning"
      BY <1>3, <2>1 DEF OwnedBy
    <3>2. QED
      BY <1>0, <2>1, <3>1, SweeperRows
  <2>2. CASE stored'[w] = stored[w]
    <3>1. attempts[w].state # "absent"
      BY <2>2 DEF StagingInv, OrphansTracked, Tracked
    <3>2. CASE /\ w = sweep[c].version /\ sweep[c].pc = "complete"
               /\ OwnedBy(w, "cleaning", c)
      BY <2>2, <3>2 DEF StagingInv, CleanedBeforeComplete
    <3>3. QED
      BY <1>0, <3>1, <3>2, SweeperRows
  <2>3. QED
    BY <1>0, <2>1, <2>2, SweeperFrame
\* A row that another sweeper holds and nobody may claim is not touched.
<1>8. ASSUME NEW d \in Sweepers, d # c, OwnedBy(sweep[d].version, "cleaning", d),
             ~Eligible(sweep[d].version, now, Grace), ~Catalogued(sweep[d].version)
                \/ sweep[d].version # sweep[c].version \/ sweep[c].pc # "check"
      PROVE  attempts'[sweep[d].version] = attempts[sweep[d].version]
  BY <1>0, <1>1, <1>8, SweeperRows DEF OwnedBy
<1>9. SweepHoldsRow'
  <2> SUFFICES ASSUME NEW d \in Sweepers, sweep'[d].pc \in LeasedSweep
               PROVE  LET w == sweep'[d].version
                          at == sweep'[d].readAt
                      IN  /\ at <= now /\ now <= at + SweepStall
                          /\ \/ sweep'[d].pc = "check" /\ Catalogued(w)
                             \/ /\ attempts'[w].state = "cleaning" /\ attempts'[w].owner = d
                                /\ attempts'[w].expires = at + CleanupLease
    BY <1>1 DEF SweepHoldsRow, OwnedBy, Catalogued, FindVersion
  <2>1. CASE d = c
    <3>1. CASE sweep'[c].pc = "check"
      BY <1>0, <1>1, <2>1, <3>1, SweeperMoves, ConstantsAssumption
    <3>2. CASE sweep'[c].pc \in {"count", "delete"}
      <4>1. /\ attempts' = attempts /\ sweep[c].pc \in LeasedSweep
            /\ sweep'[c].version = sweep[c].version /\ sweep'[c].readAt = sweep[c].readAt
            /\ sweep[c].pc = "check" => ~Catalogued(sweep[c].version)
        BY <1>0, <3>2, SweeperMoves DEF LeasedSweep
      <4>2. QED
        BY <2>1, <4>1 DEF StagingInv, SweepHoldsRow, OwnedBy
    <3>3. QED
      BY <2>1, <3>1, <3>2 DEF LeasedSweep
  <2>2. CASE d # c
    <3> DEFINE w == sweep[d].version
    <3>1. sweep'[d] = sweep[d]
      BY <1>1, <2>2
    <3>2. /\ sweep[d].readAt <= now /\ now <= sweep[d].readAt + SweepStall
          /\ \/ sweep[d].pc = "check" /\ Catalogued(w)
             \/ OwnedBy(w, "cleaning", d) /\ attempts[w].expires = sweep[d].readAt + CleanupLease
      BY <3>1 DEF StagingInv, SweepHoldsRow
    <3>3. CASE sweep[d].pc = "check" /\ Catalogued(w)
      BY <3>1, <3>2, <3>3
    <3>4. CASE /\ ~(sweep[d].pc = "check" /\ Catalogued(w))
               /\ OwnedBy(w, "cleaning", d)
               /\ attempts[w].expires = sweep[d].readAt + CleanupLease
      <4>1. ~Catalogued(w)
        BY <3>1, <3>4 DEF StagingInv, SweepsUnpublished, LeasedSweep
      <4>2. ~Eligible(w, now, Grace)
        BY <1>1, <1>4, <3>1, <3>4
      <4>3. attempts'[w] = attempts[w]
        BY <1>8, <2>2, <3>4, <4>1, <4>2
      <4>4. QED
        BY <3>1, <3>2, <3>4, <4>3 DEF OwnedBy
    <3>5. QED
      BY <3>2, <3>3, <3>4
  <2>3. QED
    BY <2>1, <2>2
<1>10. SweepsUnpublished'
  <2> SUFFICES ASSUME NEW d \in Sweepers, sweep'[d].pc \in {"count", "delete"}
               PROVE  ~Catalogued(sweep'[d].version)
    BY <1>1 DEF SweepsUnpublished, Catalogued, FindVersion
  <2>1. CASE d = c
    BY <1>0, <2>1, SweeperMoves DEF StagingInv, SweepsUnpublished
  <2>2. CASE d # c
    BY <1>1, <2>2 DEF StagingInv, SweepsUnpublished
  <2>3. QED
    BY <2>1, <2>2
<1>11. ASSUME NEW w \in Versions, NEW at \in Nat, Covered(w, at) PROVE Covered(w, at)'
  <2>1. CASE Catalogued(w)
    BY <1>1, <1>2, <1>11, <2>1 DEF Covered
  <2>2. CASE ~Catalogued(w)
    <3>1. attempts[w].state \in {"pending", "publishing"} /\ attempts[w].last >= at
      BY <1>11, <2>2 DEF Covered
    <3>2. ~Eligible(w, now, Grace)
      BY <1>5, <1>11, <2>2
    <3>3. attempts'[w] = attempts[w]
      BY <1>0, <2>2, <3>1, <3>2, SweeperRows DEF OwnedBy
    <3>4. QED
      BY <1>1, <1>11, <3>1, <3>3 DEF Covered
  <2>3. QED
    BY <2>1, <2>2
<1>11a. PublishKeepsRow'
  <2> SUFFICES ASSUME NEW q \in Publishers, pub[q].pc \in LeasedPublish
               PROVE  Covered(pub[q].version, pub[q].readAt)'
    BY <1>1 DEF PublishKeepsRow, Covered, Catalogued, FindVersion
  <2>1. Covered(pub[q].version, pub[q].readAt)
    BY DEF StagingInv, PublishKeepsRow
  <2>2. QED
    BY <1>1, <1>11, <2>1
<1>11b. LateUpsertsCovered'
  <2> SUFFICES ASSUME NEW r \in late', r.write = "upsert" PROVE Covered(r.version, r.at)'
    BY DEF LateUpsertsCovered, Covered, Catalogued, FindVersion
  <2>1. r.version \in Versions /\ r.at \in Nat
    BY <1>0 DEF TypeOK, WriteRequests, UpsertRequests, RetainRequests, ReleaseRequests, DeleteRequests
  <2>2. Covered(r.version, r.at)
    BY <1>0, SweeperFrame DEF StagingInv, LateUpsertsCovered
  <2>3. QED
    BY <1>11, <2>1, <2>2
<1>12. VerifiedStaysStaged'
  <2> SUFFICES ASSUME NEW q \in Publishers, pub[q].missing = {}
               PROVE  /\ pub[q].pc \in {"reretain", "commit"} => Intact(pub[q].version)'
                      /\ (/\ pub[q].pc = "renew"
                          /\ attempts'[pub[q].version].state = "publishing"
                          /\ attempts'[pub[q].version].owner = q)
                           => Intact(pub[q].version)'
    BY <1>1 DEF StagingInv, VerifiedStaysStaged, At, OwnedBy, Intact
  <2> DEFINE w == pub[q].version
  <2>1. CASE pub[q].pc \in {"reretain", "commit"}
    <3>1. Catalogued(w) \/ attempts[w].state \in {"pending", "publishing"}
      BY <2>1 DEF StagingInv, PublishKeepsRow, Covered, LeasedPublish
    <3>2. Intact(w)
      BY <2>1 DEF StagingInv, VerifiedStaysStaged
    <3>3. QED
      BY <1>0, <1>1, <1>3, <2>1, <3>1, <3>2, SweeperFrame DEF OwnedBy, Intact
  <2>2. CASE /\ pub[q].pc = "renew"
             /\ attempts'[w].state = "publishing" /\ attempts'[w].owner = q
    <3>1. q # c /\ q # NoOwner
      BY ConstantsAssumption
    <3>2. OwnedBy(w, "publishing", q)
      <4>1. attempts'[w] = attempts[w]
        BY <1>0, <1>1, <2>2, <3>1, SweeperRows DEF OwnedBy, NoRow
      <4>2. QED
        BY <2>2, <4>1 DEF OwnedBy
    <3>3. Intact(w)
      BY <2>2, <3>2 DEF StagingInv, VerifiedStaysStaged, At
    <3>4. QED
      BY <1>0, <1>1, <1>3, <3>2, <3>3, SweeperFrame DEF OwnedBy, Intact
  <2>3. QED
    BY <2>1, <2>2
<1>13. CleanedBeforeComplete'
  <2> SUFFICES ASSUME NEW d \in Sweepers, sweep'[d].pc = "complete",
                      attempts'[sweep'[d].version].state = "cleaning",
                      attempts'[sweep'[d].version].owner = d
               PROVE  stored'[sweep'[d].version] = {} /\ ~Catalogued(sweep'[d].version)
    BY <1>1 DEF CleanedBeforeComplete, OwnedBy, Catalogued, FindVersion
  <2>1. CASE d = c
    BY <1>0, <1>3, <2>1, SweeperMoves
  <2>2. CASE d # c
    <3> DEFINE w == sweep[d].version
    <3>1. sweep'[d] = sweep[d] /\ w \in Versions
      BY <1>1, <2>2
    <3>2. d # NoOwner
      BY ConstantsAssumption
    <3>3. OwnedBy(w, "cleaning", d)
      BY <1>0, <2>2, <3>1, <3>2, SweeperRows DEF OwnedBy, NoRow
    <3>4. stored[w] = {} /\ ~Catalogued(w)
      BY <3>1, <3>3 DEF StagingInv, CleanedBeforeComplete
    <3>5. stored'[w] = stored[w]
      BY <1>0, <1>3, <2>2, <3>1, <3>3, SweeperFrame DEF OwnedBy
    <3>6. QED
      BY <3>1, <3>4, <3>5
  <2>3. QED
    BY <2>1, <2>2
<1>14. ForgetsPublished'
  BY <1>1 DEF StagingInv, ForgetsPublished, Catalogued, FindVersion
<1>15. QED
  BY <1>0, <1>6, <1>7, <1>9, <1>10, <1>11a, <1>11b, <1>12, <1>13, <1>14 DEF StagingInv

\* Whatever late request the server carries out, the invariant survives: a
\* late upsert is covered, and a late delete strikes what it hits.
LEMMA ServerKeepsInv ==
    ASSUME StagingInv, NEW r \in late, Server(r)
    PROVE  StagingInv'
<1>0. TypeOK /\ TypeOK' /\ UNCHANGED <<attempts, catalog, current, now, pub, sweep>>
  BY TypeServer DEF StagingInv
<1>1. r \in WriteRequests /\ late' \subseteq late
  BY <1>0 DEF TypeOK, Server, LateWrite, LateEnd
<1>2. \A w \in Versions :
        \/ stored'[w] = stored[w]
        \/ w = r.version /\ r.write = "upsert" /\ stored[w] \subseteq stored'[w]
        \/ w = r.version /\ r.write = "delete" /\ stored'[w] = {}
  BY <1>0, <1>1, RequestEffect DEF Server, LateWrite, LateEnd
<1>3. ASSUME NEW w \in Versions, Intact(w) PROVE Intact(w)'
  <2>1. stored'[w] \subseteq Chunks
    BY <1>0 DEF TypeOK
  <2>2. CASE LateEnd(r)
    BY <1>3, <2>2 DEF LateEnd, Intact
  <2>3. CASE LateWrite(r)
    <3>1. struck \subseteq struck' /\ (r.write = "delete" /\ stored[r.version] # {} => r.version \in struck')
      BY <2>3 DEF LateWrite
    <3>2. QED
      BY <1>2, <1>3, <2>1, <3>1 DEF Intact
  <2>4. QED
    BY <2>2, <2>3 DEF Server
<1>4. r.write = "upsert" => Covered(r.version, r.at)
  BY DEF StagingInv, LateUpsertsCovered
<1>5. \A w : Catalogued(w)' <=> Catalogued(w)
  BY <1>0 DEF Catalogued, FindVersion
<1>6. PublishedComplete'
  BY <1>3, <1>5 DEF StagingInv, PublishedComplete
<1>7. OrphansTracked'
  <2> SUFFICES ASSUME NEW w \in Versions, stored'[w] # {}, ~Catalogued(w) PROVE Tracked(w)
    BY <1>0, <1>5 DEF OrphansTracked, Tracked
  <2>1. QED
    BY <1>2, <1>4 DEF StagingInv, OrphansTracked, Tracked, Covered
<1>8. SweepHoldsRow' /\ SweepsUnpublished' /\ PublishKeepsRow' /\ LateUpsertsCovered' /\ ForgetsPublished'
  BY <1>0, <1>1 DEF StagingInv, SweepHoldsRow, SweepsUnpublished, PublishKeepsRow, LateUpsertsCovered,
     ForgetsPublished, Covered, OwnedBy, Catalogued, FindVersion
<1>9. VerifiedStaysStaged'
  <2>1. \A q \in Publishers : pub[q].version \in Versions
    BY <1>0 DEF TypeOK, Publisher
  <2>2. \A q \in Publishers : Intact(pub[q].version) => stored'[pub[q].version] = Chunks \/ pub[q].version \in struck'
    BY <1>3, <2>1 DEF Intact
  <2>3. QED
    BY <1>0, <2>2 DEF StagingInv, VerifiedStaysStaged, At, OwnedBy, Intact
<1>10. CleanedBeforeComplete'
  <2> SUFFICES ASSUME NEW d \in Sweepers, sweep[d].pc = "complete", OwnedBy(sweep[d].version, "cleaning", d)
               PROVE  stored'[sweep[d].version] = {} /\ ~Catalogued(sweep[d].version)
    BY <1>0, <1>5 DEF CleanedBeforeComplete, OwnedBy, Catalogued, FindVersion
  <2>1. stored[sweep[d].version] = {} /\ ~Catalogued(sweep[d].version)
    BY DEF StagingInv, CleanedBeforeComplete
  <2>2. sweep[d].version \in Versions
    BY <1>0 DEF TypeOK, Sweeper
  <2>3. ~(r.write = "upsert" /\ r.version = sweep[d].version)
    BY <1>4, <2>1 DEF Covered, OwnedBy
  <2>4. QED
    BY <1>2, <2>1, <2>2, <2>3
<1>11. QED
  BY <1>0, <1>6, <1>7, <1>8, <1>9, <1>10 DEF StagingInv

\* The clock only moves while nobody exceeds a stall bound.
LEMMA TickKeepsInv == StagingInv /\ Tick => StagingInv'
<1> SUFFICES ASSUME StagingInv, Tick PROVE StagingInv'
  OBVIOUS
<1> USE DEF Tick, storeVars
<1>0. TypeOK /\ TypeOK' /\ now \in Nat /\ now' = now + 1
  BY DEF StagingInv, TypeOK
<1>1. SweepHoldsRow'
  <2>1. \A c \in Sweepers : sweep[c].readAt \in Nat
    BY <1>0 DEF TypeOK, Sweeper
  <2>2. QED
    BY <1>0, <2>1, ConstantsAssumption
       DEF StagingInv, SweepHoldsRow, OwnedBy, Catalogued, FindVersion
<1>2. PublishKeepsRow'
  <2>1. \A p \in Publishers : pub[p].readAt \in Nat
    BY <1>0 DEF TypeOK, Publisher
  <2>2. QED
    BY <1>0, <2>1, ConstantsAssumption
       DEF StagingInv, PublishKeepsRow, Covered, Catalogued, FindVersion
<1>3. LateUpsertsCovered'
  <2>1. \A r \in late : r.write = "upsert" => r.at \in Nat
    BY <1>0 DEF TypeOK, WriteRequests, UpsertRequests, RetainRequests, ReleaseRequests, DeleteRequests
  <2>2. QED
    BY <1>0, <2>1, ConstantsAssumption
       DEF StagingInv, LateUpsertsCovered, Covered, Catalogued, FindVersion
<1>4. QED
  BY <1>0, <1>1, <1>2, <1>3 DEF StagingInv, PublishedComplete, OrphansTracked, Tracked,
     SweepsUnpublished, VerifiedStaysStaged, CleanedBeforeComplete, ForgetsPublished,
     At, OwnedBy, Catalogued, FindVersion, Intact

\* The invariant holds initially.
LEMMA InitInv == Init => StagingInv
<1> SUFFICES ASSUME Init PROVE StagingInv
  OBVIOUS
<1>1. TypeOK
  BY TypeInit
<1>2. \A w : ~Catalogued(w)
  BY DEF Init, CatalogInit, Catalogued, FindVersion
<1>3. \A p \in Publishers : pub[p].pc = "find"
  BY DEF Init
<1>4. \A c \in Sweepers : sweep[c].pc = "idle"
  BY DEF Init
<1>5. PublishedComplete /\ OrphansTracked
  BY <1>2 DEF Init, VectorInit, PublishedComplete, OrphansTracked
<1>6. SweepHoldsRow /\ SweepsUnpublished /\ CleanedBeforeComplete
  BY <1>4 DEF SweepHoldsRow, SweepsUnpublished, CleanedBeforeComplete, LeasedSweep
<1>7. PublishKeepsRow /\ LateUpsertsCovered /\ VerifiedStaysStaged /\ ForgetsPublished
  BY <1>3 DEF Init, VectorInit, PublishKeepsRow, LateUpsertsCovered, VerifiedStaysStaged,
     ForgetsPublished, LeasedPublish, At
<1>8. QED
  BY <1>1, <1>5, <1>6, <1>7 DEF StagingInv

\* Every step preserves the invariant.
LEMMA NextInv == StagingInv /\ [Next]_vars => StagingInv'
<1> SUFFICES ASSUME StagingInv, [Next]_vars PROVE StagingInv'
  OBVIOUS
<1>1. CASE UNCHANGED vars
  BY <1>1 DEF vars, StagingInv, TypeOK, PublishedComplete, OrphansTracked, Tracked,
     SweepHoldsRow, PublishKeepsRow, LateUpsertsCovered, Covered, Intact,
     SweepsUnpublished, VerifiedStaysStaged, CleanedBeforeComplete, ForgetsPublished,
     At, OwnedBy, Catalogued, FindVersion
<1>2. QED
  BY <1>1, PublisherKeepsInv, SweeperKeepsInv, ServerKeepsInv, TickKeepsInv DEF Next

\* The conjunction of the type invariant, the two safety properties and the
\* facts that make them inductive holds in every reachable state.
THEOREM StagingInvariant == Spec => []StagingInv
BY InitInv, NextInv, PTL DEF Spec

\* A catalogued version never misses a record, whatever publishers, sweepers,
\* failed and late requests do to each other, unless a late delete has hit it
\* since it was last verified (publish, execute, deleteVersion, #retryTransient).
THEOREM PublishedAlwaysComplete == Spec => []PublishedComplete
<1>1. StagingInv => PublishedComplete
  BY DEF StagingInv
<1>2. QED
  BY <1>1, StagingInvariant, PTL

\* Records of an unpublished version are always covered by a staging row.
THEOREM OrphansAlwaysTracked == Spec => []OrphansTracked
<1>1. StagingInv => OrphansTracked
  BY DEF StagingInv
<1>2. QED
  BY <1>1, StagingInvariant, PTL

\* Deleting and writing or committing one version exclude each other.
THEOREM CleanupAlwaysExcludesWriters == Spec => []CleanupExcludesWriters
<1>1. StagingInv => CleanupExcludesWriters
  BY DEF StagingInv, CleanupExcludesWriters, SweepsUnpublished, SweepHoldsRow,
     PublishKeepsRow, LateUpsertsCovered, Covered, LeasedSweep, OwnedBy
<1>2. QED
  BY <1>1, StagingInvariant, PTL

-----------------------------------------------------------------------------
(* Refinement                                                              *)

\* A step that leaves the catalog alone leaves the searchable versions alone.
LEMMA SearchableIsCatalogued ==
    StagingInv => {v \in Versions : Catalogued(v) /\ Intact(v)}
                    = {v \in Versions : Catalogued(v)}
BY DEF StagingInv, PublishedComplete

\* Every step of publishers, sweepers and clock publishes one whole version
\* or is invisible to readers.
LEMMA StepRefines ==
    StagingInv /\ StagingInv' /\ [Next]_vars
      => [Promise!Next]_<<{v \in Versions : Catalogued(v) /\ Intact(v)}, current>>
<1> SUFFICES ASSUME StagingInv, StagingInv', [Next]_vars
             PROVE  [Promise!Next]_<<{v \in Versions : Catalogued(v) /\ Intact(v)},
                                     current>>
  OBVIOUS
<1> DEFINE S == {v \in Versions : Catalogued(v) /\ Intact(v)}
<1>1. S = {v \in Versions : Catalogued(v)}
  BY SearchableIsCatalogued
<1>2. S' = {v \in Versions : Catalogued(v)'}
  BY DEF StagingInv, PublishedComplete, Catalogued, FindVersion, Intact
<1>3. CASE catalog' = catalog /\ current' = current
  <2>1. S' = S
    BY <1>1, <1>2, <1>3 DEF Catalogued, FindVersion
  <2>2. QED
    BY <1>3, <2>1
<1>4. ASSUME NEW w \in Versions, ~Catalogued(w), current' = w,
             \A u \in Versions : Catalogued(u)' <=> (Catalogued(u) \/ u = w)
      PROVE  Promise!Next
  <2>1. w \notin S /\ S' = S \cup {w}
    BY <1>1, <1>2, <1>4
  <2>2. QED
    BY <1>4, <2>1 DEF Promise!Next, Promise!Publish
<1>5. ASSUME NEW p \in Publishers, PublisherStep(p) \/ PublishCrash(p)
      PROVE  Promise!Next \/ (catalog' = catalog /\ current' = current)
  <2>1. TypeOK /\ pub[p].version \in Versions
    BY DEF StagingInv, TypeOK, Publisher
  <2>2. QED
    BY <1>4, <1>5, <2>1, PublisherCatalog
<1>6. ASSUME NEW c \in Sweepers, SweeperStep(c) \/ SweepCrash(c)
      PROVE  catalog' = catalog /\ current' = current
  BY <1>6, SweeperFrame DEF StagingInv
<1>7. CASE Tick \/ (\E r \in late : Server(r)) \/ UNCHANGED vars
  BY <1>3, <1>7 DEF Tick, Server, storeVars, catalogVars, vars
<1>8. QED
  BY <1>3, <1>5, <1>6, <1>7 DEF Next

\* The staged protocol implements the promise to readers (PublishedIndex): the
\* commit is the only step that makes a version searchable and head, and a late
\* delete the only one that takes records of a searchable version (publish,
\* commitCurrent, deleteVersion).
THEOREM StagingRefinesPublishedIndex == Spec => PublishesWhole
<1>1. Init => Promise!Init
  BY DEF Init, CatalogInit, Promise!Init, Catalogued, FindVersion
<1>2. QED
  BY <1>1, StepRefines, StagingInvariant, PTL DEF Spec, PublishesWhole, Promise!Spec

-----------------------------------------------------------------------------
(* What a caller is told                                                   *)

\* What is in the catalog about q's version is what q is about to report.
AsRequested(q) ==
    /\ q.pc \in {"forget", "forgetExisting"} =>
         \E row \in FindVersion(q.version) : row.scopes = q.scopes
    /\ q.pc = "forget" => FindVersion(q.version) = {Publication(q.version, q.publishedAt, q.scopes)}

\* Once a version is in the catalog its row stays what it is.
LEMMA RowsStay ==
    ASSUME TypeOK, [Next]_vars, NEW v, Catalogued(v)
    PROVE  FindVersion(v)' = FindVersion(v)
<1>1. CASE catalog' = catalog
  BY <1>1 DEF FindVersion
<1>2. ASSUME NEW p \in Publishers, PublishCommit(p) PROVE FindVersion(v)' = FindVersion(v)
  <2> DEFINE row == Publication(pub[p].version, pub[p].publishedAt, pub[p].scopes)
  <2>1. row.version = pub[p].version
    BY DEF Publication
  <2>2. \/ catalog' = catalog
        \/ ~Catalogued(row.version) /\ catalog' = catalog \cup {row}
    BY <1>2 DEF PublishCommit, CommitCurrent, catalogVars
  <2> HIDE DEF row
  <2>3. CASE ~Catalogued(row.version) /\ catalog' = catalog \cup {row}
    <3>1. row.version # v
      BY <2>3
    <3>2. QED
      BY <2>3, <3>1 DEF FindVersion
  <2>4. QED
    BY <1>1, <2>2, <2>3
<1>3. ASSUME NEW p \in Publishers, PublisherStep(p) \/ PublishCrash(p), ~PublishCommit(p)
      PROVE  catalog' = catalog
  BY <1>3 DEF PublisherStep, PublishCrash, PublishFind, PublishAcquire, PublishRetain,
     PublishList, PublishRenew, PublishReretain, PublishUpsert, PublishVerify,
     PublishFail, PublishForget, PublishAbandon, PublishRelease, storeVars, catalogVars
<1>4. QED
  BY <1>1, <1>2, <1>3, SweeperFrame DEF Next, Tick, Server, storeVars, vars, catalogVars

\* The publisher that moves either reports nothing yet or has just found, or made,
\* the row it reports.
LEMMA MoverReports ==
    ASSUME TypeOK, NEW p \in Publishers, PublisherStep(p) \/ PublishCrash(p), AsRequested(pub[p])
    PROVE  AsRequested(pub[p])'
<1> DEFINE old == pub[p]  new == pub'[p]
<1>1. pub \in [Publishers -> Publisher] /\ old \in Publisher
  BY DEF TypeOK
<1>2. CASE PublishFind(p)
  <2>1. CASE pub' = [pub EXCEPT ![p].pc = "forgetExisting"]
    <3>1. new.pc = "forgetExisting" /\ new.version = old.version /\ new.scopes = old.scopes
      BY <1>1, <2>1 DEF Publisher
    <3>2. catalog' = catalog /\ Catalogued(old.version) /\ MatchesRequested(old.version, old.scopes)
      <4>1. catalog' = catalog
        BY <1>2 DEF PublishFind, storeVars, catalogVars
      <4>2. ~Goto(p, "acquire") /\ ~Leave(p)
        BY <1>1, <3>1 DEF Goto, Leave, Publisher
      <4>3. QED
        BY <1>2, <4>1, <4>2, Zenon DEF PublishFind
    <3>3. \E row \in FindVersion(old.version) : row.scopes = old.scopes
      BY <3>2 DEF Catalogued, MatchesRequested
    <3>4. QED
      BY <3>1, <3>2, <3>3 DEF AsRequested, FindVersion
  <2>2. CASE new.pc \in {"acquire", "done"}
    BY <2>2 DEF AsRequested
  <2>3. CASE Goto(p, "acquire") \/ Leave(p)
    <3>1. new.pc \in {"acquire", "done"}
      BY <1>1, <2>3, ZenonT(60) DEF Goto, Leave, Publisher
    <3>2. QED
      BY <2>2, <3>1
  <2>4. QED
    BY <1>2, <2>1, <2>3 DEF PublishFind, Goto
<1>3. CASE PublishCommit(p)
  <2> DEFINE row == Publication(old.version, old.publishedAt, old.scopes)
  <2>1. CASE CommitCurrent(row) /\ Goto(p, "forget")
    <3>1. /\ new.pc = "forget" /\ new.version = old.version /\ new.scopes = old.scopes
          /\ new.publishedAt = old.publishedAt
      BY <1>1, <2>1 DEF Goto, Publisher
    <3>2. row.version = old.version /\ row.scopes = old.scopes
      BY DEF Publication
    <3>3. \/ FindVersion(old.version) = {row} /\ catalog' = catalog
          \/ FindVersion(old.version) = {} /\ catalog' = catalog \cup {row}
      BY <2>1, <3>2 DEF CommitCurrent, CommitConflicts, Catalogued
    <3> HIDE DEF row
    <3>4. FindVersion(old.version)' = {row}
      <4>1. {r \in catalog' : r.version = old.version} = {row}
        BY <3>2, <3>3 DEF FindVersion
      <4>2. {r \in catalog' : r.version = new.version} = {row}
        BY <3>1, <4>1
      <4>3. QED
        BY <3>1, <4>2 DEF FindVersion
    <3>5. QED
      BY <3>1, <3>2, <3>4 DEF AsRequested, FindVersion, row
  <2>2. CASE new.pc = "abandon"
    BY <2>2 DEF AsRequested
  <2>3. QED
    BY <1>1, <1>3, <2>1, <2>2 DEF PublishCommit, Goto, Publisher
<1>4. CASE ~PublishFind(p) /\ ~PublishCommit(p)
  <2>1. ASSUME Leave(p) \/ (\E step \in {"list", "commit", "upsert", "abandon", "renew", "release"} : Goto(p, step))
        PROVE  new.pc \notin {"forget", "forgetExisting"}
    BY <1>1, <2>1, ZenonT(60) DEF Leave, Goto, Publisher
  <2>2. ASSUME PublishAcquire(p) \/ PublishRetain(p) \/ PublishList(p) \/ PublishRenew(p)
               \/ PublishReretain(p) \/ PublishUpsert(p)
        PROVE  new.pc \notin {"forget", "forgetExisting"}
    <3>1. CASE PublishAcquire(p)
      BY <1>1, <2>1, <3>1, ZenonT(60) DEF PublishAcquire, Publisher
    <3>2. CASE PublishRetain(p) \/ PublishReretain(p)
      BY <2>1, <3>2 DEF PublishRetain, PublishReretain
    <3>3. CASE PublishList(p)
      BY <1>1, <3>3 DEF PublishList, Publisher
    <3>4. CASE PublishRenew(p)
      BY <1>1, <2>1, <3>4, ZenonT(60) DEF PublishRenew, Publisher
    <3>5. CASE PublishUpsert(p)
      BY <1>1, <3>5 DEF PublishUpsert, Publisher
    <3>6. QED
      BY <2>2, <3>1, <3>2, <3>3, <3>4, <3>5
  <2>3. ASSUME PublishVerify(p) \/ PublishFail(p) \/ PublishForget(p) \/ PublishAbandon(p)
               \/ PublishRelease(p) \/ PublishCrash(p)
        PROVE  new.pc \notin {"forget", "forgetExisting"}
    BY <2>1, <2>3 DEF PublishVerify, PublishFail, PublishForget, PublishAbandon,
       PublishRelease, PublishCrash
  <2>4. QED
    BY <1>4, <2>2, <2>3 DEF PublisherStep, AsRequested
<1>5. QED
  BY <1>2, <1>3, <1>4

\* A publication that is reported as published is in the catalog the way it was
\* requested, whatever other publishers of the same version commit in between
\* (publish, matchesRequestedPublication, commitCurrent).
THEOREM AcknowledgedAlwaysAsRequested == Spec => []AcknowledgedAsRequested
<1> DEFINE Told == \A p \in Publishers : AsRequested(pub[p])
<1>1. Init => Told
  BY DEF Init, AsRequested
<1>2. ASSUME TypeOK, Told, [Next]_vars PROVE Told'
  <2> SUFFICES ASSUME NEW q \in Publishers PROVE AsRequested(pub[q])'
    OBVIOUS
  <2>1. AsRequested(pub[q])
    BY <1>2
  <2>2. CASE pub'[q] = pub[q]
    <3>1. pub[q].pc \in {"forget", "forgetExisting"} => FindVersion(pub[q].version)' = FindVersion(pub[q].version)
      <4>1. pub[q].pc \in {"forget", "forgetExisting"} => Catalogued(pub[q].version)
        BY <2>1 DEF AsRequested, Catalogued
      <4>2. {r \in catalog' : r.version = pub'[q].version} = {r \in catalog' : r.version = pub[q].version}
        BY <2>2
      <4>3. ASSUME NEW v, Catalogued(v) PROVE {r \in catalog' : r.version = v} = FindVersion(v)
        BY <1>2, <4>3, RowsStay DEF FindVersion
      <4>4. QED
        BY <4>1, <4>2, <4>3 DEF FindVersion
    <3>2. QED
      BY <2>1, <2>2, <3>1 DEF AsRequested
  <2>3. ASSUME NEW p \in Publishers, PublisherStep(p) \/ PublishCrash(p), q # p PROVE pub'[q] = pub[q]
    BY <1>2, <2>3, PublisherFrame
  <2>4. ASSUME NEW c \in Sweepers, SweeperStep(c) \/ SweepCrash(c) PROVE pub' = pub
    BY <1>2, <2>4, SweeperFrame
  <2>5. QED
    BY <1>2, <2>1, <2>2, <2>3, <2>4, MoverReports DEF Next, Tick, Server, vars
<1>3. Told => AcknowledgedAsRequested
  BY DEF AsRequested, AcknowledgedAsRequested, At
<1>4. QED
  BY <1>1, <1>2, <1>3, TypeCorrect, PTL DEF Spec
=============================================================================
