------------------------ MODULE PublicationDelivery ------------------------
(***************************************************************************)
(* Delivery of ready publications to Registry: the delivery columns of     *)
(* ingestion_publications (sqlite-ingestion-publication-store.ts) and the  *)
(* reconciler every daemon runs in its maintenance cycle                   *)
(* (reconcile-publication-ready.ts), for the publications of one source.   *)
(*                                                                         *)
(* Registry is PublicationConsumption, what RegistryIntake is shown to     *)
(* implement while no two processes are inside it at once; couriers may    *)
(* take turns at every step.  An `ingest` command has Registry take in     *)
(* what it published without looking at the delivery columns.              *)
(*                                                                         *)
(* Time is abstract: a lease may lapse and a delayed row may become due at *)
(* any moment, so a courier can be overtaken at every step; how often a    *)
(* courier outlives its lease is bounded, like its failures.  produced_at  *)
(* is a clock reading and need not follow the chain.                       *)
(***************************************************************************)
EXTENDS Integers, SequencesExt, FiniteSets

CONSTANTS Units,            \* knowledge units of the source
          Couriers,         \* daemons; each has an owner id of its own
          NoOwner,          \* a row without an owner
          BatchSize,        \* batchSize
          MaxPublications,  \* bound on the chain
          MaxFaults         \* bound on failed notifications, stops and lapsed leases

ASSUME DeliveryAssumption ==
    /\ NoOwner \notin Couriers
    /\ BatchSize \in Nat \ {0} /\ MaxPublications \in Nat /\ MaxFaults \in Nat

VARIABLES chain, consumed, added,   \* publications and Registry
          outbox,       \* publication -> delivery columns
          courier,      \* courier -> locals of reconcile()
          faults

deliveryVars == <<chain, consumed, added, outbox, courier, faults>>
registryVars == <<chain, consumed, added>>

Registry == INSTANCE PublicationConsumption

Publications == DOMAIN outbox

\* pending rows are due or delayed, delivering rows have an owner whose lease
\* may have lapsed; `ripe` says that the date of the state has passed.
Row == [state : {"pending", "delivering", "delivered"}, owner : Couriers \cup {NoOwner},
        ripe : BOOLEAN, producedAt : 1..MaxPublications]

Idle == [pc |-> "idle", batch |-> <<>>]

DeliveryInit ==
    /\ Registry!Init
    /\ outbox = <<>>
    /\ courier = [d \in Couriers |-> Idle]
    /\ faults = 0

\* commitReady: the publication and its row, due at once.
CommitReady ==
    /\ Len(chain) < MaxPublications
    /\ Registry!Extend
    /\ \E at \in 1..MaxPublications :
         /\ \A p \in Publications : outbox[p].producedAt # at
         /\ outbox' = Append(outbox, [state |-> "pending", owner |-> NoOwner,
                                      ripe |-> TRUE, producedAt |-> at])
    /\ UNCHANGED <<courier, faults>>

\* The claim an `ingest` command makes itself.
IngestClaim == Registry!Consume /\ UNCHANGED <<outbox, courier, faults>>

-----------------------------------------------------------------------------
(* Delivery columns                                                        *)

\* The rows claimReadyBatch selects from: due, or in delivery under a lease
\* that has lapsed.
Claimable == {p \in Publications : outbox[p].state # "delivered" /\ outbox[p].ripe}

Sooner(p, q) == outbox[p].producedAt < outbox[q].producedAt

\* The batch the query returns: the first BatchSize of them, oldest first.
ReadyBatch(batch) ==
    /\ \A i, j \in DOMAIN batch : i < j => Sooner(batch[i], batch[j])
    /\ \A p \in Claimable \ ToSet(batch), i \in DOMAIN batch : Sooner(batch[i], p)
    /\ Len(batch) = BatchSize \/ Claimable \subseteq ToSet(batch)

\* A row under the claim of d, with a new lease.
Claimed(row, d) == [row EXCEPT !.state = "delivering", !.owner = d, !.ripe = FALSE]

\* Mutation of Holds: the row is looked up by its id alone.
HoldsById(d, p) == Contains(courier[d].batch, p)

\* The condition of completeReadyDelivery and rescheduleReadyDelivery.
Holds(d, p) == outbox[p].state = "delivering" /\ outbox[p].owner = d

\* Somebody is working on the row.
InHand(p) == \E d \in Couriers : Holds(d, p) /\ Contains(courier[d].batch, p)

\* Time passes for one row that is delayed, or claimed by a courier that gave
\* it up.
Ripen(p) ==
    /\ outbox[p].state # "delivered" /\ ~outbox[p].ripe /\ ~InHand(p)
    /\ outbox' = [outbox EXCEPT ![p].ripe = TRUE]
    /\ UNCHANGED <<registryVars, courier, faults>>

\* A courier is so slow that its lease lapses.
Lapse(p) ==
    /\ InHand(p) /\ ~outbox[p].ripe
    /\ faults < MaxFaults
    /\ faults' = faults + 1
    /\ outbox' = [outbox EXCEPT ![p].ripe = TRUE]
    /\ UNCHANGED <<registryVars, courier>>

-----------------------------------------------------------------------------
(* reconcile()                                                             *)

\* claimReadyBatch
ClaimReadyBatch(d) ==
    /\ courier[d].pc = "idle" /\ Claimable # {}
    /\ \E n \in 1..BatchSize : \E batch \in [1..n -> Claimable] :
         /\ ReadyBatch(batch)
         /\ outbox' = [p \in Publications |->
                         IF p \in ToSet(batch) THEN Claimed(outbox[p], d) ELSE outbox[p]]
         /\ courier' = [courier EXCEPT ![d] = [pc |-> "notify", batch |-> batch]]
    /\ UNCHANGED <<registryVars, faults>>

Answered(d, answer) == courier' = [courier EXCEPT ![d].pc = answer]

\* Mutation of Refused: a publication Registry deferred counts as delivered.
RefusedAccepted(d) == Answered(d, "accepted") /\ UNCHANGED registryVars

\* A notification Registry defers: its predecessor is not consumed.
Refused(d) == Answered(d, "refused") /\ UNCHANGED registryVars

\* notify: Registry has the publication already, takes it in, or defers it.
Notify(d) ==
    /\ courier[d].pc = "notify"
    /\ LET p == Head(courier[d].batch)
       IN  \/ p <= consumed /\ Answered(d, "accepted") /\ UNCHANGED registryVars
           \/ p = consumed + 1 /\ Answered(d, "accepted") /\ Registry!Consume
           \/ p > consumed + 1 /\ Refused(d)
    /\ UNCHANGED <<outbox, faults>>

\* notify throws: the claim failed, or it was committed and the catalog could
\* not be prepared afterwards.
NotifyFails(d) ==
    /\ courier[d].pc = "notify" /\ faults < MaxFaults
    /\ faults' = faults + 1
    /\ Answered(d, "refused")
    /\ \/ UNCHANGED registryVars
       \/ Head(courier[d].batch) = consumed + 1 /\ Registry!Consume
    /\ UNCHANGED outbox

\* The next notification of the batch, or the end of the cycle.
Advance(d) ==
    LET rest == Tail(courier[d].batch)
    IN  courier' = [courier EXCEPT ![d] =
                      IF rest = <<>> THEN Idle ELSE [pc |-> "notify", batch |-> rest]]

\* A row that is no longer the courier's: the store throws and the rest of
\* the batch is left as it is, claimed.
LoseBatch(d) == courier' = [courier EXCEPT ![d] = Idle] /\ UNCHANGED outbox

\* completeReadyDelivery
Complete(d) ==
    /\ courier[d].pc = "accepted"
    /\ LET p == Head(courier[d].batch)
       IN  \/ /\ Holds(d, p)
              /\ outbox' = [outbox EXCEPT ![p].state = "delivered", ![p].owner = NoOwner]
              /\ Advance(d)
           \/ ~Holds(d, p) /\ LoseBatch(d)
    /\ UNCHANGED <<registryVars, faults>>

\* rescheduleReadyDelivery, after a delay that doubles up to maxBackoffMs.
Reschedule(d) ==
    /\ courier[d].pc = "refused"
    /\ LET p == Head(courier[d].batch)
       IN  \/ /\ Holds(d, p)
              /\ outbox' = [outbox EXCEPT ![p].state = "pending", ![p].owner = NoOwner,
                                          ![p].ripe = FALSE]
              /\ Advance(d)
           \/ ~Holds(d, p) /\ LoseBatch(d)
    /\ UNCHANGED <<registryVars, faults>>

\* The daemon ends, or a store access fails: the rows stay claimed.
Stop(d) ==
    /\ courier[d].pc # "idle" /\ faults < MaxFaults
    /\ faults' = faults + 1
    /\ courier' = [courier EXCEPT ![d] = Idle]
    /\ UNCHANGED <<registryVars, outbox>>

-----------------------------------------------------------------------------
CourierStep(d) == Notify(d) \/ Complete(d) \/ Reschedule(d)

DeliveryNext ==
    \/ CommitReady \/ IngestClaim
    \/ \E p \in Publications : Ripen(p) \/ Lapse(p)
    \/ \E d \in Couriers : ClaimReadyBatch(d) \/ CourierStep(d) \/ NotifyFails(d) \/ Stop(d)

ClaimsRow(d, p) == p \in Publications /\ ClaimReadyBatch(d) /\ outbox'[p].owner = d

DeliverySpec == DeliveryInit /\ [][DeliveryNext]_deliveryVars

\* Time passes, a cycle that has begun goes on, and the maintenance worker
\* keeps starting cycles.  The delay of a row that is refused again and again
\* outgrows the interval between two cycles, so a cycle begins while that row
\* is not due: a row that is at the head of the others again and again is
\* claimed in the end.
DeliveryFairness ==
    /\ \A p \in 1..MaxPublications : WF_deliveryVars(p \in Publications /\ Ripen(p))
    /\ \A d \in Couriers :
         /\ WF_deliveryVars(CourierStep(d))
         /\ \A p \in 1..MaxPublications : SF_deliveryVars(ClaimsRow(d, p))

-----------------------------------------------------------------------------
(* Properties                                                              *)

\* Types; a row has an owner exactly while it is in delivery, and a courier
\* works on publications that exist.
DeliveryTypeOK ==
    /\ outbox \in Seq(Row) /\ Len(outbox) = Len(chain)
    /\ consumed \in 0..Len(chain)
    /\ \A p \in Publications : outbox[p].owner # NoOwner <=> outbox[p].state = "delivering"
    /\ \A d \in Couriers :
         /\ courier[d].pc \in {"idle", "notify", "accepted", "refused"}
         /\ courier[d].batch \in Seq(Publications) /\ Len(courier[d].batch) <= BatchSize
         /\ courier[d].pc # "idle" <=> courier[d].batch # <<>>
    /\ faults \in 0..MaxFaults

\* A publication that counts as delivered has been consumed by Registry: no
\* deferral, lost lease or overtaken courier drops one
\* (registry-publication-ready-notifier.ts: "A deferred or forked chain is not
\* delivery success").
DeliveredIsConsumed ==
    \A p \in Publications : outbox[p].state = "delivered" => p <= consumed

\* Once delivered, a publication stays delivered: a courier that lost its
\* lease cannot put it back with a late failure (rescheduleReadyDelivery).
DeliveredStays ==
    [][\A p \in Publications :
          outbox[p].state = "delivered" => outbox'[p].state = "delivered"]_deliveryVars

\* Every publication there is has been delivered.
AllDelivered == \A p \in Publications : outbox[p].state = "delivered"
=============================================================================
