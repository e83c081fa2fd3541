------------------------ MODULE StagingAttemptStore ------------------------
(***************************************************************************)
(* The table index_staging_attempts of the ingestion database              *)
(* (packages/ingestion-indexing/src/infrastructure/                        *)
(* sqlite-index-staging-attempt-store.ts).  One row per index version that *)
(* has been staged in the vector index and is not yet known to be          *)
(* published.  Every operation is one SQLite statement or transaction, so  *)
(* every definition below is atomic.                                       *)
(*                                                                         *)
(* The key (document_index_id, index_version) is a member of Versions: the *)
(* modules above this one fix a single document index.  connector_id and   *)
(* access_handle are the same for every attempt of a document index (one   *)
(* connector per daemon) and are left out, and with them the conflict      *)
(* acquirePublication raises when they differ.  first_attempted_at is      *)
(* written once and never read by an operation.                            *)
(***************************************************************************)
EXTENDS Integers

CONSTANTS Versions,     \* index versions that may be staged
          Owners,       \* lease ids: one per publish or cleanup execution
          NoOwner       \* owner_lease_id IS NULL

VARIABLE attempts       \* version -> row of index_staging_attempts

RowStates == {"absent", "pending", "publishing", "cleaning"}

\* A row has an owner exactly while it is publishing or cleaning
\* (assertValidIndexStagingAttempt).
Row == {r \in [state : RowStates, owner : Owners \cup {NoOwner},
               expires : Nat, last : Nat] :
          r.owner = NoOwner <=> r.state \in {"absent", "pending"}}

NoRow == [state |-> "absent", owner |-> NoOwner, expires |-> 0, last |-> 0]

AttemptsInit == attempts = [v \in Versions |-> NoRow]

Tracked(v) == attempts[v].state # "absent"

OwnedBy(v, state, lease) == /\ attempts[v].state = state
                            /\ attempts[v].owner = lease

-----------------------------------------------------------------------------
(* Publication side.                                                       *)

\* acquirePublication answers "busy": somebody else holds an unexpired lease.
Busy(v, lease, at) ==
    /\ attempts[v].state \in {"publishing", "cleaning"}
    /\ ~OwnedBy(v, "publishing", lease)
    /\ attempts[v].expires > at

\* acquirePublication answers "acquired": insert or take over the row.
AcquirePublication(v, lease, at, until) ==
    /\ ~Busy(v, lease, at)
    /\ attempts' = [attempts EXCEPT ![v] =
         [state |-> "publishing", owner |-> lease, expires |-> until, last |-> at]]

\* Mutation of RenewPublication: last_attempted_at stays as it is.
RenewPublicationKeepsLast(v, lease, at, until) ==
    /\ OwnedBy(v, "publishing", lease)
    /\ attempts' = [attempts EXCEPT ![v].expires = until]

\* renewPublication looks at the owner and never at the expiry of the lease.
RenewPublication(v, lease, at, until) ==
    /\ OwnedBy(v, "publishing", lease)
    /\ attempts' = [attempts EXCEPT ![v] = [@ EXCEPT !.expires = until, !.last = at]]

\* #release: back to pending when the caller still owns the row, no effect
\* otherwise.  abandonPublication and releaseCleanup are its two uses.
Release(v, lease, state) ==
    attempts' = IF OwnedBy(v, state, lease)
                THEN [attempts EXCEPT ![v] = [@ EXCEPT !.state = "pending",
                                                       !.owner = NoOwner,
                                                       !.expires = 0]]
                ELSE attempts

AbandonPublication(v, lease) == Release(v, lease, "publishing")

ReleaseCleanup(v, lease) == Release(v, lease, "cleaning")

\* DELETE without a condition on state or owner.
ForgetReferenced(v) == attempts' = [attempts EXCEPT ![v] = NoRow]

-----------------------------------------------------------------------------
(* Cleanup side.                                                           *)

\* Mutation of Eligible: the grace period is forgotten.
EligibleAtOnce(v, now, grace) ==
    /\ Tracked(v)
    /\ attempts[v].state = "pending" \/ attempts[v].expires <= now

\* Mutation of Eligible: rows whose owner died are never picked up.
EligiblePendingOnly(v, now, grace) ==
    /\ attempts[v].last + grace <= now
    /\ attempts[v].state = "pending"

\* The WHERE clause claimCleanup and countEligible share.
Eligible(v, now, grace) ==
    /\ Tracked(v)
    /\ attempts[v].last + grace <= now
    /\ attempts[v].state = "pending" \/ attempts[v].expires <= now

\* claimCleanup marks the chosen rows; last_attempted_at stays as it is.
ClaimCleanup(batch, lease, until) ==
    attempts' = [v \in Versions |->
                   IF v \in batch
                   THEN [attempts[v] EXCEPT !.state = "cleaning",
                                            !.owner = lease,
                                            !.expires = until]
                   ELSE attempts[v]]

RenewCleanup(v, lease, until) ==
    /\ OwnedBy(v, "cleaning", lease)
    /\ attempts' = [attempts EXCEPT ![v].expires = until]

\* Mutation of CompleteCleanup: the row goes although somebody else owns it.
CompleteCleanupAnyOwner(v, lease) == attempts' = [attempts EXCEPT ![v] = NoRow]

CompleteCleanup(v, lease) ==
    attempts' = IF OwnedBy(v, "cleaning", lease)
                THEN [attempts EXCEPT ![v] = NoRow]
                ELSE attempts
=============================================================================
