----------------------- MODULE PublicationConsumption -----------------------
(***************************************************************************)
(* What Registry promises about the publications of one source, whatever   *)
(* order its notifications arrive in: they take effect one at a time, in   *)
(* the order of the chain, each of them once, and each of them whole.      *)
(***************************************************************************)
EXTENDS Integers, Sequences

CONSTANT Units

VARIABLES chain,        \* the units of each publication, in chain order
          consumed,     \* how many publications have taken effect
          added         \* unit -> publications that gave its card a version

Init == chain = <<>> /\ consumed = 0 /\ added = [u \in Units |-> <<>>]

\* Ingestion publishes.
Extend == /\ \E present \in SUBSET Units : chain' = Append(chain, present)
          /\ UNCHANGED <<consumed, added>>

\* The next publication of the chain takes effect.
Consume ==
    /\ consumed < Len(chain)
    /\ consumed' = consumed + 1
    /\ added' = [u \in Units |->
                    IF u \in chain[consumed + 1] THEN Append(added[u], consumed + 1)
                                                 ELSE added[u]]
    /\ UNCHANGED chain

Spec == Init /\ [][Extend \/ Consume]_<<chain, consumed, added>>
=============================================================================
