--------------------------- MODULE PublishedIndex ---------------------------
(***************************************************************************)
(* What readers of a document index are promised: versions become          *)
(* searchable one at a time, whole, and stay so; the newest of them is     *)
(* the head.  Staging, leases, retries, crashes and cleanup are invisible; *)
(* what a late delete may do to a version is said where the promise is     *)
(* implemented (IndexStaging, Intact).                                     *)
(***************************************************************************)
CONSTANTS Versions, NoVersion

VARIABLES searchable,   \* versions whose every record can be retrieved
          head          \* the version the next reindexing starts from

Init == searchable = {} /\ head = NoVersion

Publish(v) ==
    /\ v \notin searchable
    /\ searchable' = searchable \cup {v}
    /\ head' = v

Next == \E v \in Versions : Publish(v)

Spec == Init /\ [][Next]_<<searchable, head>>
=============================================================================
