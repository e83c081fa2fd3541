--------------------------- MODULE CheckpointStore ---------------------------
(***************************************************************************)
(* The row of one source in markdown_publication_checkpoints               *)
(* (packages/ingestion-indexing/src/infrastructure/                        *)
(* sqlite-markdown-publication-checkpoint-store.ts).                       *)
(*                                                                         *)
(* A snapshot is the content it was captured from and the structural       *)
(* identities (block, unit and chunk ids) issued for it.  The change token *)
(* of a checkpoint is the digest of its observation and is not kept apart; *)
(* the fields a source carries about its own polling state are left out.   *)
(***************************************************************************)
EXTENDS Integers

CONSTANTS NoContent     \* no observation

VARIABLE checkpoint     \* obs: baseline observation, snap: its snapshot,
                        \* pending: identities issued for the next one

NoSnapshot == [content |-> NoContent, ids |-> 0]

BlankCheckpoint == [obs |-> NoContent, snap |-> NoSnapshot, pending |-> NoSnapshot]

\* register: the first call inserts the blank row, later ones return the row.
CheckpointInit == checkpoint = BlankCheckpoint

\* parseCheckpoint.
WellFormed(c) ==
    /\ c.obs # NoContent => c.snap.content = c.obs
    /\ c.pending # NoSnapshot => c.pending.content # c.obs

\* validPendingTransition: issued identities are kept as they are, or become
\* the baseline.
ValidPendingTransition(c) ==
    \/ checkpoint.pending \in {NoSnapshot, c.pending}
    \/ c.pending = NoSnapshot /\ c.snap.content = checkpoint.pending.content

\* save does not raise checkpoint_conflict.
MaySave(c) ==
    /\ WellFormed(c)
    /\ checkpoint.obs # NoContent => c.obs # NoContent
    /\ ValidPendingTransition(c)

\* save.
Save(c) == MaySave(c) /\ checkpoint' = c
=============================================================================
