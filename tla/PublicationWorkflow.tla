------------------------ MODULE PublicationWorkflow ------------------------
(***************************************************************************)
(* MarkdownPublicationWorkflow.publish                                     *)
(* (packages/ingestion-indexing/src/application/                           *)
(* markdown-publication-workflow.ts) for one source: observe the file,     *)
(* capture it, index it, publish it, and leave a checkpoint, over stores   *)
(* that are written one after the other.  A worker is a process that runs  *)
(* `ingest` again and again; nothing but the stores keeps two of them      *)
(* apart.  A run may stop after any step (an error, a timeout, the end of  *)
(* the process), and the next run has to pick up what it left.             *)
(*                                                                         *)
(* Observations are deduplicated by their digest, so an observation id is  *)
(* the content.  A snapshot's `ids` stand for its block, unit and chunk    *)
(* identities: capture and reconciliation either carry the identities of   *)
(* the baseline over or issue new ones, depending on how similar the       *)
(* documents are, which the model leaves open.  An index version is a      *)
(* digest of the observation and the identities (createIndexVersion).      *)
(*                                                                         *)
(* Staging an index version (IndexStaging) appears here by its result: the *)
(* version is found, or it becomes complete and is committed, or it fails. *)
(* Observations are never deleted here: the leases that protect them, and  *)
(* the pointer to the latest one, which the workflow does not read, are    *)
(* left out.                                                               *)
(***************************************************************************)
EXTENDS Integers, FiniteSets

CONSTANTS Contents,     \* what the source file may hold
          Empty,        \* the content without any chunk
          Oversized,    \* contents beyond the limits of a publication
          NoContent,    \* no observation
          NoVersion,    \* the document index has no current version
          Workers,      \* processes running ingest
          Reverts,      \* whether an edit may bring back an earlier content
          MaxEdits,     \* bound on edits of the file
          MaxFaults,    \* bound on runs cut short
          MaxIds        \* bound on sets of identities issued

ASSUME WorkflowAssumption ==
    /\ Empty \in Contents /\ NoContent \notin Contents
    /\ Oversized \subseteq Contents \ {Empty}
    /\ Reverts \in BOOLEAN
    /\ MaxEdits \in Nat /\ MaxFaults \in Nat /\ MaxIds \in Nat

Versions == Contents \X Nat

VARIABLES intents, published, latest, checkpoint, catalog, current,
          observed,     \* rows of source_observations
          comparison,   \* comparison_source_observations
          issued,       \* sets of identities issued so far
          file,         \* content of the source file
          drafts,       \* every content the file has had
          edits, faults,
          work          \* worker -> locals of publish()

INSTANCE PublicationStore
INSTANCE CheckpointStore
INSTANCE IndexCatalog WITH ScopeShapes <- {0}

publicationVars == <<intents, published, latest>>
catalogVars == <<catalog, current>>
worldVars == <<file, drafts, edits>>
vars == <<intents, published, latest, checkpoint, catalog, current, observed,
          comparison, issued, file, drafts, edits, faults, work>>

Steps == {"idle", "pending", "recover", "inspect", "baseline", "persisted",
          "repair", "observe", "observed", "capture", "latest", "index", "hook",
          "catalog", "publish", "ready", "save", "mark"}

\* Locals of a run that has not started or has ended.
IdleWork == [pc |-> "idle", cp |-> BlankCheckpoint, target |-> NoContent,
             snap |-> NoSnapshot, prev |-> NoPublication,
             intent |-> NoPublication, stamp |-> 0, compared |-> NoContent]

Init ==
    /\ PublicationsInit /\ CheckpointInit /\ CatalogInit
    /\ observed = {} /\ comparison = NoContent
    /\ issued = 0
    /\ file \in Contents
    /\ drafts = {file}
    /\ edits = 0 /\ faults = 0
    /\ work = [w \in Workers |-> IdleWork]

At(w, step) == work[w].pc = step

Goto(w, step) == work' = [work EXCEPT ![w].pc = step]

\* publish() returns or throws.
Return(w) == work' = [work EXCEPT ![w] = IdleWork]

\* The rest of the handler is skipped when a store raises a conflict.
OrConflict(w, possible, step) ==
    \/ possible /\ step
    \/ ~possible /\ Return(w)
         /\ UNCHANGED <<publicationVars, catalogVars, checkpoint, comparison, issued>>

-----------------------------------------------------------------------------
(* Registration and recovery                                               *)

\* register returns the stored checkpoint; the run keeps this copy.
Register(w) ==
    /\ At(w, "idle")
    /\ work' = [work EXCEPT ![w] = [@ EXCEPT !.pc = "pending", !.cp = checkpoint]]
    /\ UNCHANGED <<publicationVars, catalogVars, checkpoint, observed, comparison,
                   issued, worldVars, faults>>

\* #recoverBeforeObservation, first read: pendingRecoveryIntentForSource.
ReadPendingIntent(w) ==
    /\ At(w, "pending")
    /\ \/ \E i \in PendingIntents :
            work' = [work EXCEPT ![w] = [@ EXCEPT !.pc = "recover", !.intent = i.pub]]
       \/ PendingIntents = {} /\ Goto(w, "recover")
    /\ UNCHANGED <<publicationVars, catalogVars, checkpoint, observed, comparison,
                   issued, worldVars, faults>>

\* #resumeStoredObservation: go on with an observation that is stored.
Resume(w, obs) ==
    IF obs \in observed
    THEN work' = [work EXCEPT ![w] = [@ EXCEPT !.pc = "capture", !.target = obs]]
    ELSE Return(w)                              \* observation_baseline_corrupt

\* Mutation of RecoverBeforeObservation: an unfinished publication is not
\* resumed, the file is observed first.
RecoverNothing(w) ==
    /\ At(w, "recover")
    /\ work' = [work EXCEPT ![w] = [@ EXCEPT !.pc = "inspect", !.intent = NoPublication]]
    /\ UNCHANGED <<publicationVars, catalogVars, checkpoint, observed, comparison,
                   issued, worldVars, faults>>

\* #recoverBeforeObservation, second read, and what it decides: a pending
\* intent first, then identities that were issued, then a publication the
\* checkpoint does not know of.
RecoverBeforeObservation(w) ==
    /\ At(w, "recover")
    /\ LET cp == work[w].cp
           intent == work[w].intent
       IN  \/ /\ intent # NoPublication
              /\ IF intent.prev = latest.id THEN Resume(w, intent.obs) ELSE Return(w)
           \/ /\ intent = NoPublication
              /\ CASE cp.pending # NoSnapshot -> Resume(w, cp.pending.content)
                   [] cp.pending = NoSnapshot /\ latest.obs \notin {NoContent, cp.obs} ->
                        Resume(w, latest.obs)
                   [] OTHER -> Goto(w, "inspect")
    /\ UNCHANGED <<publicationVars, catalogVars, checkpoint, observed, comparison,
                   issued, worldVars, faults>>

-----------------------------------------------------------------------------
(* Inspection and observation                                              *)

\* inspect, then save with the source's new inspection status: the rest of
\* the checkpoint is the copy this run has read at its start.
Inspect(w) ==
    /\ At(w, "inspect")
    /\ OrConflict(w, MaySave(work[w].cp),
                  /\ Save(work[w].cp)
                  /\ Goto(w, "baseline")
                  /\ UNCHANGED <<publicationVars, catalogVars, comparison, issued>>)
    /\ UNCHANGED <<observed, worldVars, faults>>

\* #ensureComparisonBaseline reads the pointer ...
EnsureComparisonBaseline(w) ==
    /\ At(w, "baseline")
    /\ LET step == IF work[w].cp.obs \in {NoContent, comparison}
                   THEN "observe" ELSE "persisted"
       IN  work' = [work EXCEPT ![w] = [@ EXCEPT !.pc = step, !.compared = comparison]]
    /\ UNCHANGED <<publicationVars, catalogVars, checkpoint, observed, comparison,
                   issued, worldVars, faults>>

\* ... and, when it is not at the checkpoint's observation, whether the
\* stored checkpoint has moved on (observation_baseline_stale) ...
ConfirmCheckpoint(w) ==
    /\ At(w, "persisted")
    /\ IF checkpoint.obs = work[w].cp.obs THEN Goto(w, "repair") ELSE Return(w)
    /\ UNCHANGED <<publicationVars, catalogVars, checkpoint, observed, comparison,
                   issued, worldVars, faults>>

\* ... before it repairs the pointer.
RepairBaseline(w) ==
    /\ At(w, "repair")
    /\ OrConflict(w, comparison = work[w].compared,
                  /\ comparison' = work[w].cp.obs
                  /\ Goto(w, "observe")
                  /\ UNCHANGED <<publicationVars, catalogVars, checkpoint, issued>>)
    /\ UNCHANGED <<observed, worldVars, faults>>

\* requestObservation: unchanged against the token of the run's checkpoint,
\* or one transaction that stores the observation.
Observe(w) ==
    /\ At(w, "observe")
    /\ LET seen == IF file = work[w].cp.obs THEN NoContent ELSE file
       IN  /\ work' = [work EXCEPT ![w] = [@ EXCEPT !.pc = "observed", !.target = seen]]
           /\ observed' = observed \cup ({seen} \ {NoContent})
    /\ UNCHANGED <<publicationVars, catalogVars, checkpoint, comparison, issued,
                   worldVars, faults>>

\* The save that follows; an unchanged file ends the run.
Observed(w) ==
    /\ At(w, "observed")
    /\ OrConflict(w, MaySave(work[w].cp),
                  /\ Save(work[w].cp)
                  /\ IF work[w].target = NoContent THEN Return(w) ELSE Goto(w, "capture")
                  /\ UNCHANGED <<publicationVars, catalogVars, comparison, issued>>)
    /\ UNCHANGED <<observed, worldVars, faults>>

-----------------------------------------------------------------------------
(* #publishSnapshot                                                        *)

\* Mutation of Capture: identities are used before they are durable.
CaptureUnsaved(w) ==
    /\ At(w, "capture")
    /\ issued < MaxIds
    /\ issued' = issued + 1
    /\ work' = [work EXCEPT ![w] = [@ EXCEPT !.pc = "latest",
                  !.snap = [content |-> work[w].target, ids |-> issued + 1]]]
    /\ UNCHANGED <<publicationVars, catalogVars, checkpoint, observed, comparison,
                   worldVars, faults>>

\* recoverPendingIndexingSnapshot, or capture, segmentation, chunking and the
\* save that makes the identities durable.  Nothing can be carried over from
\* a missing or an empty baseline.
Capture(w) ==
    /\ At(w, "capture")
    /\ LET cp == work[w].cp
           target == work[w].target
           CanInherit == cp.snap.content \notin {NoContent, Empty}
       IN  \/ /\ cp.pending # NoSnapshot
              /\ IF cp.pending.content = target
                 THEN work' = [work EXCEPT ![w] = [@ EXCEPT !.pc = "latest",
                                                            !.snap = cp.pending]]
                 ELSE Return(w)           \* pending_structural_snapshot_conflict
              /\ UNCHANGED <<checkpoint, issued>>
           \/ /\ cp.pending = NoSnapshot
              /\ \E ids \in {cp.snap.ids, issued + 1} :
                   LET snap == [content |-> target, ids |-> ids]
                       next == [cp EXCEPT !.pending = snap]
                   IN  /\ ids = cp.snap.ids => CanInherit
                       /\ ids <= MaxIds
                       /\ \/ /\ Save(next)
                             /\ issued' = IF ids = cp.snap.ids THEN issued ELSE ids
                             /\ work' = [work EXCEPT ![w] =
                                           [@ EXCEPT !.pc = "latest", !.snap = snap]]
                          \/ /\ ~MaySave(next)
                             /\ Return(w)
                             /\ UNCHANGED <<checkpoint, issued>>
    /\ UNCHANGED <<publicationVars, catalogVars, observed, comparison, worldVars, faults>>

\* latestForSource again: an observation that is already published only needs
\* its checkpoint, an empty document needs no index.
ReadLatest(w) ==
    /\ At(w, "latest")
    /\ LET step == CASE latest.obs = work[w].target -> "save"
                     [] latest.obs # work[w].target /\ work[w].target = Empty -> "publish"
                     [] OTHER -> "index"
       IN  work' = [work EXCEPT ![w] = [@ EXCEPT !.pc = step, !.prev = latest]]
    /\ UNCHANGED <<publicationVars, catalogVars, checkpoint, observed, comparison,
                   issued, worldVars, faults>>

VersionOf(w) == <<work[w].snap.content, work[w].snap.ids>>

\* buildMarkdownPublication and buildEmptyMarkdownPublication: id and stamp
\* come from the recovery intent when there is one.
Candidate(w, stamp) ==
    [id |-> IF work[w].intent = NoPublication
            THEN Cardinality(intents) + 1 ELSE work[w].intent.id,
     obs |-> work[w].target, ids |-> work[w].snap.ids,
     prev |-> work[w].prev.id, stamp |-> stamp]

\* command.publishedAt, or a reading of the clock.
Stamp(w) == IF work[w].intent = NoPublication
            THEN Cardinality(intents) + 1 ELSE work[w].intent.stamp

\* The first look of DocumentIndexPublisher.publish at the catalog: an
\* existing version is returned with its own publishedAt, and
\* beforeCatalogCommit is not called.
Index(w) ==
    /\ At(w, "index")
    /\ \/ \E row \in FindVersion(VersionOf(w)) :
            work' = [work EXCEPT ![w] = [@ EXCEPT !.pc = "publish",
                                                  !.stamp = row.publishedAt]]
       \/ ~Catalogued(VersionOf(w)) /\ Goto(w, "hook")
    /\ UNCHANGED <<publicationVars, catalogVars, checkpoint, observed, comparison,
                   issued, worldVars, faults>>

\* assertFactLimits and parsePublicationCandidate: beyond the limits of a
\* publication building it throws, and no intent is prepared.
WithinLimits(w) == work[w].target \notin Oversized

\* Mutation of BeforeCatalogCommit: the intent is built but not yet stored.
BeforeCatalogCommitUnsaved(w) ==
    /\ At(w, "hook")
    /\ work' = [work EXCEPT ![w] = [@ EXCEPT !.pc = "catalog",
                  !.intent = Candidate(w, Stamp(w)), !.stamp = Stamp(w)]]
    /\ UNCHANGED <<publicationVars, catalogVars, checkpoint, observed, comparison,
                   issued, worldVars, faults>>

\* beforeCatalogCommit: the intent is durable before the version is.
BeforeCatalogCommit(w) ==
    /\ At(w, "hook")
    /\ LET candidate == Candidate(w, Stamp(w))
       IN  OrConflict(w, WithinLimits(w)
                           /\ (AlreadyPrepared(candidate) \/ MayPrepare(candidate)),
             /\ PrepareIntent(candidate)
             /\ work' = [work EXCEPT ![w] = [@ EXCEPT !.pc = "catalog",
                                                      !.intent = candidate,
                                                      !.stamp = candidate.stamp]]
             /\ UNCHANGED <<catalogVars, checkpoint, comparison, issued>>)
    /\ UNCHANGED <<observed, worldVars, faults>>

\* commitCurrent.
CommitIndex(w) ==
    /\ At(w, "catalog")
    /\ LET row == Publication(VersionOf(w), work[w].stamp, 0)
       IN  OrConflict(w, ~CommitConflicts(row),
             /\ CommitCurrent(row)
             /\ Goto(w, "publish")
             /\ UNCHANGED <<publicationVars, checkpoint, comparison, issued>>)
    /\ UNCHANGED <<observed, worldVars, faults>>

\* An indexed publication without an intent is publication_commit_incomplete.
Incomplete(w) == work[w].target # Empty /\ work[w].intent = NoPublication

\* The second prepareRecoveryIntent; for an empty document the first.
PreparePublication(w) ==
    /\ At(w, "publish")
    /\ LET stamp == IF work[w].target = Empty THEN Stamp(w) ELSE work[w].stamp
           candidate == Candidate(w, stamp)
       IN  OrConflict(w, ~Incomplete(w) /\ WithinLimits(w)
                           /\ (AlreadyPrepared(candidate) \/ MayPrepare(candidate)),
             /\ PrepareIntent(candidate)
             /\ work' = [work EXCEPT ![w] = [@ EXCEPT !.pc = "ready",
                                                      !.intent = candidate]]
             /\ UNCHANGED <<catalogVars, checkpoint, comparison, issued>>)
    /\ UNCHANGED <<observed, worldVars, faults>>

CommitPublication(w) ==
    /\ At(w, "ready")
    /\ OrConflict(w, MayCommit(work[w].intent),
                  /\ CommitReady(work[w].intent)
                  /\ Goto(w, "save")
                  /\ UNCHANGED <<catalogVars, checkpoint, comparison, issued>>)
    /\ UNCHANGED <<observed, worldVars, faults>>

\* The snapshot becomes the baseline.
SaveBaseline(w) ==
    /\ At(w, "save")
    /\ LET next == [obs |-> work[w].target, snap |-> work[w].snap, pending |-> NoSnapshot]
       IN  OrConflict(w, MaySave(next),
                      /\ Save(next)
                      /\ Goto(w, "mark")
                      /\ UNCHANGED <<publicationVars, catalogVars, comparison, issued>>)
    /\ UNCHANGED <<observed, worldVars, faults>>

\* markComparisonBaseline compares with the observation of the run's own
\* checkpoint.
MarkBaseline(w) ==
    /\ At(w, "mark")
    /\ comparison' = IF comparison = work[w].cp.obs THEN work[w].target ELSE comparison
    /\ Return(w)
    /\ UNCHANGED <<publicationVars, catalogVars, checkpoint, observed, issued,
                   worldVars, faults>>

-----------------------------------------------------------------------------

WorkerStep(w) ==
    \/ ReadPendingIntent(w) \/ RecoverBeforeObservation(w) \/ Inspect(w)
    \/ EnsureComparisonBaseline(w) \/ ConfirmCheckpoint(w) \/ RepairBaseline(w)
    \/ Observe(w) \/ Observed(w) \/ Capture(w) \/ ReadLatest(w) \/ Index(w)
    \/ BeforeCatalogCommit(w) \/ CommitIndex(w) \/ PreparePublication(w)
    \/ CommitPublication(w) \/ SaveBaseline(w) \/ MarkBaseline(w)

\* An error outside the stores' own conflicts, an aborted signal, a crash.
Stop(w) ==
    /\ ~At(w, "idle")
    /\ faults < MaxFaults
    /\ faults' = faults + 1
    /\ Return(w)
    /\ UNCHANGED <<publicationVars, catalogVars, checkpoint, observed, comparison,
                   issued, worldVars>>

Edit ==
    /\ edits < MaxEdits
    /\ edits' = edits + 1
    /\ file' \in Contents \ (IF Reverts THEN {file} ELSE drafts)
    /\ drafts' = drafts \cup {file'}
    /\ UNCHANGED <<publicationVars, catalogVars, checkpoint, observed, comparison,
                   issued, faults, work>>

Next ==
    \/ \E w \in Workers : Register(w) \/ WorkerStep(w) \/ Stop(w)
    \/ Edit

Spec == Init /\ [][Next]_vars

\* ingest is run again and again, and a run that is not cut short goes on.
LiveSpec == Spec /\ \A w \in Workers : WF_vars(Register(w)) /\ WF_vars(WorkerStep(w))

-----------------------------------------------------------------------------
(* Properties                                                              *)

\* Every variable keeps its shape.
WorkflowTypeOK ==
    /\ observed \subseteq Contents
    /\ comparison \in observed \cup {NoContent}
    /\ WellFormed(checkpoint)
    /\ issued \in 0 .. MaxIds
    /\ file \in Contents
    /\ \A w \in Workers : work[w].pc \in Steps

\* The publications of a source are one line of succession that ends in the
\* latest one, with at most one unfinished publication after it, whatever
\* runs overlap or stop: the registry can consume them in order.
OneChain ==
    /\ latest \in published \cup {NoPublication}
    /\ \A p, q \in published : p.prev = q.prev => p = q
    /\ \A p \in published : p # latest => \E q \in published : q.prev = p.id
    /\ Cardinality(PendingIntents) <= 1

\* A publication the registry may read has its index version in the catalog,
\* produced at the time the publication says; and no index version enters the
\* catalog unless a durable intent leads to it, so a crash between the catalog
\* and the publication can always be finished.
PublishedIsIndexed ==
    /\ \A p \in published : p.obs # Empty =>
         \E row \in FindVersion(<<p.obs, p.ids>>) : row.publishedAt = p.stamp
    /\ \A row \in catalog : \E i \in intents :
         /\ <<i.pub.obs, i.pub.ids>> = row.version
         /\ i.pub.stamp = row.publishedAt

\* The baseline of the next comparison carries the identities the latest
\* publication was indexed with (an empty document has none).
BaselineAsPublished ==
    checkpoint.obs \notin {NoContent, Empty} /\ checkpoint.obs = latest.obs
      => checkpoint.snap.ids = latest.ids

\* The file is published and nothing is left to recover.
Settled ==
    /\ latest.obs = file /\ PendingIntents = {}
    /\ checkpoint.obs = file /\ checkpoint.pending = NoSnapshot
    /\ comparison = file

\* Identities were issued for a content no publication can carry.
Unpublishable == checkpoint.pending.content \in Oversized

\* When the file is no longer edited, running ingest again and again settles.
Converges == <>[]Settled
=============================================================================
