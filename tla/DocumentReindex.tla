--------------------------- MODULE DocumentReindex --------------------------
(* One document through captures, edits, crashes and embedding faults: what  *)
(* the pipeline issues for a file (markdown-publication-workflow.ts, from    *)
(* capture to the pending snapshot), the plan against the last snapshot      *)
(* (document-incremental-update.ts), the vectors taken over from the         *)
(* published index (reindex-document-incrementally.ts), the batches embedded *)
(* (embed-managed-chunks.ts) and the manifest published (index-manifest.ts). *)
(* A vector is the profile and the text it was computed from.                *)
EXTENDS DocumentUnits

CONSTANTS
    FirstFiles, Files, Profiles,  \* what the document is at first, what it may become
    BatchSize, MaxAttempts,       \* of the embedding pipeline
    MaxEdits, MaxFaults           \* bounds of the model

ASSUME PipelineAssumption == {BatchSize, MaxAttempts} \subseteq Nat \ {0}

(* Observations are numbered in the order of their snapshots. *)
NoSnapshot == [observation |-> 0, file |-> << >>, profile |-> 0, title |-> << >>,
               blocks |-> << >>, units |-> << >>, chunks |-> << >>]
NoHead == [snapshot |-> NoSnapshot, records |-> {}]

VARIABLES
    file, profile,      \* what is on disk, what the daemon is configured with
    baseline, pending,  \* the checkpoint: the snapshot published last, the one issued since
    head,               \* the published index version
    published,          \* the source's last publication: its observation and its knowledge units
    job,                \* the run in progress
    nextId,             \* identifiers are never used again
    refused,            \* why the last run stopped
    edits, faults

docVars == <<file, profile, baseline, pending, head, published, job, nextId, refused, edits, faults>>

Nothing == [code |-> "no", file |-> << >>]
NoJob == [phase |-> "idle", snapshot |-> NoSnapshot, vectors |-> {}, attempt |-> 0]

-----------------------------------------------------------------------------
(* What is issued for a file, and the first validator that refuses it.       *)

IssuedAs(content, parsed, blocks, units, chunks) ==
    LET refusal(code) == [code |-> code, next |-> nextId, snapshot |-> NoSnapshot]
    IN IF ~ValidCandidate(parsed.blocks) THEN refusal("invalid_candidate")
       ELSE IF ~ValidNormalizedDocument(blocks) THEN refusal("invalid_document")
       ELSE IF ~parsed.complete THEN refusal("incomplete_document")
       ELSE IF ~ValidSemanticUnits(blocks, units) THEN refusal("invalid_units")
       ELSE IF ~ValidManagedChunks(blocks, units, chunks) THEN refusal("invalid_chunks")
       ELSE [code |-> "issued", next |-> nextId + Len(blocks) + Len(units) + Len(chunks),
             snapshot |-> [observation |-> baseline.observation + 1, file |-> content, profile |-> profile, title |-> parsed.title,
                           blocks |-> blocks, units |-> units, chunks |-> chunks]]

(* The stages, each on what the one before has made. *)
ChunkDocument(content, parsed, blocks, units) ==
    IssuedAs(content, parsed, blocks, units, GenerateManagedChunks(blocks, units, nextId + Len(blocks) + Len(units)))

ReconcileUnits(provisional, previous) ==
    IF previous = NoSnapshot THEN provisional ELSE ReconcileSemanticUnitLineage(provisional, previous.units)

SegmentDocument(content, previous, parsed, blocks) ==
    ChunkDocument(content, parsed, blocks,
        ReconcileUnits(SegmentNormalizedDocument(blocks, parsed.title, nextId + Len(blocks)), previous))

CaptureDocument(content, previous, parsed) ==
    SegmentDocument(content, previous, parsed, AssembleBlocks(parsed.blocks, previous.blocks, nextId))

IssueSnapshot(content, previous) == CaptureDocument(content, previous, Parse(content))

(* decideDocumentCapture *)
CapturesAnyway(content) == baseline = NoSnapshot \/ baseline.file # content

-----------------------------------------------------------------------------
(* The plan against the snapshot published last.                             *)

FullRebuildReasons(previous, current) ==
    (IF previous = NoSnapshot THEN {"baseline_missing"} ELSE {})
        \cup (IF previous # NoSnapshot /\ previous.profile # current.profile THEN {"embedding_profile_changed"} ELSE {})

(* The end of a slice that reaches its block's end is not told apart. *)
ChunkBoundaryKey(snapshot, c) ==
    [unit |-> c.unit, split |-> c.split,
     slices |-> [k \in DOMAIN c.slices |->
        LET s == c.slices[k] IN
        [block |-> s.block, from |-> s.from,
         to |-> IF s.to = Len(ById(snapshot.blocks, s.block).text) THEN -1 ELSE s.to]]]

ContentKey(c) == [unit |-> c.unit, text |-> c.text, split |-> c.split]

(* matchChunks: by boundaries, then by content, each only where one chunk on *)
(* either side has the key.                                                  *)
MatchChunks(previous, current) ==
    LET old == previous.chunks
        new == current.chunks
        byBoundary == MatchUnique([i \in DOMAIN new |-> 0], old,
                        [i \in DOMAIN new |-> ChunkBoundaryKey(current, new[i])],
                        [p \in DOMAIN old |-> ChunkBoundaryKey(previous, old[p])])
    IN MatchUnique(byBoundary, old, [i \in DOMAIN new |-> ContentKey(new[i])], [p \in DOMAIN old |-> ContentKey(old[p])])

ReconcileChunkIdentities(previous, current) ==
    LET m == MatchChunks(previous, current)
        new == current.chunks
        final(id) == IF id = Nobody THEN Nobody
                     ELSE LET i == CHOOSE k \in DOMAIN new : new[k].id = id
                          IN IF m[i] = 0 THEN id ELSE previous.chunks[m[i]].id
    IN [i \in DOMAIN new |->
          [new[i] EXCEPT !.id = final(@), !.previous = final(@), !.next = final(@)]]

(* Mutation of PlannedChunks: the chunks as they were generated. *)
PlannedChunksUnreconciled(previous, current) == current.chunks

PlannedChunks(previous, current) ==
    IF previous = NoSnapshot THEN current.chunks ELSE ReconcileChunkIdentities(previous, current)

Revisions(chunks) == {ChunkRevision(chunks[i]) : i \in DOMAIN chunks}

(* What the plan asks for: fullRebuildPlan computes everything and deletes   *)
(* everything, incrementalOperations what the revisions tell apart.          *)
PlannedOperations(previous, current, chunks) ==
    LET old == Revisions(previous.chunks)
        new == Revisions(chunks)
    IN IF FullRebuildReasons(previous, current) # {} THEN [embed |-> new, reuse |-> {}, delete |-> old]
       ELSE [embed |-> new \ old, reuse |-> new \cap old, delete |-> old \ new]

(* Revisions that are published again are not counted as removed. *)
RemovedRevisions(previous, current, chunks) ==
    PlannedOperations(previous, current, chunks).delete \ Revisions(chunks)

(* patienceAnchors: the blocks that keep their order, found as the longest   *)
(* increasing run of old places with one tail for every length.              *)
PatienceAnchors(old, new) ==
    LET kept == SelectSeq(new, LAMBDA b : b.id \in IdsOf(old))
        place(k) == OrderOf(old, kept[k].id)
        step(state, k) ==
            LET low == Cardinality({t \in DOMAIN state.tails : place(state.tails[t]) < place(k)})
            IN [tails |-> SubSeq(state.tails, 1, low) \o <<k>> \o SubSeq(state.tails, low + 2, Len(state.tails)),
                before |-> Append(state.before, IF low = 0 THEN 0 ELSE state.tails[low])]
        run == FoldLeft(step, [tails |-> << >>, before |-> << >>], [k \in DOMAIN kept |-> k])
        back[k \in 0 .. Len(kept)] == IF k = 0 THEN {} ELSE {kept[k].id} \cup back[run.before[k]]
    IN IF kept = << >> THEN {} ELSE back[Last(run.tails)]

(* blockContentEquivalent *)
BlockContentEquivalent(a, b) == a.kind = b.kind /\ a.text = b.text /\ a.level = b.level

(* classifyBlockChanges *)
ClassifyBlockChanges(old, new) ==
    [id \in IdsOf(old) \cup IdsOf(new) |->
       IF id \notin IdsOf(old) THEN "added"
       ELSE IF id \notin IdsOf(new) THEN "removed"
       ELSE IF ~BlockContentEquivalent(ById(old, id), ById(new, id)) THEN "modified"
       ELSE IF id \in PatienceAnchors(old, new) THEN "unchanged" ELSE "moved"]

(* classifySemanticUnitChanges *)
ClassifySemanticUnitChanges(previous, current) ==
    LET revision(s, id) == UnitRevision(ById(s.units, id), s.blocks, s.file)
    IN [id \in IdsOf(previous.units) \cup IdsOf(current.units) |->
          IF id \notin IdsOf(previous.units) THEN "added"
          ELSE IF id \notin IdsOf(current.units) THEN "removed"
          ELSE IF revision(previous, id) = revision(current, id) THEN "unchanged" ELSE "updated"]

(* inheritableScopeUnitIds *)
InheritableScopeUnitIds(previous, current, chunks) ==
    LET changes == ClassifySemanticUnitChanges(previous, current)
    IN {id \in DOMAIN changes :
          /\ FullRebuildReasons(previous, current) = {}
          /\ changes[id] = "unchanged"
          /\ Revisions(ChunksOf(previous.chunks, id)) = Revisions(ChunksOf(chunks, id))}

(* validateCommand of the embedding pipeline *)
ValidCommand(chunks) ==
    /\ NoRepeats([i \in DOMAIN chunks |-> chunks[i].id])
    /\ Cardinality(Revisions(chunks)) = Len(chunks)

(* assertValidSnapshot: validateManagedChunks once more. *)
ValidPlan(current, chunks) ==
    ValidCommand(chunks) /\ ValidManagedChunks(current.blocks, current.units, chunks)

-----------------------------------------------------------------------------
(* The manifest and the records.                                             *)

RecordOf(c, vector) == [chunk |-> c.id, revision |-> ChunkRevision(c), unit |-> c.unit, text |-> c.text, vector |-> vector]

(* createIndexChunkBindings *)
ChunkBindings(snapshot) ==
    {[chunk |-> c.id, revision |-> ChunkRevision(c), unit |-> c.unit,
      unitRevision |-> UnitRevision(ById(snapshot.units, c.unit), snapshot.blocks, snapshot.file),
      text |-> c.text] : c \in Elements(snapshot.chunks)}

(* preparePublication: the manifest of the records. *)
RevisionMap(snapshot) ==
    [id \in IdsOf(snapshot.units) |-> UnitRevision(ById(snapshot.units, id), snapshot.blocks, snapshot.file)]

CreateManifest(snapshot, records) ==
    [units |-> RevisionMap(snapshot), bindings |-> ChunkBindings(snapshot), count |-> Cardinality(records),
     scopes |-> [k \in DOMAIN snapshot.units |-> snapshot.units[k].id], profile |-> snapshot.profile]

(* validateChunkBindings: one for each chunk, bound to its unit as it is now. *)
ValidChunkBindings(manifest, snapshot) ==
    /\ Cardinality(manifest.bindings) = Len(snapshot.chunks)
    /\ {b.chunk : b \in manifest.bindings} = IdsOf(snapshot.chunks)
    /\ \A b \in manifest.bindings : b.unit \in DOMAIN manifest.units /\ manifest.units[b.unit] = b.unitRevision

(* The second half of validateIndexManifest: count and scopes. *)
ValidCounts(manifest, snapshot) ==
    /\ manifest.count = Len(snapshot.chunks)
    /\ manifest.scopes # << >> /\ NoRepeats(manifest.scopes)

(* validateIndexManifest *)
ValidIndexManifest(manifest, snapshot) ==
    /\ manifest.profile = snapshot.profile
    /\ manifest.units = RevisionMap(snapshot)
    /\ ValidChunkBindings(manifest, snapshot)
    /\ ValidCounts(manifest, snapshot)

(* validateVectorIndexRecords: one record for each revision, and each says   *)
(* what its binding says.                                                    *)
ValidVectorIndexRecords(manifest, records) ==
    /\ Cardinality(records) = manifest.count
    /\ \A r, s \in records : r.revision = s.revision => r = s
    /\ \A r \in records : \E b \in manifest.bindings :
          b.chunk = r.chunk /\ b.revision = r.revision /\ b.unit = r.unit /\ b.text = r.text
    /\ \A b \in manifest.bindings : \E r \in records : r.revision = b.revision

(* assertNoStaleRevisions *)
NoStaleRevisions(snapshot, records) ==
    RemovedRevisions(baseline, snapshot, snapshot.chunks) \cap {r.revision : r \in records} = {}

(* documentIndexEquivalenceViolations: what two snapshots say once their     *)
(* identifiers are forgotten.                                                *)
UnitContentKey(snapshot, u) ==
    [kind |-> u.kind, title |-> u.title, boundary |-> u.boundary,
     blocks |-> [k \in DOMAIN u.blocks |-> ById(snapshot.blocks, u.blocks[k]).text]]

ChunkContentKey(snapshot, c) ==
    [unit |-> UnitContentKey(snapshot, ById(snapshot.units, c.unit)), ordinal |-> c.ordinal, split |-> c.split, text |-> c.text,
     slices |-> [k \in DOMAIN c.slices |->
        <<ById(snapshot.blocks, c.slices[k].block).text, c.slices[k].from, c.slices[k].to>>]]

(* What a sorted list of keys tells: how often each occurs. *)
Sorted(keys) == [k \in Elements(keys) |-> Cardinality({i \in DOMAIN keys : keys[i] = k})]

UnitContentKeys(snapshot) ==
    Sorted([i \in DOMAIN snapshot.units |-> UnitContentKey(snapshot, snapshot.units[i])])

ChunkContentKeys(snapshot) ==
    Sorted([i \in DOMAIN snapshot.chunks |-> ChunkContentKey(snapshot, snapshot.chunks[i])])

(* The rest of the manifest follows from the file, the profile and these. *)
Equivalent(left, right) ==
    /\ UnitContentKeys(left) = UnitContentKeys(right)
    /\ ChunkContentKeys(left) = ChunkContentKeys(right)

-----------------------------------------------------------------------------
(* The publication (build-markdown-publication.ts).                          *)

(* toPublishedKnowledgeUnit: the facts, and the scope of the index version,  *)
(* which is the chunk revisions it holds for the unit.                       *)
Facts(snapshot, u) ==
    LET own == [k \in DOMAIN u.blocks |-> ById(snapshot.blocks, u.blocks[k])]
        placed == {k \in DOMAIN own : own[k].path # << >>}
        path == IF placed = {} THEN << >> ELSE own[Min(placed)].path
    IN [count |-> Len(own), kinds |-> {own[k].kind : k \in DOMAIN own}, title |-> snapshot.title, label |-> u.title,
        path |-> [k \in DOMAIN path |-> ById(snapshot.blocks, path[k]).text],
        keywords |-> UNION {Elements(AnalysisText(own[k].text)) : k \in DOMAIN own}]

ScopeOf(snapshot, u) ==
    IF u.kind = "document" THEN Revisions(snapshot.chunks) ELSE Revisions(ChunksOf(snapshot.chunks, u.id))

KnowledgeUnit(snapshot, u) ==
    [id |-> u.id, kind |-> u.kind, facts |-> Facts(snapshot, u), profile |-> snapshot.profile,
     observation |-> snapshot.observation, scope |-> ScopeOf(snapshot, u)]

(* Mutation of InheritanceProjection: the facts are taken to follow from the unit. *)
InheritanceProjectionNoFacts(k) == <<k.id, k.kind, k.profile>>

InheritanceProjection(k) == <<k.id, k.kind, k.facts, k.profile>>

(* buildMarkdownPublication: a unit that stayed what it was is published as  *)
(* it was, with the index version it was published with.                     *)
BuildMarkdownPublication(previous, current) ==
    LET inheritable == InheritableScopeUnitIds(previous, current, current.chunks)
        unit(u) ==
            LET now == KnowledgeUnit(current, u)
                before == {k \in published.units : k.id = u.id /\ InheritanceProjection(k) = InheritanceProjection(now)}
            IN IF u.id \in inheritable /\ before # {} THEN CHOOSE k \in before : TRUE ELSE now
    IN [observation |-> current.observation,
        units |-> IF current.chunks = << >> THEN {} ELSE {unit(u) : u \in Elements(current.units)}]

-----------------------------------------------------------------------------
DocInit ==
    /\ file \in FirstFiles
    /\ profile = CHOOSE p \in Profiles : TRUE
    /\ baseline = NoSnapshot /\ pending = NoSnapshot /\ head = NoHead /\ job = NoJob
    /\ published = [observation |-> 0, units |-> {}]
    /\ nextId = 1 /\ refused = Nothing /\ edits = 0 /\ faults = 0

(* The file is rewritten, whatever the daemon is doing. *)
Edit ==
    /\ edits < MaxEdits
    /\ \E f \in Files \ {file} : file' = f
    /\ edits' = edits + 1
    /\ UNCHANGED <<profile, baseline, pending, head, job, nextId, refused, faults, published>>

(* The daemon is restarted with another embedding profile. *)
Reconfigure ==
    /\ faults < MaxFaults
    /\ \E p \in Profiles \ {profile} : profile' = p
    /\ job' = NoJob
    /\ faults' = faults + 1
    /\ UNCHANGED <<file, baseline, pending, head, nextId, refused, edits, published>>

Refuse(code, content) == job' = NoJob /\ refused' = [code |-> code, file |-> content]

(* From capture to the pending snapshot. *)
Issue ==
    /\ job.phase = "idle" /\ pending = NoSnapshot
    /\ CapturesAnyway(file)
    /\ \E issued \in {IssueSnapshot(file, baseline)} :
          IF issued.code = "issued"
          THEN /\ pending' = issued.snapshot
               /\ job' = [NoJob EXCEPT !.phase = "planning", !.snapshot = issued.snapshot]
               /\ nextId' = issued.next
               /\ refused' = Nothing
          ELSE /\ refused # [code |-> issued.code, file |-> file]
               /\ Refuse(issued.code, file) /\ UNCHANGED <<pending, nextId>>
    /\ UNCHANGED <<file, profile, baseline, head, edits, faults, published>>

(* recoverPendingIndexingSnapshot: the issued identities are taken up again, *)
(* unless the profile they were issued for is no longer the daemon's; what   *)
(* was already published only moves the checkpoint on.                       *)
Resume ==
    /\ job.phase = "idle" /\ pending # NoSnapshot
    /\ IF pending.profile = profile
       THEN /\ job' = IF published.observation = pending.observation
                      THEN [NoJob EXCEPT !.phase = "ready",
                              !.snapshot = [pending EXCEPT !.chunks = PlannedChunks(baseline, pending)]]
                      ELSE [NoJob EXCEPT !.phase = "planning", !.snapshot = pending]
            /\ refused' = Nothing
       ELSE /\ refused.code # "pending_structural_snapshot_conflict"
            /\ Refuse("pending_structural_snapshot_conflict", pending.file)
    /\ UNCHANGED <<file, profile, baseline, pending, head, nextId, edits, faults, published>>

(* Mutation of Harvested: the profile of the published version is not compared. *)
HarvestedAnyProfile(chunks) ==
    {[revision |-> r.revision, vector |-> r.vector] :
        r \in {s \in head.records : \E i \in DOMAIN chunks : ChunkRevision(chunks[i]) = s.revision /\ chunks[i].text = s.text}}

(* The vectors of the published index that a planned chunk may keep. *)
Harvested(chunks) ==
    {[revision |-> r.revision, vector |-> r.vector] :
        r \in {s \in head.records : head.snapshot.profile = profile
                 /\ \E i \in DOMAIN chunks : ChunkRevision(chunks[i]) = s.revision /\ chunks[i].text = s.text}}

(* planDocumentIncrementalUpdate, then #harvest; a failed read only costs.   *)
(* A document without chunks has no index to update.                         *)
PlanAndHarvest ==
    /\ job.phase = "planning"
    /\ LET chunks == PlannedChunks(baseline, job.snapshot)
           planned == [job.snapshot EXCEPT !.chunks = chunks]
       IN IF ~ValidPlan(job.snapshot, chunks)
          THEN Refuse("invalid_plan", job.snapshot.file) /\ UNCHANGED faults
          ELSE /\ \/ job' = [job EXCEPT !.phase = IF chunks = << >> THEN "committed" ELSE "embedding",
                                        !.snapshot = planned, !.vectors = Harvested(chunks), !.attempt = 1]
                     /\ UNCHANGED faults
                  \/ /\ faults < MaxFaults /\ Harvested(chunks) # {}
                     /\ job' = [job EXCEPT !.phase = "embedding", !.snapshot = planned, !.attempt = 1]
                     /\ faults' = faults + 1
               /\ UNCHANGED refused
    /\ UNCHANGED <<file, profile, baseline, pending, head, nextId, edits, published>>

Embedded(c) == \E v \in job.vectors : v.revision = ChunkRevision(c)
Missing == SelectSeq(job.snapshot.chunks, LAMBDA c : ~Embedded(c))
NextBatch == SubSeq(Missing, 1, Min({BatchSize, Len(Missing)}))

EmbedBatch ==
    /\ job.phase = "embedding" /\ Missing # << >>
    /\ job' = [job EXCEPT !.attempt = 1,
                 !.vectors = @ \cup {[revision |-> ChunkRevision(c), vector |-> <<profile, c.text>>] : c \in Elements(NextBatch)}]
    /\ UNCHANGED <<file, profile, baseline, pending, head, nextId, refused, edits, faults, published>>

(* A retriable fault is retried until the attempts are used up; a timeout, a *)
(* cancellation, an output that does not fit and every other fault end the   *)
(* run. What was embedded is lost with it.                                   *)
EmbedFault ==
    /\ job.phase = "embedding" /\ Missing # << >>
    /\ faults < MaxFaults
    /\ \/ job.attempt < MaxAttempts /\ job' = [job EXCEPT !.attempt = @ + 1] /\ UNCHANGED refused
       \/ Refuse(IF job.attempt = MaxAttempts THEN "retry_exhausted" ELSE "provider_failure", job.snapshot.file)
    /\ faults' = faults + 1
    /\ UNCHANGED <<file, profile, baseline, pending, head, nextId, edits, published>>

(* The index version replaces the published one: DocumentIndexPublisher,     *)
(* whose staging is the subject of IndexStaging.                             *)
Publish ==
    /\ job.phase = "embedding" /\ \A c \in Elements(job.snapshot.chunks) : Embedded(c)
    /\ LET vectorOf(c) == (CHOOSE v \in job.vectors : v.revision = ChunkRevision(c)).vector
           records == {RecordOf(c, vectorOf(c)) : c \in Elements(job.snapshot.chunks)}
           manifest == CreateManifest(job.snapshot, records)
       IN IF /\ ValidIndexManifest(manifest, job.snapshot)
             /\ ValidVectorIndexRecords(manifest, records)
             /\ NoStaleRevisions(job.snapshot, records)
          THEN /\ head' = [snapshot |-> job.snapshot, records |-> records]
               /\ job' = [job EXCEPT !.phase = "committed"]
               /\ UNCHANGED refused
          ELSE Refuse("invalid_manifest", job.snapshot.file) /\ UNCHANGED head
    /\ UNCHANGED <<file, profile, baseline, pending, nextId, edits, faults, published>>

CommitReady ==
    /\ job.phase = "committed"
    /\ published' = BuildMarkdownPublication(baseline, job.snapshot)
    /\ job' = [job EXCEPT !.phase = "ready"]
    /\ UNCHANGED <<file, profile, baseline, pending, head, nextId, refused, edits, faults>>

(* The checkpoint moves on. *)
AdvanceBaseline ==
    /\ job.phase = "ready"
    /\ baseline' = job.snapshot
    /\ pending' = NoSnapshot
    /\ job' = NoJob
    /\ UNCHANGED <<file, profile, head, nextId, refused, edits, faults, published>>

Crash ==
    /\ job.phase # "idle" /\ faults < MaxFaults
    /\ job' = NoJob
    /\ faults' = faults + 1
    /\ UNCHANGED <<file, profile, baseline, pending, head, nextId, refused, edits, published>>

DocNext ==
    \/ Edit \/ Reconfigure \/ Issue \/ Resume \/ PlanAndHarvest
    \/ EmbedBatch \/ EmbedFault \/ Publish \/ CommitReady \/ AdvanceBaseline \/ Crash

DocSpec == DocInit /\ [][DocNext]_docVars

-----------------------------------------------------------------------------
(* Properties *)

(* Why the pipeline may refuse a file by its own documents: a content block  *)
(* without content, or a construct the parser does not take over.            *)
HasEmptyContent(content) ==
    \E i \in DOMAIN content :
        \/ content[i].text = << >> /\ content[i].kind \notin StructuralKinds \cup {"definition"}
        \/ content[i].text # << >> /\ AnalysisText(content[i].text) = << >>

(* What one stage of the pipeline makes, the validators of the next accept:  *)
(* whatever the document was before and whatever it has become, a run is     *)
(* refused only for a file with an empty content block (the validators of    *)
(* document-model.ts), for a construct the parser reports as not taken over, *)
(* for a pending snapshot of another profile, or by the embedding provider.  *)
AcceptsItsOwnOutput ==
    /\ refused.code \notin {"invalid_candidate", "invalid_units", "invalid_chunks", "invalid_plan", "invalid_manifest"}
    /\ refused.code = "invalid_document" => HasEmptyContent(refused.file)

(* What is published is what the file says: the index that replaces another  *)
(* has the units and chunks that a rebuild of the same file from nothing     *)
(* would have, although ids are inherited across edits, crashes and changes  *)
(* of profile (documentIndexEquivalenceViolations).                          *)
RebuiltFrom(content) == IssueSnapshot(content, NoSnapshot).snapshot

PublishesTheFile ==
    [][head' # head =>
          \A now \in {head'.snapshot} : \A rebuilt \in {RebuiltFrom(now.file)} : Equivalent(now, rebuilt)]_docVars

(* Every record of the published index carries the vector of its own text    *)
(* under the profile the index is published with, although vectors are taken *)
(* over from versions of other files, by revision and text, across crashes   *)
(* and changes of profile (reindex-document-incrementally.ts #harvest,       *)
(* embed-managed-chunks.ts).                                                 *)
VectorsAreOwn == \A r \in head.records : r.vector = <<head.snapshot.profile, r.text>>

(* Once a run is over, everything published is still true: a unit published  *)
(* as it was by an earlier run states the facts it has now, its parents'     *)
(* headings included, and names an index version that holds for it exactly   *)
(* the chunks it has now, under the daemon's profile of that run             *)
(* (build-markdown-publication.ts, inheritableScopeUnitIds).                 *)
KeptUnitsStillTrue ==
    job.phase = "idle" /\ pending = NoSnapshot /\ baseline # NoSnapshot =>
        /\ \A k \in published.units :
              /\ k.id \in IdsOf(baseline.units)
              /\ LET u == ById(baseline.units, k.id) IN
                 /\ k.facts = Facts(baseline, u)
                 /\ k.scope = ScopeOf(baseline, u)
                 /\ k.profile = baseline.profile
        /\ {k.id : k \in published.units} = IF baseline.chunks = << >> THEN {} ELSE IdsOf(baseline.units)

(* What a run takes over from earlier ones, units and vectors, is what it    *)
(* would have made itself.                                                   *)
TakenOverIsTrue == KeptUnitsStillTrue /\ VectorsAreOwn

(* A heading with what follows it up to the next heading. *)
SectionAt(content, i) ==
    LET ends == {j \in i + 1 .. Len(content) : content[j].kind = "heading"}
    IN SubSeq(content, i, IF ends = {} THEN Len(content) ELSE Min(ends) - 1)

Occurrences(content, node) == Cardinality({i \in DOMAIN content : content[i].kind = node.kind /\ content[i].text = node.text})

KeptSections(before, after) ==
    {SectionAt(after, i) : i \in {k \in DOMAIN after :
        /\ after[k].kind = "heading"
        /\ \E j \in DOMAIN before : before[j].kind = "heading" /\ SectionAt(before, j) = SectionAt(after, k)
        /\ \A n \in Elements(SectionAt(after, k)) : Occurrences(before, n) = 1 /\ Occurrences(after, n) = 1}}

(* An edit costs what it touches: a section that stays as it was, with texts *)
(* that occur once before and after, keeps the revision of every chunk, so   *)
(* that no vector of it is computed again and no scope of it changes         *)
(* (planDocumentIncrementalUpdate over the identities that document-         *)
(* capture.ts and semantic-unit-lineage.ts carry over); its blocks are       *)
(* reported as unchanged or moved, and no choice of blocks that keep their   *)
(* order is larger than the one the report goes by.                          *)
ChunksOver(snapshot, texts) ==
    {c \in Elements(snapshot.chunks) :
        \A s \in Elements(c.slices) : ById(snapshot.blocks, s.block).text \in texts}

FewestMoves(old, new, texts) ==
    LET changes == ClassifyBlockChanges(old, new)
        anchors == PatienceAnchors(old, new)
        InOrder(S) == \A a, b \in S : OrderOf(old, a) < OrderOf(old, b) <=> OrderOf(new, a) < OrderOf(new, b)
    IN /\ \A b \in Elements(new) : b.text \in texts => changes[b.id] \in {"unchanged", "moved"}
       /\ InOrder(anchors)
       /\ \A S \in SUBSET (IdsOf(old) \cap IdsOf(new)) : InOrder(S) => Cardinality(S) <= Cardinality(anchors)

ChangesOnlyWhatChanged ==
    [][baseline # NoSnapshot /\ head' # head =>
          \A section \in KeptSections(baseline.file, head'.snapshot.file) :
              LET texts == {n.text : n \in Elements(section)}
              IN /\ {ChunkRevision(c) : c \in ChunksOver(head'.snapshot, texts)}
                       = {ChunkRevision(c) : c \in ChunksOver(baseline, texts)}
                 /\ FewestMoves(baseline.blocks, head'.snapshot.blocks, texts)]_docVars
=============================================================================
