----------------------- MODULE DocumentReindexProofs ------------------------
(* What TLAPS proves about one document through captures, edits, crashes and *)
(* embedding faults: everything published stays true of the document, and    *)
(* every vector of the index is that of the text it is stored with.          *)
EXTENDS DocumentReindex, TLAPS

-----------------------------------------------------------------------------
(* Snapshots and the publication                                             *)

\* A record with the fields of a snapshot.
IsSnapshot(s) ==
    s = [observation |-> s.observation, file |-> s.file, profile |-> s.profile, title |-> s.title,
         blocks |-> s.blocks, units |-> s.units, chunks |-> s.chunks]

\* No two units have one id.
OneUnitEach(s) == \A i, j \in DOMAIN s.units : s.units[i].id = s.units[j].id => i = j

\* A published unit says what the snapshot says of the unit of its id.
TrueUnit(k, s) ==
    /\ k.id \in IdsOf(s.units)
    /\ k.facts = Facts(s, ById(s.units, k.id))
    /\ k.scope = ScopeOf(s, ById(s.units, k.id))
    /\ k.profile = s.profile

\* The publication is the one of the snapshot s.
Matches(units, s) ==
    /\ \A k \in units : TrueUnit(k, s)
    /\ {k.id : k \in units} = IF s.chunks = << >> THEN {} ELSE IdsOf(s.units)

Planned(previous, current) == [current EXCEPT !.chunks = PlannedChunks(previous, current)]

\* The checkpoint: the snapshot issued last is one number ahead, and of another file.
CheckpointInv ==
    /\ IsSnapshot(baseline) /\ IsSnapshot(pending)
    /\ OneUnitEach(baseline) /\ OneUnitEach(pending)
    /\ baseline.observation \in Nat
    /\ baseline # NoSnapshot => baseline.observation # 0
    /\ pending # NoSnapshot =>
          /\ pending.observation = baseline.observation + 1
          /\ baseline # NoSnapshot => pending.file # baseline.file

\* The publication is the one of the snapshot published last, or already of the one issued since.
PublicationInv ==
    \/ /\ published.observation = baseline.observation
       /\ baseline # NoSnapshot => Matches(published.units, baseline)
    \/ /\ pending # NoSnapshot /\ published.observation = pending.observation
       /\ Matches(published.units, Planned(baseline, pending))

\* A run works on the pending snapshot, and has published it when it is ready.
JobInv ==
    /\ job.phase # "idle" => pending # NoSnapshot
    /\ job.phase = "planning" => job.snapshot = pending
    /\ job.phase \in {"embedding", "committed", "ready"} => job.snapshot = Planned(baseline, pending)
    /\ job.phase = "ready" => published.observation = pending.observation
    /\ job.phase \in {"planning", "embedding", "committed"} => published.observation # pending.observation

\* A vector is that of the text of the revision it stands for, under the profile of the run.
VectorInv ==
    /\ VectorsAreOwn
    /\ \A r \in head.records : r.text = r.revision.text
    /\ job.phase \in {"planning", "embedding"} => job.snapshot.profile = profile
    /\ job.phase = "planning" => job.vectors = {}
    /\ job.phase = "embedding" =>
          \A v \in job.vectors : v.vector = <<job.snapshot.profile, v.revision.text>>

JobShape ==
    /\ job = [phase |-> job.phase, snapshot |-> job.snapshot, vectors |-> job.vectors, attempt |-> job.attempt]
    /\ job.phase \in {"idle", "planning", "embedding", "committed", "ready"}

DocInv == CheckpointInv /\ PublicationInv /\ JobShape /\ JobInv /\ VectorInv

LEMMA NotNoSnapshot ==
    ASSUME NEW s, s.observation # 0
    PROVE  s # NoSnapshot
BY DEF NoSnapshot

LEMMA PlannedShape ==
    ASSUME NEW p, NEW s, IsSnapshot(s)
    PROVE  /\ IsSnapshot(Planned(p, s))
           /\ Planned(p, s).observation = s.observation
           /\ Planned(p, s).file = s.file
           /\ Planned(p, s).profile = s.profile
           /\ Planned(p, s).units = s.units
           /\ Planned(p, s).chunks = PlannedChunks(p, s)
<1> DEFINE c == PlannedChunks(p, s)
<1>1. Planned(p, s) = [observation |-> s.observation, file |-> s.file, profile |-> s.profile, title |-> s.title,
                       blocks |-> s.blocks, units |-> s.units, chunks |-> c]
  BY DEF Planned, IsSnapshot
<1>2. PlannedChunks(p, s) = c
  OBVIOUS
<1> HIDE DEF c
<1>3. QED
  BY <1>1, <1>2 DEF IsSnapshot

\* A unit is the one found under its id.
LEMMA Found ==
    ASSUME NEW s, OneUnitEach(s), NEW u \in Elements(s.units)
    PROVE  u.id \in IdsOf(s.units) /\ ById(s.units, u.id) = u
<1>1. PICK i \in DOMAIN s.units : u = s.units[i]
  BY DEF Elements
<1>2. \A j \in DOMAIN s.units : s.units[j].id = u.id => j = i
  BY <1>1 DEF OneUnitEach
<1>3. QED
  BY <1>1, <1>2 DEF IdsOf, ById

-----------------------------------------------------------------------------
(* Issue: what is issued has passed the validators.                          *)

LEMMA IssuedAsValid ==
    ASSUME NEW content, NEW parsed, NEW blocks, NEW units, NEW chunks, NEW issued,
           issued = IssuedAs(content, parsed, blocks, units, chunks), issued.code = "issued"
    PROVE  /\ IsSnapshot(issued.snapshot) /\ OneUnitEach(issued.snapshot)
           /\ issued.snapshot.observation = baseline.observation + 1
           /\ issued.snapshot.file = content
           /\ issued.snapshot.profile = profile
<1>1. ValidSemanticUnits(blocks, units)
  BY Zenon DEF IssuedAs
<1>2. issued.snapshot = [observation |-> baseline.observation + 1, file |-> content, profile |-> profile,
                         title |-> parsed.title, blocks |-> blocks, units |-> units, chunks |-> chunks]
  BY DEF IssuedAs
<1>3. NoRepeats([i \in DOMAIN units |-> units[i].id])
  BY <1>1 DEF ValidSemanticUnits
<1>4. \A i, j \in DOMAIN units : units[i].id = units[j].id => i = j
  BY <1>3 DEF NoRepeats
<1>5. QED
  BY <1>2, <1>4 DEF IsSnapshot, OneUnitEach

LEMMA IssueSnapshotValid ==
    ASSUME NEW content, NEW previous, NEW issued,
           issued = IssueSnapshot(content, previous), issued.code = "issued"
    PROVE  /\ IsSnapshot(issued.snapshot) /\ OneUnitEach(issued.snapshot)
           /\ issued.snapshot.observation = baseline.observation + 1
           /\ issued.snapshot.file = content
           /\ issued.snapshot.profile = profile
BY IssuedAsValid DEF IssueSnapshot, CaptureDocument, SegmentDocument, ChunkDocument

-----------------------------------------------------------------------------
(* The publication of the planned snapshot.                                  *)

\* What an inherited unit is published as was true of the snapshot before,
\* and nothing that it says has changed since.
LEMMA InheritedIsTrue ==
    ASSUME NEW previous, NEW current, OneUnitEach(previous), OneUnitEach(current),
           previous # NoSnapshot => current.file # previous.file,
           NEW u \in Elements(current.units),
           u.id \in InheritableScopeUnitIds(previous, current, current.chunks),
           NEW k, k.id = u.id, TrueUnit(k, previous),
           InheritanceProjection(k) = InheritanceProjection(KnowledgeUnit(current, u))
    PROVE  TrueUnit(k, current)
<1>1. u.id \in IdsOf(current.units) /\ ById(current.units, u.id) = u
  BY Found
<1>2. /\ FullRebuildReasons(previous, current) = {}
      /\ u.id \in IdsOf(previous.units)
      /\ UnitRevision(ById(previous.units, u.id), previous.blocks, previous.file)
           = UnitRevision(u, current.blocks, current.file)
      /\ Revisions(ChunksOf(previous.chunks, u.id)) = Revisions(ChunksOf(current.chunks, u.id))
  <2> DEFINE changes == ClassifySemanticUnitChanges(previous, current)
  <2>1. /\ FullRebuildReasons(previous, current) = {} /\ u.id \in DOMAIN changes /\ changes[u.id] = "unchanged"
        /\ Revisions(ChunksOf(previous.chunks, u.id)) = Revisions(ChunksOf(current.chunks, u.id))
    BY DEF InheritableScopeUnitIds
  <2>2. /\ u.id \in IdsOf(previous.units)
        /\ UnitRevision(ById(previous.units, u.id), previous.blocks, previous.file)
             = UnitRevision(ById(current.units, u.id), current.blocks, current.file)
    BY <1>1, <2>1 DEF ClassifySemanticUnitChanges
  <2>3. QED
    BY <1>1, <2>1, <2>2
<1>3. previous # NoSnapshot /\ previous.profile = current.profile
  BY <1>2 DEF FullRebuildReasons
<1>4. ById(previous.units, u.id) = u /\ u.kind # "document"
  BY <1>2, <1>3 DEF UnitRevision
<1>5. k.facts = Facts(current, u) /\ k.profile = current.profile
  BY DEF InheritanceProjection, KnowledgeUnit
<1>6. k.scope = ScopeOf(previous, u)
  BY <1>4 DEF TrueUnit
<1>7. ScopeOf(previous, u) = ScopeOf(current, u)
  BY <1>2, <1>4 DEF ScopeOf
<1>8. QED
  BY <1>1, <1>5, <1>6, <1>7 DEF TrueUnit

LEMMA NewIsTrue ==
    ASSUME NEW current, OneUnitEach(current), NEW u \in Elements(current.units)
    PROVE  TrueUnit(KnowledgeUnit(current, u), current) /\ KnowledgeUnit(current, u).id = u.id
BY Found DEF TrueUnit, KnowledgeUnit

LEMMA BuiltIsTrue ==
    ASSUME NEW previous, NEW current, OneUnitEach(previous), OneUnitEach(current),
           previous # NoSnapshot => current.file # previous.file,
           previous # NoSnapshot => Matches(published.units, previous),
           NEW built, built = BuildMarkdownPublication(previous, current)
    PROVE  built.observation = current.observation /\ Matches(built.units, current)
<1> DEFINE inheritable == InheritableScopeUnitIds(previous, current, current.chunks)
           before(u) == {k \in published.units : k.id = u.id
                           /\ InheritanceProjection(k) = InheritanceProjection(KnowledgeUnit(current, u))}
           unit(u) == IF u.id \in inheritable /\ before(u) # {} THEN CHOOSE k \in before(u) : TRUE
                      ELSE KnowledgeUnit(current, u)
<1>1. built = [observation |-> current.observation,
               units |-> IF current.chunks = << >> THEN {} ELSE {unit(u) : u \in Elements(current.units)}]
  BY Zenon DEF BuildMarkdownPublication
<1>2. ASSUME NEW u \in Elements(current.units)
      PROVE  TrueUnit(unit(u), current) /\ unit(u).id = u.id
  <2>1. CASE u.id \in inheritable /\ before(u) # {}
    <3>1. unit(u) \in before(u)
      BY <2>1
    <3> DEFINE k == unit(u)
    <3>2. k \in published.units /\ k.id = u.id
          /\ InheritanceProjection(k) = InheritanceProjection(KnowledgeUnit(current, u))
      BY <3>1
    <3>3. previous # NoSnapshot
      BY <2>1 DEF InheritableScopeUnitIds, FullRebuildReasons
    <3>4. TrueUnit(k, previous)
      BY <3>2, <3>3 DEF Matches
    <3> HIDE DEF k
    <3>5. TrueUnit(k, current)
      BY <2>1, <3>2, <3>4, InheritedIsTrue
    <3>6. QED
      BY <3>2, <3>5 DEF k
  <2>2. CASE ~(u.id \in inheritable /\ before(u) # {})
    <3>1. unit(u) = KnowledgeUnit(current, u)
      BY <2>2
    <3>2. QED
      BY <3>1, NewIsTrue
  <2>3. QED
    BY <2>1, <2>2
<1> HIDE DEF unit
<1>3. {u.id : u \in Elements(current.units)} = IdsOf(current.units)
  BY DEF Elements, IdsOf
<1>4. CASE current.chunks = << >>
  BY <1>1, <1>4 DEF Matches
<1>5. CASE current.chunks # << >>
  <2>1. built.units = {unit(u) : u \in Elements(current.units)}
    BY <1>1, <1>5
  <2>2. \A k \in built.units : TrueUnit(k, current)
    BY <1>2, <2>1
  <2>3. {k.id : k \in built.units} = IdsOf(current.units)
    BY <1>2, <1>3, <2>1
  <2>4. QED
    BY <1>1, <1>5, <2>2, <2>3 DEF Matches
<1>6. QED
  BY <1>4, <1>5

-----------------------------------------------------------------------------
(* The invariant                                                             *)

LEMMA DocInitInv ==
    ASSUME DocInit
    PROVE  DocInv
<1>1. IsSnapshot(NoSnapshot) /\ OneUnitEach(NoSnapshot) /\ NoSnapshot.observation = 0
  BY DEF IsSnapshot, OneUnitEach, NoSnapshot
<1>2. CheckpointInv
  BY <1>1 DEF DocInit, CheckpointInv
<1>3. PublicationInv
  BY <1>1 DEF DocInit, PublicationInv
<1>4. JobShape /\ JobInv
  BY DEF DocInit, JobShape, JobInv, NoJob
<1>5. VectorInv
  BY DEF DocInit, VectorInv, VectorsAreOwn, NoHead, NoJob
<1>6. QED
  BY <1>2, <1>3, <1>4, <1>5 DEF DocInv

\* What a step that leaves a part alone, or ends the run, keeps.
LEMMA CheckpointKept ==
    ASSUME CheckpointInv, UNCHANGED <<baseline, pending>>
    PROVE  CheckpointInv'
<1>1. CheckpointInv' = CheckpointInv
  BY DEF CheckpointInv
<1>2. QED
  BY <1>1

LEMMA PublicationKept ==
    ASSUME PublicationInv, UNCHANGED <<baseline, pending, published>>
    PROVE  PublicationInv'
<1>1. PublicationInv' = PublicationInv
  BY DEF PublicationInv
<1>2. QED
  BY <1>1

LEMMA RunOver ==
    ASSUME DocInv, job' = NoJob, UNCHANGED <<baseline, pending, published, head>>
    PROVE  DocInv'
<1>1. CheckpointInv' /\ PublicationInv'
  BY CheckpointKept, PublicationKept DEF DocInv
<1>2. JobShape' /\ JobInv'
  BY DEF JobShape, JobInv, NoJob
<1>3. VectorInv'
  BY DEF DocInv, VectorInv, VectorsAreOwn, NoJob
<1>4. QED
  BY <1>1, <1>2, <1>3 DEF DocInv

\* The pending snapshot is one ahead: publishing it is seen.
LEMMA PendingNotPublished ==
    ASSUME CheckpointInv, PublicationInv, pending # NoSnapshot, published.observation # pending.observation
    PROVE  /\ published.observation = baseline.observation
           /\ baseline # NoSnapshot => Matches(published.units, baseline)
BY DEF PublicationInv

LEMMA PendingPublished ==
    ASSUME CheckpointInv, PublicationInv, pending # NoSnapshot, published.observation = pending.observation
    PROVE  Matches(published.units, Planned(baseline, pending))
<1>1. published.observation # baseline.observation
  BY DEF CheckpointInv
<1>2. QED
  BY <1>1 DEF PublicationInv

LEMMA IssueInv ==
    ASSUME DocInv, Issue
    PROVE  DocInv'
<1>1. PICK issued \in {IssueSnapshot(file, baseline)} :
          IF issued.code = "issued"
          THEN /\ pending' = issued.snapshot
               /\ job' = [NoJob EXCEPT !.phase = "planning", !.snapshot = issued.snapshot]
          ELSE job' = NoJob /\ UNCHANGED pending
  BY DEF Issue, Refuse
<1>2. /\ pending = NoSnapshot /\ (baseline = NoSnapshot \/ baseline.file # file)
      /\ UNCHANGED <<file, profile, baseline, head, published>>
  BY DEF Issue, CapturesAnyway
<1>3. CASE issued.code = "issued"
  <2> DEFINE s == issued.snapshot
  <2>1. /\ IsSnapshot(s) /\ OneUnitEach(s) /\ s.observation = baseline.observation + 1
        /\ s.file = file /\ s.profile = profile
    BY <1>1, <1>3, IssueSnapshotValid
  <2>2. pending' = s /\ job' = [NoJob EXCEPT !.phase = "planning", !.snapshot = s]
    BY <1>1, <1>3
  <2>3. job'.phase = "planning" /\ job'.snapshot = s /\ job'.vectors = {}
    BY <2>2 DEF NoJob
  <2>4. JobShape'
    BY <2>2 DEF NoJob, JobShape
  <2> HIDE DEF s
  <2>5. baseline.observation \in Nat
    BY DEF DocInv, CheckpointInv
  <2>6. s # NoSnapshot
    BY <2>1, <2>5, NotNoSnapshot
  <2>7. CheckpointInv'
    BY <1>2, <2>1, <2>2 DEF DocInv, CheckpointInv
  <2>8. /\ published.observation = baseline.observation
        /\ baseline # NoSnapshot => Matches(published.units, baseline)
    BY <1>2 DEF DocInv, PublicationInv
  <2>9. PublicationInv'
    BY <1>2, <2>8 DEF PublicationInv
  <2>10. JobInv'
    BY <1>2, <2>1, <2>2, <2>3, <2>5, <2>6, <2>8 DEF JobInv
  <2>11. VectorInv'
    BY <1>2, <2>1, <2>3 DEF DocInv, VectorInv, VectorsAreOwn
  <2>12. QED
    BY <2>4, <2>7, <2>9, <2>10, <2>11 DEF DocInv
<1>4. CASE issued.code # "issued"
  BY <1>1, <1>2, <1>4, RunOver
<1>5. QED
  BY <1>3, <1>4

LEMMA ResumeInv ==
    ASSUME DocInv, Resume
    PROVE  DocInv'
<1>1. /\ pending # NoSnapshot
      /\ UNCHANGED <<file, profile, baseline, pending, head, published>>
  BY DEF Resume
<1>2. CheckpointInv' /\ PublicationInv'
  BY <1>1, CheckpointKept, PublicationKept DEF DocInv
<1>3. CASE pending.profile = profile /\ published.observation = pending.observation
  <2>1. job' = [NoJob EXCEPT !.phase = "ready", !.snapshot = Planned(baseline, pending)]
    BY <1>3 DEF Resume, Planned
  <2>2. job'.phase = "ready" /\ job'.snapshot = Planned(baseline, pending) /\ JobShape'
    BY <2>1 DEF NoJob, JobShape
  <2>3. JobInv'
    BY <1>1, <1>3, <2>2 DEF JobInv
  <2>4. VectorInv'
    BY <1>1, <2>2 DEF DocInv, VectorInv, VectorsAreOwn
  <2>5. QED
    BY <1>2, <2>2, <2>3, <2>4 DEF DocInv
<1>4. CASE pending.profile = profile /\ published.observation # pending.observation
  <2>1. job' = [NoJob EXCEPT !.phase = "planning", !.snapshot = pending]
    BY <1>4 DEF Resume
  <2>2. job'.phase = "planning" /\ job'.snapshot = pending /\ job'.vectors = {} /\ JobShape'
    BY <2>1 DEF NoJob, JobShape
  <2>3. JobInv'
    BY <1>1, <1>4, <2>2 DEF JobInv
  <2>4. VectorInv'
    BY <1>1, <1>4, <2>2 DEF DocInv, VectorInv, VectorsAreOwn
  <2>5. QED
    BY <1>2, <2>2, <2>3, <2>4 DEF DocInv
<1>5. CASE pending.profile # profile
  BY <1>1, <1>5, RunOver DEF Resume, Refuse
<1>6. QED
  BY <1>3, <1>4, <1>5

\* A vector that is taken over is that of the revision's text under the profile of the run.
LEMMA HarvestedOwn ==
    ASSUME VectorInv, NEW chunks
    PROVE  \A v \in Harvested(chunks) : v.vector = <<profile, v.revision.text>>
<1>1. SUFFICES ASSUME NEW v \in Harvested(chunks)
               PROVE  v.vector = <<profile, v.revision.text>>
  OBVIOUS
<1>2. PICK r \in head.records : v = [revision |-> r.revision, vector |-> r.vector] /\ head.snapshot.profile = profile
  BY DEF Harvested
<1>3. r.vector = <<head.snapshot.profile, r.text>> /\ r.text = r.revision.text
  BY DEF VectorInv, VectorsAreOwn
<1>4. QED
  BY <1>2, <1>3

LEMMA PlanAndHarvestInv ==
    ASSUME DocInv, PlanAndHarvest
    PROVE  DocInv'
<1>1. /\ job.phase = "planning" /\ UNCHANGED <<file, profile, baseline, pending, head, published>>
  BY DEF PlanAndHarvest
<1>2. CheckpointInv' /\ PublicationInv'
  BY <1>1, CheckpointKept, PublicationKept DEF DocInv
<1>3. /\ pending # NoSnapshot /\ job.snapshot = pending /\ pending.profile = profile
      /\ published.observation # pending.observation
  BY <1>1 DEF DocInv, JobInv, VectorInv
<1> DEFINE chunks == PlannedChunks(baseline, job.snapshot)
<1>4. [job.snapshot EXCEPT !.chunks = chunks] = Planned(baseline, pending)
  BY <1>3 DEF Planned
<1>5. CASE ~ValidPlan(job.snapshot, chunks)
  BY <1>1, <1>5, RunOver DEF PlanAndHarvest, Refuse
<1>6. CASE ValidPlan(job.snapshot, chunks)
  <2>1. PICK phase \in {"embedding", "committed"}, vectors \in {{}, Harvested(chunks)} :
           job' = [job EXCEPT !.phase = phase, !.snapshot = Planned(baseline, pending),
                              !.vectors = vectors, !.attempt = 1]
    <3>1. \/ job' = [job EXCEPT !.phase = IF chunks = << >> THEN "committed" ELSE "embedding",
                                !.snapshot = Planned(baseline, pending), !.vectors = Harvested(chunks), !.attempt = 1]
          \/ job' = [job EXCEPT !.phase = "embedding", !.snapshot = Planned(baseline, pending), !.attempt = 1]
      BY <1>4, <1>6 DEF PlanAndHarvest
    <3>2. job.vectors = {}
      BY <1>1 DEF DocInv, VectorInv
    <3>3. job' = [job EXCEPT !.phase = "embedding", !.snapshot = Planned(baseline, pending), !.attempt = 1]
            => job' = [job EXCEPT !.phase = "embedding", !.snapshot = Planned(baseline, pending),
                                  !.vectors = {}, !.attempt = 1]
      BY <3>2 DEF DocInv, JobShape
    <3> HIDE DEF chunks
    <3>4. CASE chunks = << >>
      BY <3>1, <3>3, <3>4
    <3>5. CASE chunks # << >>
      BY <3>1, <3>3, <3>5
    <3>6. QED
      BY <3>4, <3>5
  <2>2. /\ job'.phase = phase /\ job'.snapshot = Planned(baseline, pending) /\ job'.vectors = vectors /\ JobShape'
    BY <2>1 DEF DocInv, JobShape
  <2>3. JobInv'
    BY <1>1, <1>3, <2>2 DEF JobInv
  <2>4. Planned(baseline, pending).profile = profile
    BY <1>3, PlannedShape DEF DocInv, CheckpointInv
  <2>5. \A v \in vectors : v.vector = <<profile, v.revision.text>>
    BY HarvestedOwn DEF DocInv
  <2>6. VectorInv'
    BY <1>1, <2>2, <2>4, <2>5 DEF DocInv, VectorInv, VectorsAreOwn
  <2>7. QED
    BY <1>2, <2>2, <2>3, <2>6 DEF DocInv
<1>7. QED
  BY <1>5, <1>6

LEMMA EmbedBatchInv ==
    ASSUME DocInv, EmbedBatch
    PROVE  DocInv'
<1> DEFINE new == {[revision |-> ChunkRevision(c), vector |-> <<profile, c.text>>] : c \in Elements(NextBatch)}
<1>1. /\ job.phase = "embedding" /\ UNCHANGED <<file, profile, baseline, pending, head, published>>
      /\ job' = [job EXCEPT !.attempt = 1, !.vectors = @ \cup new]
  BY DEF EmbedBatch
<1>2. CheckpointInv' /\ PublicationInv'
  BY <1>1, CheckpointKept, PublicationKept DEF DocInv
<1>3. \A v \in new : v.vector = <<profile, v.revision.text>>
  BY DEF ChunkRevision
<1> HIDE DEF new
<1>4. job'.phase = "embedding" /\ job'.snapshot = job.snapshot /\ job'.vectors = job.vectors \cup new /\ JobShape'
  BY <1>1 DEF DocInv, JobShape
<1>5. JobInv'
  BY <1>1, <1>4 DEF DocInv, JobInv
<1>6. VectorInv'
  BY <1>1, <1>3, <1>4 DEF DocInv, VectorInv, VectorsAreOwn
<1>7. QED
  BY <1>2, <1>4, <1>5, <1>6 DEF DocInv

LEMMA EmbedFaultInv ==
    ASSUME DocInv, EmbedFault
    PROVE  DocInv'
<1>1. /\ job.phase = "embedding" /\ UNCHANGED <<file, profile, baseline, pending, head, published>>
  BY DEF EmbedFault
<1>2. CASE job' = [job EXCEPT !.attempt = @ + 1]
  <2>1. CheckpointInv' /\ PublicationInv'
    BY <1>1, CheckpointKept, PublicationKept DEF DocInv
  <2>2. job'.phase = "embedding" /\ job'.snapshot = job.snapshot /\ job'.vectors = job.vectors /\ JobShape'
    BY <1>1, <1>2 DEF DocInv, JobShape
  <2>3. JobInv' /\ VectorInv'
    BY <1>1, <2>2 DEF DocInv, JobInv, VectorInv, VectorsAreOwn
  <2>4. QED
    BY <2>1, <2>2, <2>3 DEF DocInv
<1>3. CASE job' = NoJob
  BY <1>1, <1>3, RunOver
<1>4. QED
  BY <1>2, <1>3 DEF EmbedFault, Refuse

LEMMA PublishInv ==
    ASSUME DocInv, Publish
    PROVE  DocInv'
<1> DEFINE vectorOf(c) == (CHOOSE v \in job.vectors : v.revision = ChunkRevision(c)).vector
           records == {RecordOf(c, vectorOf(c)) : c \in Elements(job.snapshot.chunks)}
<1>1. /\ job.phase = "embedding" /\ \A c \in Elements(job.snapshot.chunks) : Embedded(c)
      /\ UNCHANGED <<file, profile, baseline, pending, published>>
  BY DEF Publish
<1>2. \/ head' = [snapshot |-> job.snapshot, records |-> records] /\ job' = [job EXCEPT !.phase = "committed"]
      \/ job' = NoJob /\ UNCHANGED head
  BY DEF Publish, Refuse
<1>3. CASE head' = [snapshot |-> job.snapshot, records |-> records] /\ job' = [job EXCEPT !.phase = "committed"]
  <2>1. CheckpointInv' /\ PublicationInv'
    BY <1>1, CheckpointKept, PublicationKept DEF DocInv
  <2>2. ASSUME NEW c \in Elements(job.snapshot.chunks)
        PROVE  vectorOf(c) = <<job.snapshot.profile, c.text>>
    <3>1. \E v \in job.vectors : v.revision = ChunkRevision(c)
      BY <1>1 DEF Embedded
    <3>2. PICK v \in job.vectors : v.revision = ChunkRevision(c) /\ vectorOf(c) = v.vector
      BY <3>1
    <3>3. v.vector = <<job.snapshot.profile, v.revision.text>>
      BY <1>1 DEF DocInv, VectorInv
    <3>4. QED
      BY <3>2, <3>3 DEF ChunkRevision
  <2> HIDE DEF vectorOf
  <2>3. \A r \in records : r.vector = <<job.snapshot.profile, r.text>> /\ r.text = r.revision.text
    BY <2>2 DEF RecordOf, ChunkRevision
  <2> HIDE DEF records
  <2>4. head'.records = records /\ head'.snapshot = job.snapshot
    BY <1>3
  <2>5. job'.phase = "committed" /\ job'.snapshot = job.snapshot /\ JobShape'
    BY <1>3 DEF DocInv, JobShape
  <2>6. JobInv'
    BY <1>1, <2>5 DEF DocInv, JobInv
  <2>7. VectorInv'
    BY <2>3, <2>4, <2>5 DEF VectorInv, VectorsAreOwn
  <2>8. QED
    BY <2>1, <2>5, <2>6, <2>7 DEF DocInv
<1>4. CASE job' = NoJob /\ UNCHANGED head
  BY <1>1, <1>4, RunOver
<1>5. QED
  BY <1>2, <1>3, <1>4

LEMMA CommitReadyInv ==
    ASSUME DocInv, CommitReady
    PROVE  DocInv'
<1> DEFINE next == Planned(baseline, pending)
<1>1. /\ job.phase = "committed" /\ job' = [job EXCEPT !.phase = "ready"]
      /\ published' = BuildMarkdownPublication(baseline, job.snapshot)
      /\ UNCHANGED <<file, profile, baseline, pending, head>>
  BY DEF CommitReady
<1>2. CheckpointInv'
  BY <1>1, CheckpointKept DEF DocInv
<1>3. /\ pending # NoSnapshot /\ job.snapshot = next /\ published.observation # pending.observation
  BY <1>1 DEF DocInv, JobInv
<1>4. baseline # NoSnapshot => Matches(published.units, baseline)
  BY <1>3, PendingNotPublished DEF DocInv
<1>5. /\ next.observation = pending.observation /\ next.units = pending.units /\ next.file = pending.file
  BY PlannedShape DEF DocInv, CheckpointInv
<1> HIDE DEF next
<1>6. /\ OneUnitEach(baseline) /\ OneUnitEach(next)
      /\ baseline # NoSnapshot => next.file # baseline.file
  BY <1>3, <1>5 DEF DocInv, CheckpointInv, OneUnitEach
<1>7. published'.observation = next.observation /\ Matches(published'.units, next)
  BY <1>1, <1>3, <1>4, <1>6, BuiltIsTrue
<1>8. next' = next
  BY <1>1 DEF next
<1>9. PublicationInv'
  BY <1>1, <1>3, <1>5, <1>7 DEF PublicationInv, next
<1>10. job'.phase = "ready" /\ job'.snapshot = next /\ JobShape'
  BY <1>1, <1>3 DEF DocInv, JobShape
<1>11. JobInv'
  BY <1>1, <1>3, <1>5, <1>7, <1>10 DEF JobInv, next
<1>12. VectorInv'
  BY <1>1, <1>10 DEF DocInv, VectorInv, VectorsAreOwn
<1>13. QED
  BY <1>2, <1>9, <1>10, <1>11, <1>12 DEF DocInv

LEMMA AdvanceBaselineInv ==
    ASSUME DocInv, AdvanceBaseline
    PROVE  DocInv'
<1> DEFINE next == Planned(baseline, pending)
<1>1. /\ job.phase = "ready" /\ baseline' = job.snapshot /\ pending' = NoSnapshot /\ job' = NoJob
      /\ UNCHANGED <<file, profile, head, published>>
  BY DEF AdvanceBaseline
<1>2. pending # NoSnapshot /\ job.snapshot = next /\ published.observation = pending.observation
  BY <1>1 DEF DocInv, JobInv
<1>3. Matches(published.units, next)
  BY <1>2, PendingPublished DEF DocInv
<1>4. IsSnapshot(next) /\ next.observation = pending.observation /\ next.units = pending.units
  BY PlannedShape DEF DocInv, CheckpointInv
<1> HIDE DEF next
<1>5. OneUnitEach(next) /\ next.observation \in Nat /\ next.observation # 0
  BY <1>2, <1>4 DEF DocInv, CheckpointInv, OneUnitEach
<1>6. IsSnapshot(NoSnapshot) /\ OneUnitEach(NoSnapshot)
  BY DEF IsSnapshot, OneUnitEach, NoSnapshot
<1>7. CheckpointInv'
  BY <1>1, <1>2, <1>4, <1>5, <1>6 DEF CheckpointInv
<1>8. PublicationInv'
  BY <1>1, <1>2, <1>3, <1>4 DEF PublicationInv
<1>9. JobShape' /\ JobInv'
  BY <1>1 DEF JobShape, JobInv, NoJob
<1>10. VectorInv'
  BY <1>1 DEF DocInv, VectorInv, VectorsAreOwn, NoJob
<1>11. QED
  BY <1>7, <1>8, <1>9, <1>10 DEF DocInv

LEMMA DocNextInv ==
    ASSUME DocInv, [DocNext]_docVars
    PROVE  DocInv'
<1>1. CASE Edit
  <2>1. UNCHANGED <<profile, baseline, pending, head, job, published>>
    BY <1>1 DEF Edit
  <2>2. CheckpointInv' /\ PublicationInv'
    BY <2>1, CheckpointKept, PublicationKept DEF DocInv
  <2>3. QED
    BY <2>1, <2>2 DEF DocInv, JobShape, JobInv, VectorInv, VectorsAreOwn
<1>2. CASE Reconfigure
  BY <1>2, RunOver DEF Reconfigure
<1>3. CASE Issue
  BY <1>3, IssueInv
<1>4. CASE Resume
  BY <1>4, ResumeInv
<1>5. CASE PlanAndHarvest
  BY <1>5, PlanAndHarvestInv
<1>6. CASE EmbedBatch
  BY <1>6, EmbedBatchInv
<1>7. CASE EmbedFault
  BY <1>7, EmbedFaultInv
<1>8. CASE Publish
  BY <1>8, PublishInv
<1>9. CASE CommitReady
  BY <1>9, CommitReadyInv
<1>10. CASE AdvanceBaseline
  BY <1>10, AdvanceBaselineInv
<1>11. CASE Crash
  BY <1>11, RunOver DEF Crash
<1>12. CASE UNCHANGED docVars
  <2>1. UNCHANGED <<profile, baseline, pending, head, job, published>>
    BY <1>12 DEF docVars
  <2>2. CheckpointInv' /\ PublicationInv'
    BY <2>1, CheckpointKept, PublicationKept DEF DocInv
  <2>3. QED
    BY <2>1, <2>2 DEF DocInv, JobShape, JobInv, VectorInv, VectorsAreOwn
<1>13. QED
  BY <1>1, <1>2, <1>3, <1>4, <1>5, <1>6, <1>7, <1>8, <1>9, <1>10, <1>11, <1>12 DEF DocNext

(* The invariant holds in every reachable state, for every set of files,     *)
(* parser, policy, number of edits and of faults.                            *)
THEOREM ReindexInvariant == DocSpec => []DocInv
<1>1. DocInit => DocInv
  BY DocInitInv
<1>2. DocInv /\ [DocNext]_docVars => DocInv'
  BY DocNextInv
<1>3. QED
  BY <1>1, <1>2, PTL DEF DocSpec

(* Whenever no run is under way, every published unit states what the        *)
(* document now says, whichever run published it                             *)
(* (build-markdown-publication.ts, inheritableScopeUnitIds), and at any time *)
(* no vector of the index is that of another text or of another profile,     *)
(* however it came there (reindex-document-incrementally.ts #harvest).       *)
THEOREM TakenOverStaysTrue == DocSpec => []TakenOverIsTrue
<1>1. DocInv => KeptUnitsStillTrue
  <2>1. SUFFICES ASSUME DocInv, pending = NoSnapshot, baseline # NoSnapshot
                 PROVE  KeptUnitsStillTrue
    BY DEF KeptUnitsStillTrue
  <2>2. Matches(published.units, baseline)
    BY <2>1 DEF DocInv, PublicationInv
  <2>3. QED
    BY <2>2 DEF Matches, TrueUnit, KeptUnitsStillTrue
<1>2. DocInv => VectorsAreOwn
  BY DEF DocInv, VectorInv
<1>3. DocInv => TakenOverIsTrue
  BY <1>1, <1>2 DEF TakenOverIsTrue
<1>4. QED
  BY <1>3, ReindexInvariant, PTL
=============================================================================
