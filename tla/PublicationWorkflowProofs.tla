--------------------- MODULE PublicationWorkflowProofs ---------------------
(***************************************************************************)
(* Proofs about PublicationWorkflow, for any contents, workers, bounds and *)
(* edits, reverts included: the publications of a source are one line of   *)
(* succession, what is published is in the catalog, and a process that     *)
(* ingests a source alone keeps the baseline of its latest publication.    *)
(***************************************************************************)
EXTENDS MCPublicationWorkflow, FiniteSetTheorems, TLAPS

MaybeContent == Contents \cup {NoContent}
Pubs == [id : Nat, obs : MaybeContent, ids : Nat, prev : Nat, stamp : Nat]
Intents == [pub : Pubs, committed : BOOLEAN]
Snapshots == [content : MaybeContent, ids : Nat]
Checkpoints == [obs : MaybeContent, snap : Snapshots, pending : Snapshots]
Rows == [version : MaybeContent \X Nat, publishedAt : Nat, scopes : {0}]

WorkLocals == [pc : Steps, cp : Checkpoints, target : MaybeContent, snap : Snapshots,
               prev : Pubs, intent : Pubs, stamp : Nat, compared : MaybeContent]

\* The three publication tables: an intent belongs to one publication and is
\* marked exactly when that publication is there; at most one is pending, and
\* it succeeds the latest publication.
TablesOK ==
    /\ IsFiniteSet(intents) /\ intents \subseteq Intents
    /\ published \subseteq Pubs /\ latest \in Pubs
    /\ \A i \in intents : i.pub.id # 0
    /\ \A i, j \in intents : i.pub.id = j.pub.id => i = j

IntentsMarked ==
    /\ \A i \in intents : i.committed <=> i.pub \in published
    /\ \A p \in published : \E i \in intents : i.pub = p

PendingIsNext ==
    /\ \A i \in PendingIntents : i.pub.prev = latest.id
    /\ \A i, j \in PendingIntents : i = j

\* Nothing succeeds the latest publication, everything else has exactly one
\* successor, and predecessors are publications.
Succession ==
    /\ latest \in published \cup {NoPublication}
    /\ \A p \in published : p.prev # latest.id
    /\ \A p \in published : p.prev = 0 \/ \E q \in published : q.id = p.prev
    /\ \A p, q \in published : p.prev = q.prev => p = q
    /\ \A p \in published : p # latest => \E q \in published : q.prev = p.id

ChainInv == TablesOK /\ IntentsMarked /\ PendingIsNext /\ Succession

-----------------------------------------------------------------------------
(* The publication tables                                                  *)

\* Two rows of one publication are one row.
LEMMA OneIntent ==
    ASSUME ChainInv, NEW i \in intents, NEW j \in intents, i.pub = j.pub
    PROVE  i = j
BY DEF ChainInv, TablesOK

LEMMA PrepareKeepsChain ==
    ASSUME ChainInv, NEW p \in Pubs, p.id # 0, PrepareIntent(p)
    PROVE  ChainInv' /\ AlreadyPrepared(p)'
           /\ \A q \in Pubs : AlreadyPrepared(q) => AlreadyPrepared(q)'
<1>1. CASE AlreadyPrepared(p)
  BY <1>1 DEF PrepareIntent, ChainInv, TablesOK, IntentsMarked, PendingIsNext, Succession,
              PendingIntents, AlreadyPrepared
<1>2. CASE ~AlreadyPrepared(p)
  <2> DEFINE new == [pub |-> p, committed |-> FALSE]
  <2>1. /\ MayPrepare(p) /\ intents' = intents \cup {new}
        /\ published' = published /\ latest' = latest
    BY <1>2 DEF PrepareIntent
  <2>2. /\ new \in Intents /\ new.pub = p /\ ~new.committed
    BY DEF Intents
  <2> HIDE DEF new
  <2>3. PendingIntents' = {new}
    BY <2>1, <2>2 DEF PendingIntents, MayPrepare
  <2>4. TablesOK'
    <3>1. IsFiniteSet(intents')
      BY <2>1, FS_AddElement DEF ChainInv, TablesOK
    <3> QED  BY <2>1, <2>2, <3>1 DEF ChainInv, TablesOK, MayPrepare
  <2>5. IntentsMarked'
    <3>1. p \notin published
      BY <1>2 DEF AlreadyPrepared, ChainInv, IntentsMarked
    <3> QED  BY <2>1, <2>2, <3>1 DEF ChainInv, IntentsMarked
  <2>6. PendingIsNext'
    BY <2>1, <2>2, <2>3 DEF PendingIsNext, MayPrepare
  <2>7. Succession'
    BY <2>1 DEF ChainInv, Succession
  <2>8. AlreadyPrepared(p)' /\ \A q \in Pubs : AlreadyPrepared(q) => AlreadyPrepared(q)'
    BY <2>1, <2>2 DEF AlreadyPrepared
  <2> QED  BY <2>4, <2>5, <2>6, <2>7, <2>8 DEF ChainInv
<1> QED  BY <1>1, <1>2

\* commitReady marks the intent of the publication, and nothing else.
Marked(i, p) == [i EXCEPT !.committed = @ \/ i.pub = p]

LEMMA MarkedShape ==
    ASSUME NEW i \in Intents, NEW p
    PROVE  /\ Marked(i, p) \in Intents /\ Marked(i, p).pub = i.pub
           /\ (Marked(i, p).committed <=> i.committed \/ i.pub = p)
BY DEF Marked, Intents

LEMMA MarkedTables ==
    ASSUME ChainInv, NEW p \in Pubs, CommitReady(p)
    PROVE  /\ TablesOK'
           /\ intents' = {Marked(i, p) : i \in intents}
           /\ \A q \in Pubs : AlreadyPrepared(q) <=> AlreadyPrepared(q)'
<1>1. intents' = {Marked(i, p) : i \in intents}
  BY DEF CommitReady, Marked
<1>2. \A i \in intents : /\ Marked(i, p) \in Intents /\ Marked(i, p).pub = i.pub
                         /\ (Marked(i, p).committed <=> i.committed \/ i.pub = p)
  BY MarkedShape DEF ChainInv, TablesOK
<1>3. IsFiniteSet(intents')
  <2> DEFINE mark == [i \in intents |-> Marked(i, p)]
  <2>1. mark \in Surjection(intents, intents')
    BY <1>1 DEF Surjection
  <2> QED  BY <2>1, FS_Surjection DEF ChainInv, TablesOK
<1>4. published' \subseteq Pubs /\ latest' \in Pubs
  BY DEF CommitReady, ChainInv, TablesOK
<1>5. TablesOK'
  <2>1. intents' \subseteq Intents /\ \A i \in intents' : i.pub.id # 0
    BY <1>1, <1>2 DEF ChainInv, TablesOK
  <2>2. \A i, j \in intents' : i.pub.id = j.pub.id => i = j
    BY <1>1, <1>2 DEF ChainInv, TablesOK
  <2> QED  BY <1>3, <1>4, <2>1, <2>2 DEF TablesOK
<1>6. \A q \in Pubs : AlreadyPrepared(q) <=> AlreadyPrepared(q)'
  BY <1>1, <1>2 DEF AlreadyPrepared
<1> QED  BY <1>1, <1>5, <1>6

LEMMA CommitKeepsChain ==
    ASSUME ChainInv, NEW p \in Pubs, CommitReady(p)
    PROVE  ChainInv'
<1>1. /\ TablesOK' /\ intents' = {Marked(i, p) : i \in intents}
      /\ published' = published \cup {p} /\ latest' = IF p \in published THEN latest ELSE p
  BY MarkedTables DEF CommitReady
<1>2. \A i \in intents : /\ Marked(i, p).pub = i.pub
                         /\ (Marked(i, p).committed <=> i.committed \/ i.pub = p)
  BY MarkedShape DEF ChainInv, TablesOK
<1>3. PICK own \in intents : own.pub = p
  BY DEF CommitReady, MayCommit, AlreadyPrepared
<1>4. IntentsMarked'
  <2>1. \A i \in intents' : i.committed <=> i.pub \in published'
    <3> SUFFICES ASSUME NEW i \in intents
                 PROVE  Marked(i, p).committed <=> Marked(i, p).pub \in published'
      BY <1>1
    <3>1. i.committed <=> i.pub \in published
      BY DEF ChainInv, IntentsMarked
    <3> QED  BY <1>1, <1>2, <3>1
  <2>2. \A q \in published' : \E i \in intents' : i.pub = q
    BY <1>1, <1>2, <1>3 DEF ChainInv, IntentsMarked
  <2> QED  BY <2>1, <2>2 DEF IntentsMarked
<1>5. CASE p \in published
  <2>1. published' = published /\ latest' = latest
    BY <1>1, <1>5
  <2>2. \A i \in intents : Marked(i, p) = i
    <3> SUFFICES ASSUME NEW i \in intents PROVE Marked(i, p) = i
      OBVIOUS
    <3>1. i \in Intents /\ (i.pub = p => i.committed)
      BY <1>5 DEF ChainInv, TablesOK, IntentsMarked
    <3> QED  BY <3>1 DEF Marked, Intents
  <2>3. intents' = intents
    BY <1>1, <2>2
  <2>4. PendingIsNext' /\ Succession'
    BY <2>1, <2>3 DEF ChainInv, PendingIsNext, PendingIntents, Succession
  <2> QED  BY <1>1, <1>4, <2>4 DEF ChainInv
<1>6. CASE p \notin published
  <2>1. latest' = p /\ p.prev = latest.id
    BY <1>1, <1>6 DEF CommitReady, MayCommit
  <2>2. own \in PendingIntents
    BY <1>3, <1>6 DEF PendingIntents, ChainInv, IntentsMarked
  <2>3. PendingIntents' = {}
    <3> SUFFICES ASSUME NEW i \in intents PROVE Marked(i, p).committed
      BY <1>1 DEF PendingIntents
    <3>1. i.committed \/ i = own
      BY <2>2 DEF PendingIntents, ChainInv, PendingIsNext
    <3> QED  BY <1>2, <1>3, <3>1
  <2>4. p.id # 0 /\ \A q \in published : q.id # p.id
    <3>1. ASSUME NEW q \in published, q.id = p.id PROVE FALSE
      <4>1. PICK i \in intents : i.pub = q
        BY DEF ChainInv, IntentsMarked
      <4>2. i = own
        BY <1>3, <3>1, <4>1 DEF ChainInv, TablesOK
      <4> QED  BY <1>3, <1>6, <4>1, <4>2
    <3> QED  BY <1>3, <3>1 DEF ChainInv, TablesOK
  <2>5. latest.id # p.id /\ (latest.id = 0 \/ latest \in published)
    BY <2>4 DEF ChainInv, Succession, NoPublication
  <2>6. \A q \in published' : q.prev # latest'.id
    BY <1>1, <2>1, <2>4, <2>5 DEF ChainInv, Succession
  <2>7. \A q \in published' : q.prev = 0 \/ \E r \in published' : r.id = q.prev
    BY <1>1, <2>1, <2>5 DEF ChainInv, Succession
  <2>8. \A q, r \in published' : q.prev = r.prev => q = r
    BY <1>1, <2>1 DEF ChainInv, Succession
  <2>9. \A q \in published' : q # latest' => \E r \in published' : r.prev = q.id
    BY <1>1, <2>1 DEF ChainInv, Succession
  <2>10. Succession'
    BY <1>1, <2>1, <2>6, <2>7, <2>8, <2>9 DEF Succession
  <2>11. PendingIsNext'
    BY <2>3 DEF PendingIsNext
  <2> QED  BY <1>1, <1>4, <2>10, <2>11 DEF ChainInv
<1> QED  BY <1>5, <1>6

LEMMA ChainIsOne ==
    ASSUME ChainInv
    PROVE  OneChain
<1>1. Cardinality(PendingIntents) <= 1
  <2>1. CASE PendingIntents = {}
    BY <2>1, FS_EmptySet
  <2>2. CASE PendingIntents # {}
    <3>1. PICK i \in PendingIntents : PendingIntents = {i}
      BY <2>2 DEF ChainInv, PendingIsNext
    <3>2. Cardinality({i}) = 1
      BY FS_Singleton
    <3> QED  BY <3>1, <3>2
  <2> QED  BY <2>1, <2>2
<1> QED  BY <1>1 DEF ChainInv, Succession, OneChain

-----------------------------------------------------------------------------
(* The runs of publish()                                                   *)

Prepared == {i.pub : i \in intents}
Seen == observed \cup {NoContent}

InCatalog(rows, v, stamp) == \E row \in rows : row.version = v /\ row.publishedAt = stamp

Captured == {"latest", "index", "hook", "catalog", "publish", "ready", "save", "mark"}

\* What a run knows, given the prepared publications, the catalog and the
\* observations: its intent is durable; from capture on it is about one
\* snapshot of its target; before the catalog commit the intent names the very
\* version and time that will be committed; after it the version is there.
Fits(local, prepared, rows, seen) ==
    /\ local.cp.obs \in seen /\ local.target \in seen
    /\ local.intent = NoPublication \/ local.intent \in prepared
    /\ local.pc \in Captured => local.snap.content = local.target
    /\ local.pc = "catalog" =>
          /\ local.intent \in prepared /\ local.intent.obs = local.target
          /\ local.intent.ids = local.snap.ids /\ local.intent.stamp = local.stamp
    /\ local.pc = "publish" /\ local.target # Empty =>
          InCatalog(rows, <<local.snap.content, local.snap.ids>>, local.stamp)
    /\ local.pc = "ready" =>
          /\ local.intent \in prepared
          /\ local.intent.obs # Empty =>
                InCatalog(rows, <<local.intent.obs, local.intent.ids>>, local.intent.stamp)

WorkersFit ==
    /\ work \in [Workers -> WorkLocals]
    /\ \A w \in Workers : Fits(work[w], Prepared, catalog, Seen)

StoresOK ==
    /\ checkpoint \in Checkpoints /\ WellFormed(checkpoint) /\ checkpoint.obs \in Seen
    /\ comparison \in Seen /\ observed \subseteq Contents
    /\ issued \in 0 .. MaxIds /\ file \in Contents
    /\ catalog \subseteq Rows

\* PublishedIsIndexed in these terms.
Indexed ==
    /\ \A p \in published :
          p.obs # Empty => InCatalog(catalog, <<p.obs, p.ids>>, p.stamp)
    /\ \A row \in catalog : \E p \in Prepared :
          <<p.obs, p.ids>> = row.version /\ p.stamp = row.publishedAt

WorkflowInv == ChainInv /\ StoresOK /\ WorkersFit /\ Indexed

LEMMA FitsLater ==
    ASSUME NEW local, NEW prepared, NEW rows, NEW seen, NEW prepared2, NEW rows2, NEW seen2,
           Fits(local, prepared, rows, seen),
           prepared \subseteq prepared2, rows \subseteq rows2, seen \subseteq seen2
    PROVE  Fits(local, prepared2, rows2, seen2)
BY DEF Fits, InCatalog

LEMMA PreparedShape ==
    ASSUME ChainInv
    PROVE  /\ Prepared \subseteq Pubs
           /\ \A p \in Prepared : p.id # 0
           /\ \A p : AlreadyPrepared(p) <=> p \in Prepared
BY DEF ChainInv, TablesOK, Intents, Prepared, AlreadyPrepared

LEMMA IdleShape ==
    /\ IdleWork \in WorkLocals /\ NoSnapshot \in Snapshots /\ BlankCheckpoint \in Checkpoints
    /\ \A prepared, rows, seen : NoContent \in seen => Fits(IdleWork, prepared, rows, seen)
<1>1. NoSnapshot \in Snapshots /\ NoPublication \in Pubs
  BY DEF NoSnapshot, Snapshots, MaybeContent, NoPublication, Pubs
<1>2. BlankCheckpoint \in Checkpoints /\ BlankCheckpoint.obs = NoContent
  BY <1>1 DEF BlankCheckpoint, Checkpoints, MaybeContent
<1>3. IdleWork \in WorkLocals
  BY <1>1, <1>2 DEF IdleWork, WorkLocals, Steps, MaybeContent
<1>4. \A prepared, rows, seen : NoContent \in seen => Fits(IdleWork, prepared, rows, seen)
  BY <1>2 DEF IdleWork, Fits, Captured
<1> QED  BY <1>1, <1>2, <1>3, <1>4

\* One run goes on and others stay where they are, while the tables, the
\* catalog and the observations only grow.
LEMMA RunGoesOn ==
    ASSUME WorkflowInv, NEW w \in Workers, NEW local \in WorkLocals,
           work' = [work EXCEPT ![w] = local],
           Fits(local, Prepared', catalog', Seen'),
           Prepared \subseteq Prepared', catalog \subseteq catalog', Seen \subseteq Seen'
    PROVE  WorkersFit'
<1>1. work' \in [Workers -> WorkLocals]
  BY DEF WorkflowInv, WorkersFit
<1>2. \A v \in Workers : Fits(work'[v], Prepared', catalog', Seen')
  <2> SUFFICES ASSUME NEW v \in Workers PROVE Fits(work'[v], Prepared', catalog', Seen')
    OBVIOUS
  <2>1. CASE v = w
    BY <2>1 DEF WorkflowInv, WorkersFit
  <2>2. CASE v # w
    <3>1. work'[v] = work[v] /\ Fits(work[v], Prepared, catalog, Seen)
      BY <2>2 DEF WorkflowInv, WorkersFit
    <3> QED  BY <3>1, FitsLater
  <2> QED  BY <2>1, <2>2
<1> QED  BY <1>1, <1>2 DEF WorkersFit

\* A step that leaves the publication tables and the catalog alone.
LEMMA QuietStep ==
    ASSUME WorkflowInv, NEW w \in Workers, NEW local \in WorkLocals,
           work' = [work EXCEPT ![w] = local],
           UNCHANGED <<intents, published, latest, catalog>>,
           Seen \subseteq Seen', Fits(local, Prepared, catalog, Seen'), StoresOK'
    PROVE  WorkflowInv'
<1>1. Prepared' = Prepared
  BY DEF Prepared
<1>2. ChainInv'
  BY DEF WorkflowInv, ChainInv, TablesOK, IntentsMarked, PendingIsNext, PendingIntents,
         Succession
<1>3. Indexed'
  BY <1>1 DEF WorkflowInv, Indexed
<1>4. WorkersFit'
  BY <1>1, RunGoesOn
<1> QED  BY <1>2, <1>3, <1>4 DEF WorkflowInv

\* Only the locals of the run change.
LEMMA LocalStep ==
    ASSUME WorkflowInv, NEW w \in Workers, NEW local \in WorkLocals,
           work' = [work EXCEPT ![w] = local],
           UNCHANGED <<intents, published, latest, catalog, current, checkpoint,
                       observed, comparison, issued, file>>,
           Fits(local, Prepared, catalog, Seen)
    PROVE  WorkflowInv'
<1>1. Seen' = Seen
  BY DEF Seen
<1>2. StoresOK'
  BY <1>1 DEF WorkflowInv, StoresOK, WellFormed
<1> QED  BY <1>1, <1>2, QuietStep

\* A run that returns or throws.
LEMMA ReturnStep ==
    ASSUME WorkflowInv, NEW w \in Workers, Return(w),
           UNCHANGED <<intents, published, latest, catalog, current, checkpoint,
                       observed, comparison, issued, file>>
    PROVE  WorkflowInv'
<1>1. work' = [work EXCEPT ![w] = IdleWork] /\ NoContent \in Seen
  BY DEF Return, Seen
<1> QED  BY <1>1, IdleShape, LocalStep

\* A run that only moves on to a step that asks for nothing new.
LEMMA GotoStep ==
    ASSUME WorkflowInv, NEW w \in Workers, NEW step \in Steps, Goto(w, step),
           step \in Captured => work[w].pc \in Captured,
           step \notin {"catalog", "publish", "ready"},
           UNCHANGED <<intents, published, latest, catalog, current, checkpoint,
                       observed, comparison, issued, file>>
    PROVE  WorkflowInv'
<1> DEFINE local == [work[w] EXCEPT !.pc = step]
<1>1. work' = [work EXCEPT ![w] = local]
  BY DEF Goto
<1>2. work[w] \in WorkLocals /\ Fits(work[w], Prepared, catalog, Seen)
  BY DEF WorkflowInv, WorkersFit
<1>3. /\ local \in WorkLocals /\ local.pc = step /\ local.cp = work[w].cp
      /\ local.target = work[w].target /\ local.snap = work[w].snap
      /\ local.intent = work[w].intent
  BY <1>2 DEF WorkLocals
<1>4. Fits(local, Prepared, catalog, Seen)
  <2> HIDE DEF local
  <2> QED  BY <1>2, <1>3 DEF Fits
<1> HIDE DEF local
<1> QED  BY <1>1, <1>3, <1>4, LocalStep

-----------------------------------------------------------------------------
(* The steps of publish()                                                  *)

\* The locals and the checkpoint copy of a run are typed.
LEMMA RunShape ==
    ASSUME WorkflowInv, NEW w \in Workers
    PROVE  /\ work[w] \in WorkLocals /\ Fits(work[w], Prepared, catalog, Seen)
           /\ work[w].cp \in Checkpoints /\ work[w].snap \in Snapshots
           /\ work[w].intent \in Pubs /\ work[w].target \in MaybeContent
           /\ work[w].stamp \in Nat /\ work[w].prev \in Pubs
BY DEF WorkflowInv, WorkersFit, WorkLocals

LEMMA RegisterStep ==
    ASSUME WorkflowInv, NEW w \in Workers, Register(w)
    PROVE  WorkflowInv'
<1> DEFINE local == [work[w] EXCEPT !.pc = "pending", !.cp = checkpoint]
<1>1. /\ work' = [work EXCEPT ![w] = local]
      /\ UNCHANGED <<intents, published, latest, catalog, current, checkpoint,
                     observed, comparison, issued, file>>
  BY DEF Register, publicationVars, catalogVars, worldVars
<1>2. checkpoint \in Checkpoints /\ checkpoint.obs \in Seen
  BY DEF WorkflowInv, StoresOK
<1>3. /\ local \in WorkLocals /\ local.pc = "pending" /\ local.cp = checkpoint
      /\ local.target = work[w].target /\ local.intent = work[w].intent
  BY <1>2, RunShape DEF WorkLocals, Steps
<1>4. Fits(local, Prepared, catalog, Seen)
  <2> HIDE DEF local
  <2> QED  BY <1>2, <1>3, RunShape DEF Fits, Captured
<1> HIDE DEF local
<1> QED  BY <1>1, <1>3, <1>4, LocalStep

LEMMA ReadPendingIntentStep ==
    ASSUME WorkflowInv, NEW w \in Workers, ReadPendingIntent(w)
    PROVE  WorkflowInv'
<1>0. UNCHANGED <<intents, published, latest, catalog, current, checkpoint,
                  observed, comparison, issued, file>>
  BY DEF ReadPendingIntent, publicationVars, catalogVars, worldVars
<1>1. CASE Goto(w, "recover")
  BY <1>0, <1>1, GotoStep DEF Steps, Captured
<1>2. ASSUME NEW i \in PendingIntents,
             work' = [work EXCEPT ![w] = [work[w] EXCEPT !.pc = "recover", !.intent = i.pub]]
      PROVE  WorkflowInv'
  <2> DEFINE local == [work[w] EXCEPT !.pc = "recover", !.intent = i.pub]
  <2>1. i.pub \in Prepared /\ i.pub \in Pubs
    BY PreparedShape DEF PendingIntents, Prepared, WorkflowInv
  <2>2. /\ local \in WorkLocals /\ local.pc = "recover" /\ local.cp = work[w].cp
        /\ local.target = work[w].target /\ local.intent = i.pub
    BY <2>1, RunShape DEF WorkLocals, Steps
  <2>3. Fits(local, Prepared, catalog, Seen)
    <3> HIDE DEF local
    <3> QED  BY <2>1, <2>2, RunShape DEF Fits, Captured
  <2>4. work' = [work EXCEPT ![w] = local]
    BY <1>2
  <2> HIDE DEF local
  <2> QED  BY <1>0, <2>2, <2>3, <2>4, LocalStep
<1> QED  BY <1>1, <1>2 DEF ReadPendingIntent

LEMMA ResumeStep ==
    ASSUME WorkflowInv, NEW w \in Workers, NEW obs, Resume(w, obs),
           UNCHANGED <<intents, published, latest, catalog, current, checkpoint,
                       observed, comparison, issued, file>>
    PROVE  WorkflowInv'
<1>1. CASE obs \in observed
  <2> DEFINE local == [work[w] EXCEPT !.pc = "capture", !.target = obs]
  <2>1. work' = [work EXCEPT ![w] = local]
    BY <1>1 DEF Resume
  <2>2. obs \in MaybeContent /\ obs \in Seen
    BY <1>1 DEF MaybeContent, Seen, WorkflowInv, StoresOK
  <2>3. /\ local \in WorkLocals /\ local.pc = "capture" /\ local.cp = work[w].cp
        /\ local.target = obs /\ local.intent = work[w].intent
    BY <2>2, RunShape DEF WorkLocals, Steps
  <2>4. Fits(local, Prepared, catalog, Seen)
    <3> HIDE DEF local
    <3> QED  BY <2>2, <2>3, RunShape DEF Fits, Captured
  <2> HIDE DEF local
  <2> QED  BY <2>1, <2>3, <2>4, LocalStep
<1>2. CASE obs \notin observed
  BY <1>2, ReturnStep DEF Resume
<1> QED  BY <1>1, <1>2

LEMMA RecoverStep ==
    ASSUME WorkflowInv, NEW w \in Workers, RecoverBeforeObservation(w)
    PROVE  WorkflowInv'
<1>1. UNCHANGED <<intents, published, latest, catalog, current, checkpoint,
                  observed, comparison, issued, file>>
  BY DEF RecoverBeforeObservation, publicationVars, catalogVars, worldVars
<1>2. \/ Return(w) \/ Goto(w, "inspect") \/ \E obs : Resume(w, obs)
  BY DEF RecoverBeforeObservation
<1>3. CASE Goto(w, "inspect")
  BY <1>1, <1>3, GotoStep DEF Steps, Captured
<1> QED  BY <1>1, <1>2, <1>3, ReturnStep, ResumeStep

\* The checkpoint is saved as this run read it.
LEMMA SavedAgain ==
    ASSUME WorkflowInv, NEW w \in Workers, Save(work[w].cp),
           UNCHANGED <<catalog, observed, comparison, issued, file>>
    PROVE  StoresOK' /\ Seen' = Seen
<1>1. Seen' = Seen
  BY DEF Seen
<1>2. work[w].cp \in Checkpoints /\ work[w].cp.obs \in Seen /\ WellFormed(work[w].cp)
  BY RunShape DEF Fits, Save, MaySave
<1>3. checkpoint' = work[w].cp
  BY DEF Save
<1> QED  BY <1>1, <1>2, <1>3 DEF WorkflowInv, StoresOK, WellFormed

LEMMA ConflictStep ==
    ASSUME WorkflowInv, NEW w \in Workers, Return(w),
           UNCHANGED <<publicationVars, catalogVars, checkpoint, comparison, issued>>,
           UNCHANGED <<observed, worldVars, faults>>
    PROVE  WorkflowInv'
BY ReturnStep DEF publicationVars, catalogVars, worldVars

LEMMA InspectStep ==
    ASSUME WorkflowInv, NEW w \in Workers, Inspect(w)
    PROVE  WorkflowInv'
<1>1. CASE ~MaySave(work[w].cp)
  BY <1>1, ConflictStep DEF Inspect, OrConflict
<1>2. CASE MaySave(work[w].cp)
  <2> DEFINE local == [work[w] EXCEPT !.pc = "baseline"]
  <2>1. /\ Save(work[w].cp) /\ work' = [work EXCEPT ![w] = local]
        /\ UNCHANGED <<intents, published, latest, catalog, comparison, issued, observed, file>>
    BY <1>2 DEF Inspect, OrConflict, Goto, publicationVars, catalogVars, worldVars
  <2>2. StoresOK' /\ Seen' = Seen
    BY <2>1, SavedAgain
  <2>3. /\ local \in WorkLocals /\ local.pc = "baseline" /\ local.cp = work[w].cp
        /\ local.target = work[w].target /\ local.intent = work[w].intent
    BY RunShape DEF WorkLocals, Steps
  <2>4. Fits(local, Prepared, catalog, Seen)
    <3> HIDE DEF local
    <3> QED  BY <2>3, RunShape DEF Fits, Captured
  <2> HIDE DEF local
  <2> QED  BY <2>1, <2>2, <2>3, <2>4, QuietStep
<1> QED  BY <1>1, <1>2

LEMMA EnsureBaselineStep ==
    ASSUME WorkflowInv, NEW w \in Workers, EnsureComparisonBaseline(w)
    PROVE  WorkflowInv'
<1> DEFINE step == IF work[w].cp.obs \in {NoContent, comparison} THEN "observe" ELSE "persisted"
           local == [work[w] EXCEPT !.pc = step, !.compared = comparison]
<1>1. /\ work' = [work EXCEPT ![w] = local]
      /\ UNCHANGED <<intents, published, latest, catalog, current, checkpoint,
                     observed, comparison, issued, file>>
  BY DEF EnsureComparisonBaseline, publicationVars, catalogVars, worldVars
<1>2. comparison \in MaybeContent /\ step \in {"observe", "persisted"}
  BY DEF WorkflowInv, StoresOK, Seen, MaybeContent
<1> HIDE DEF step
<1>3. /\ local \in WorkLocals /\ local.pc = step /\ local.cp = work[w].cp
      /\ local.target = work[w].target /\ local.intent = work[w].intent
  BY <1>2, RunShape DEF WorkLocals, Steps
<1>4. Fits(local, Prepared, catalog, Seen)
  <2> HIDE DEF local
  <2> QED  BY <1>2, <1>3, RunShape DEF Fits, Captured
<1> HIDE DEF local
<1> QED  BY <1>1, <1>3, <1>4, LocalStep

LEMMA ConfirmCheckpointStep ==
    ASSUME WorkflowInv, NEW w \in Workers, ConfirmCheckpoint(w)
    PROVE  WorkflowInv'
<1>1. /\ Goto(w, "repair") \/ Return(w)
      /\ UNCHANGED <<intents, published, latest, catalog, current, checkpoint,
                     observed, comparison, issued, file>>
  BY DEF ConfirmCheckpoint, publicationVars, catalogVars, worldVars
<1>2. CASE Goto(w, "repair")
  BY <1>1, <1>2, GotoStep DEF Steps, Captured
<1> QED  BY <1>1, <1>2, ReturnStep

LEMMA RepairBaselineStep ==
    ASSUME WorkflowInv, NEW w \in Workers, RepairBaseline(w)
    PROVE  WorkflowInv'
<1>1. CASE comparison # work[w].compared
  BY <1>1, ConflictStep DEF RepairBaseline, OrConflict
<1>2. CASE comparison = work[w].compared
  <2> DEFINE local == [work[w] EXCEPT !.pc = "observe"]
  <2>1. /\ work' = [work EXCEPT ![w] = local] /\ comparison' = work[w].cp.obs
        /\ UNCHANGED <<intents, published, latest, catalog, checkpoint, issued, observed, file>>
    BY <1>2 DEF RepairBaseline, OrConflict, Goto, publicationVars, catalogVars, worldVars
  <2>2. StoresOK' /\ Seen' = Seen
    BY <2>1, RunShape DEF WorkflowInv, StoresOK, Seen, WellFormed, Fits
  <2>3. /\ local \in WorkLocals /\ local.pc = "observe" /\ local.cp = work[w].cp
        /\ local.target = work[w].target /\ local.intent = work[w].intent
    BY RunShape DEF WorkLocals, Steps
  <2>4. Fits(local, Prepared, catalog, Seen)
    <3> HIDE DEF local
    <3> QED  BY <2>3, RunShape DEF Fits, Captured
  <2> HIDE DEF local
  <2> QED  BY <2>1, <2>2, <2>3, <2>4, QuietStep
<1> QED  BY <1>1, <1>2

LEMMA ObserveStep ==
    ASSUME WorkflowInv, NEW w \in Workers, Observe(w)
    PROVE  WorkflowInv'
<1> DEFINE seen == IF file = work[w].cp.obs THEN NoContent ELSE file
           local == [work[w] EXCEPT !.pc = "observed", !.target = seen]
<1>1. /\ work' = [work EXCEPT ![w] = local]
      /\ observed' = observed \cup ({seen} \ {NoContent})
      /\ UNCHANGED <<intents, published, latest, catalog, checkpoint, comparison, issued, file>>
  BY DEF Observe, publicationVars, catalogVars, worldVars
<1>2. seen \in MaybeContent /\ (seen # NoContent => seen \in Contents)
  BY DEF WorkflowInv, StoresOK, MaybeContent
<1> HIDE DEF seen
<1>3. Seen \subseteq Seen' /\ seen \in Seen'
  BY <1>1 DEF Seen
<1>4. StoresOK'
  BY <1>1, <1>2, <1>3 DEF WorkflowInv, StoresOK, WellFormed
<1>5. /\ local \in WorkLocals /\ local.pc = "observed" /\ local.cp = work[w].cp
      /\ local.target = seen /\ local.intent = work[w].intent
  BY <1>2, RunShape DEF WorkLocals, Steps
<1>6. Fits(local, Prepared, catalog, Seen')
  <2> HIDE DEF local
  <2> QED  BY <1>3, <1>5, RunShape DEF Fits, Captured
<1> HIDE DEF local
<1> QED  BY <1>1, <1>3, <1>4, <1>5, <1>6, QuietStep

LEMMA ObservedStep ==
    ASSUME WorkflowInv, NEW w \in Workers, Observed(w)
    PROVE  WorkflowInv'
<1>1. CASE ~MaySave(work[w].cp)
  BY <1>1, ConflictStep DEF Observed, OrConflict
<1>2. CASE MaySave(work[w].cp)
  <2> DEFINE local == IF work[w].target = NoContent THEN IdleWork
                      ELSE [work[w] EXCEPT !.pc = "capture"]
  <2>1. /\ Save(work[w].cp) /\ work' = [work EXCEPT ![w] = local]
        /\ UNCHANGED <<intents, published, latest, catalog, comparison, issued, observed, file>>
    BY <1>2 DEF Observed, OrConflict, Goto, Return, publicationVars, catalogVars, worldVars
  <2>2. StoresOK' /\ Seen' = Seen
    BY <2>1, SavedAgain
  <2>3. local \in WorkLocals /\ Fits(local, Prepared, catalog, Seen)
    <3>1. CASE work[w].target = NoContent
      BY <3>1, IdleShape DEF Seen
    <3>2. CASE work[w].target # NoContent
      <4>1. /\ local \in WorkLocals /\ local.pc = "capture" /\ local.cp = work[w].cp
            /\ local.target = work[w].target /\ local.intent = work[w].intent
        BY <3>2, RunShape DEF WorkLocals, Steps
      <4> HIDE DEF local
      <4> QED  BY <4>1, RunShape DEF Fits, Captured
    <3> QED  BY <3>1, <3>2
  <2> HIDE DEF local
  <2> QED  BY <2>1, <2>2, <2>3, QuietStep
<1> QED  BY <1>1, <1>2

LEMMA CaptureStep ==
    ASSUME WorkflowInv, NEW w \in Workers, Capture(w)
    PROVE  WorkflowInv'
<1> DEFINE cp == work[w].cp
           target == work[w].target
           Quiet == UNCHANGED <<intents, published, latest, catalog, current, observed,
                                comparison, file>>
           Held(snap) == [work[w] EXCEPT !.pc = "latest", !.snap = snap]
<1>1. Quiet
  BY DEF Capture, publicationVars, catalogVars, worldVars
<1>2. cp \in Checkpoints /\ cp.pending \in Snapshots /\ cp.snap.ids \in Nat /\ cp.obs \in Seen
  BY RunShape DEF Checkpoints, Snapshots, Fits
<1>3. ASSUME NEW snap \in Snapshots, snap.content = target
      PROVE  Held(snap) \in WorkLocals /\ Fits(Held(snap), Prepared, catalog, Seen)
  <2> DEFINE local == Held(snap)
  <2>1. /\ local \in WorkLocals /\ local.pc = "latest" /\ local.cp = cp
        /\ local.target = target /\ local.intent = work[w].intent /\ local.snap = snap
    BY RunShape DEF WorkLocals, Steps
  <2> HIDE DEF local
  <2>2. Fits(local, Prepared, catalog, Seen)
    BY <1>3, <2>1, RunShape DEF Fits, Captured
  <2> QED  BY <2>1, <2>2 DEF local
<1>4. CASE Return(w) /\ UNCHANGED <<checkpoint, issued>>
  BY <1>1, <1>4, ReturnStep
<1>5. CASE /\ cp.pending.content = target /\ work' = [work EXCEPT ![w] = Held(cp.pending)]
           /\ UNCHANGED <<checkpoint, issued>>
  <2> HIDE DEF Held
  <2> QED  BY <1>1, <1>2, <1>3, <1>5, LocalStep
<1>6. ASSUME NEW ids \in {cp.snap.ids, issued + 1}, ids <= MaxIds,
             Save([cp EXCEPT !.pending = [content |-> target, ids |-> ids]]),
             issued' = IF ids = cp.snap.ids THEN issued ELSE ids,
             work' = [work EXCEPT ![w] = Held([content |-> target, ids |-> ids])]
      PROVE  WorkflowInv'
  <2> DEFINE snap == [content |-> target, ids |-> ids]
             next == [cp EXCEPT !.pending = snap]
  <2>1. issued \in 0 .. MaxIds /\ MaxIds \in Nat
    BY WorkflowAssumption DEF WorkflowInv, StoresOK
  <2>2. ids \in Nat /\ issued' \in 0 .. MaxIds
    BY <1>2, <1>6, <2>1
  <2>3. snap \in Snapshots /\ snap.content = target
    BY <2>2, RunShape DEF Snapshots
  <2>4. Held(snap) \in WorkLocals /\ Fits(Held(snap), Prepared, catalog, Seen)
    BY <1>3, <2>3
  <2>5. work' = [work EXCEPT ![w] = Held(snap)] /\ Save(next)
    BY <1>6
  <2> HIDE DEF snap, Held
  <2>6. next \in Checkpoints /\ next.obs = cp.obs
    BY <1>2, <2>3 DEF Checkpoints
  <2> HIDE DEF next
  <2>7. checkpoint' = next /\ WellFormed(next) /\ Seen' = Seen
    BY <1>1, <2>5 DEF Save, MaySave, Seen
  <2>8. StoresOK'
    BY <1>1, <1>2, <2>2, <2>6, <2>7 DEF WorkflowInv, StoresOK, WellFormed
  <2> QED  BY <1>1, <2>4, <2>5, <2>7, <2>8, QuietStep
<1> QED  BY <1>4, <1>5, <1>6 DEF Capture

LEMMA ReadLatestStep ==
    ASSUME WorkflowInv, NEW w \in Workers, ReadLatest(w)
    PROVE  WorkflowInv'
<1> DEFINE step == CASE latest.obs = work[w].target -> "save"
                     [] latest.obs # work[w].target /\ work[w].target = Empty -> "publish"
                     [] OTHER -> "index"
           local == [work[w] EXCEPT !.pc = step, !.prev = latest]
<1>1. /\ work' = [work EXCEPT ![w] = local] /\ work[w].pc = "latest"
      /\ UNCHANGED <<intents, published, latest, catalog, current, checkpoint,
                     observed, comparison, issued, file>>
  BY DEF ReadLatest, At, publicationVars, catalogVars, worldVars
<1>2. step \in {"save", "publish", "index"} /\ (step = "publish" => work[w].target = Empty)
  OBVIOUS
<1>3. latest \in Pubs
  BY DEF WorkflowInv, ChainInv, TablesOK
<1> HIDE DEF step
<1>4. /\ local \in WorkLocals /\ local.pc = step /\ local.cp = work[w].cp
      /\ local.target = work[w].target /\ local.snap = work[w].snap
      /\ local.intent = work[w].intent
  BY <1>2, <1>3, RunShape DEF WorkLocals, Steps
<1>5. Fits(local, Prepared, catalog, Seen)
  <2> HIDE DEF local
  <2> QED  BY <1>1, <1>2, <1>4, RunShape DEF Fits, Captured
<1> HIDE DEF local
<1> QED  BY <1>1, <1>4, <1>5, LocalStep

LEMMA IndexStep ==
    ASSUME WorkflowInv, NEW w \in Workers, Index(w)
    PROVE  WorkflowInv'
<1>0. /\ work[w].pc = "index"
      /\ UNCHANGED <<intents, published, latest, catalog, current, checkpoint,
                     observed, comparison, issued, file>>
  BY DEF Index, At, publicationVars, catalogVars, worldVars
<1>1. CASE Goto(w, "hook")
  BY <1>0, <1>1, GotoStep DEF Steps, Captured
<1>2. ASSUME NEW row \in FindVersion(VersionOf(w)),
             work' = [work EXCEPT ![w] = [work[w] EXCEPT !.pc = "publish",
                                                         !.stamp = row.publishedAt]]
      PROVE  WorkflowInv'
  <2> DEFINE local == [work[w] EXCEPT !.pc = "publish", !.stamp = row.publishedAt]
  <2>1. row \in catalog /\ row.version = <<work[w].snap.content, work[w].snap.ids>>
    BY DEF FindVersion, VersionOf
  <2>2. row.publishedAt \in Nat
    BY <2>1 DEF WorkflowInv, StoresOK, Rows
  <2>3. /\ local \in WorkLocals /\ local.pc = "publish" /\ local.cp = work[w].cp
        /\ local.target = work[w].target /\ local.snap = work[w].snap
        /\ local.intent = work[w].intent /\ local.stamp = row.publishedAt
    BY <2>2, RunShape DEF WorkLocals, Steps
  <2>4. work' = [work EXCEPT ![w] = local]
    BY <1>2
  <2> HIDE DEF local
  <2>5. InCatalog(catalog, <<local.snap.content, local.snap.ids>>, local.stamp)
    BY <2>1, <2>3 DEF InCatalog
  <2>6. Fits(local, Prepared, catalog, Seen)
    BY <1>0, <2>3, <2>5, RunShape DEF Fits, Captured
  <2> QED  BY <1>0, <2>3, <2>4, <2>6, LocalStep
<1> QED  BY <1>1, <1>2 DEF Index

LEMMA CandidateShape ==
    ASSUME WorkflowInv, NEW w \in Workers, NEW stamp \in Nat
    PROVE  /\ Candidate(w, stamp) \in Pubs /\ Candidate(w, stamp).id # 0
           /\ Candidate(w, stamp).obs = work[w].target
           /\ Candidate(w, stamp).ids = work[w].snap.ids
           /\ Candidate(w, stamp).stamp = stamp
           /\ Stamp(w) \in Nat
<1>1. Cardinality(intents) \in Nat
  BY FS_CardinalityType DEF WorkflowInv, ChainInv, TablesOK
<1>2. Cardinality(intents) + 1 \in Nat \ {0}
  BY <1>1
<1>3. work[w].intent # NoPublication => work[w].intent.id \in Nat \ {0}
  BY RunShape, PreparedShape DEF Fits, WorkflowInv, Pubs
<1>4. work[w].intent.stamp \in Nat /\ work[w].snap.ids \in Nat /\ work[w].prev.id \in Nat
  BY RunShape DEF Pubs, Snapshots
<1> DEFINE id == IF work[w].intent = NoPublication
                 THEN Cardinality(intents) + 1 ELSE work[w].intent.id
<1>5. id \in Nat \ {0} /\ Candidate(w, stamp).id = id
  BY <1>2, <1>3 DEF Candidate
<1> HIDE DEF id
<1>6. Stamp(w) \in Nat
  BY <1>2, <1>4 DEF Stamp
<1>7. Candidate(w, stamp) = [id |-> id, obs |-> work[w].target, ids |-> work[w].snap.ids,
                             prev |-> work[w].prev.id, stamp |-> stamp]
  BY DEF Candidate, id
<1> QED  BY <1>4, <1>5, <1>6, <1>7, RunShape DEF Pubs

\* An intent is prepared, or found as it is.
LEMMA PrepareStep ==
    ASSUME WorkflowInv, NEW w \in Workers, NEW p \in Pubs, p.id # 0, PrepareIntent(p),
           NEW local \in WorkLocals, work' = [work EXCEPT ![w] = local],
           UNCHANGED <<catalog, checkpoint, observed, comparison, issued, file>>,
           \A prepared : Prepared \subseteq prepared /\ p \in prepared
                           => Fits(local, prepared, catalog, Seen)
    PROVE  WorkflowInv'
<1>1. /\ ChainInv' /\ AlreadyPrepared(p)'
      /\ \A q \in Pubs : AlreadyPrepared(q) => AlreadyPrepared(q)'
  BY PrepareKeepsChain DEF WorkflowInv
<1>2. p \in Prepared'
  BY <1>1 DEF AlreadyPrepared, Prepared
<1>3. Prepared \subseteq Prepared'
  BY DEF PrepareIntent, Prepared
<1>4. Seen' = Seen /\ published' = published
  BY DEF Seen, PrepareIntent
<1>5. StoresOK'
  BY <1>4 DEF WorkflowInv, StoresOK, WellFormed
<1>6. WorkersFit'
  BY <1>2, <1>3, <1>4, RunGoesOn
<1>7. Indexed'
  BY <1>3, <1>4 DEF WorkflowInv, Indexed
<1> QED  BY <1>1, <1>5, <1>6, <1>7 DEF WorkflowInv

LEMMA BeforeCatalogCommitStep ==
    ASSUME WorkflowInv, NEW w \in Workers, BeforeCatalogCommit(w)
    PROVE  WorkflowInv'
<1> DEFINE p == Candidate(w, Stamp(w))
           may == WithinLimits(w) /\ (AlreadyPrepared(p) \/ MayPrepare(p))
           local == [work[w] EXCEPT !.pc = "catalog", !.intent = p, !.stamp = p.stamp]
<1>1. CASE ~may
  BY <1>1, ConflictStep DEF BeforeCatalogCommit, OrConflict
<1>2. CASE may
  <2>1. /\ PrepareIntent(p) /\ work' = [work EXCEPT ![w] = local] /\ work[w].pc = "hook"
        /\ UNCHANGED <<catalog, checkpoint, observed, comparison, issued, file>>
    BY <1>2 DEF BeforeCatalogCommit, OrConflict, At, catalogVars, worldVars
  <2>2. /\ p \in Pubs /\ p.id # 0 /\ p.obs = work[w].target /\ p.ids = work[w].snap.ids
        /\ p.stamp \in Nat
    BY CandidateShape DEF Pubs
  <2> HIDE DEF p
  <2>3. /\ local \in WorkLocals /\ local.pc = "catalog" /\ local.cp = work[w].cp
        /\ local.target = work[w].target /\ local.snap = work[w].snap
        /\ local.intent = p /\ local.stamp = p.stamp
    BY <2>2, RunShape DEF WorkLocals, Steps
  <2> HIDE DEF local
  <2>4. ASSUME NEW prepared, Prepared \subseteq prepared /\ p \in prepared
        PROVE  Fits(local, prepared, catalog, Seen)
    BY <2>1, <2>2, <2>3, <2>4, RunShape DEF Fits, Captured
  <2> QED  BY <2>1, <2>2, <2>3, <2>4, PrepareStep
<1> QED  BY <1>1, <1>2

LEMMA PreparePublicationStep ==
    ASSUME WorkflowInv, NEW w \in Workers, PreparePublication(w)
    PROVE  WorkflowInv'
<1> DEFINE stamp == IF work[w].target = Empty THEN Stamp(w) ELSE work[w].stamp
           p == Candidate(w, stamp)
           may == ~Incomplete(w) /\ WithinLimits(w) /\ (AlreadyPrepared(p) \/ MayPrepare(p))
           local == [work[w] EXCEPT !.pc = "ready", !.intent = p]
<1>1. CASE ~may
  BY <1>1, ConflictStep DEF PreparePublication, OrConflict
<1>2. CASE may
  <2>1. /\ PrepareIntent(p) /\ work' = [work EXCEPT ![w] = local] /\ work[w].pc = "publish"
        /\ UNCHANGED <<catalog, checkpoint, observed, comparison, issued, file>>
    BY <1>2 DEF PreparePublication, OrConflict, At, catalogVars, worldVars
  <2>2. stamp \in Nat /\ (work[w].target # Empty => stamp = work[w].stamp)
    BY CandidateShape, RunShape
  <2> HIDE DEF stamp
  <2>3. /\ p \in Pubs /\ p.id # 0 /\ p.obs = work[w].target /\ p.ids = work[w].snap.ids
        /\ p.stamp = stamp
    BY <2>2, CandidateShape
  <2> HIDE DEF p
  <2>4. /\ local \in WorkLocals /\ local.pc = "ready" /\ local.cp = work[w].cp
        /\ local.target = work[w].target /\ local.snap = work[w].snap
        /\ local.intent = p
    BY <2>3, RunShape DEF WorkLocals, Steps
  <2> HIDE DEF local
  <2>5. work[w].snap.content = work[w].target
    BY <2>1, RunShape DEF Fits, Captured
  <2>6. p.obs # Empty => InCatalog(catalog, <<p.obs, p.ids>>, p.stamp)
    BY <2>1, <2>2, <2>3, <2>5, RunShape DEF Fits
  <2>7. ASSUME NEW prepared, Prepared \subseteq prepared /\ p \in prepared
        PROVE  Fits(local, prepared, catalog, Seen)
    BY <2>1, <2>4, <2>5, <2>6, <2>7, RunShape DEF Fits, Captured
  <2> QED  BY <2>1, <2>3, <2>4, <2>7, PrepareStep
<1> QED  BY <1>1, <1>2

LEMMA CommitIndexStep ==
    ASSUME WorkflowInv, NEW w \in Workers, CommitIndex(w)
    PROVE  WorkflowInv'
<1> DEFINE row == Publication(VersionOf(w), work[w].stamp, 0)
           local == [work[w] EXCEPT !.pc = "publish"]
<1>1. CASE CommitConflicts(row)
  BY <1>1, ConflictStep DEF CommitIndex, OrConflict
<1>2. CASE ~CommitConflicts(row)
  <2>1. /\ CommitCurrent(row) /\ work' = [work EXCEPT ![w] = local] /\ work[w].pc = "catalog"
        /\ UNCHANGED <<intents, published, latest, checkpoint, observed, comparison,
                       issued, file>>
    BY <1>2 DEF CommitIndex, OrConflict, Goto, At, publicationVars, worldVars
  <2>2. /\ row.version = <<work[w].snap.content, work[w].snap.ids>>
        /\ row.publishedAt = work[w].stamp /\ row \in Rows
    BY RunShape DEF Publication, VersionOf, Rows, Snapshots
  <2> HIDE DEF row
  <2>3. catalog' = catalog \cup {row}
    BY <2>1 DEF CommitCurrent, CommitConflicts, Catalogued, FindVersion
  <2>4. /\ Seen' = Seen /\ Prepared' = Prepared
    BY <2>1 DEF Seen, Prepared
  <2>5. StoresOK'
    BY <2>1, <2>2, <2>3, <2>4 DEF WorkflowInv, StoresOK, WellFormed
  <2>6. ChainInv'
    BY <2>1 DEF WorkflowInv, ChainInv, TablesOK, IntentsMarked, PendingIsNext, PendingIntents,
                Succession
  <2>7. /\ work[w].intent \in Prepared /\ work[w].intent.obs = work[w].target
        /\ work[w].intent.ids = work[w].snap.ids /\ work[w].intent.stamp = work[w].stamp
        /\ work[w].snap.content = work[w].target
    BY <2>1, RunShape DEF Fits, Captured
  <2>8. Indexed'
    <3>1. \A q \in published' : q.obs # Empty => InCatalog(catalog', <<q.obs, q.ids>>, q.stamp)
      BY <2>1, <2>3 DEF WorkflowInv, Indexed, InCatalog
    <3>2. \A r \in catalog' : \E q \in Prepared' :
             <<q.obs, q.ids>> = r.version /\ q.stamp = r.publishedAt
      BY <2>2, <2>3, <2>4, <2>7 DEF WorkflowInv, Indexed
    <3> QED  BY <3>1, <3>2 DEF Indexed
  <2>9. /\ local \in WorkLocals /\ local.pc = "publish" /\ local.cp = work[w].cp
        /\ local.target = work[w].target /\ local.snap = work[w].snap
        /\ local.intent = work[w].intent /\ local.stamp = work[w].stamp
    BY RunShape DEF WorkLocals, Steps
  <2> HIDE DEF local
  <2>10. InCatalog(catalog', <<local.snap.content, local.snap.ids>>, local.stamp)
    BY <2>2, <2>3, <2>9 DEF InCatalog
  <2>11. Fits(local, Prepared', catalog', Seen')
    BY <2>4, <2>7, <2>9, <2>10, RunShape DEF Fits, Captured
  <2>12. WorkersFit'
    BY <2>1, <2>3, <2>4, <2>9, <2>11, RunGoesOn
  <2> QED  BY <2>5, <2>6, <2>8, <2>12 DEF WorkflowInv
<1> QED  BY <1>1, <1>2

LEMMA CommitPublicationStep ==
    ASSUME WorkflowInv, NEW w \in Workers, CommitPublication(w)
    PROVE  WorkflowInv'
<1> DEFINE p == work[w].intent
           local == [work[w] EXCEPT !.pc = "save"]
<1>1. CASE ~MayCommit(p)
  BY <1>1, ConflictStep DEF CommitPublication, OrConflict
<1>2. CASE MayCommit(p)
  <2>1. /\ CommitReady(p) /\ work' = [work EXCEPT ![w] = local] /\ work[w].pc = "ready"
        /\ UNCHANGED <<catalog, checkpoint, observed, comparison, issued, file>>
    BY <1>2 DEF CommitPublication, OrConflict, Goto, At, catalogVars, worldVars
  <2>2. p \in Pubs
    BY RunShape
  <2>3. ChainInv' /\ \A q \in Pubs : AlreadyPrepared(q) <=> AlreadyPrepared(q)'
    BY <2>1, <2>2, CommitKeepsChain, MarkedTables DEF WorkflowInv
  <2>4. Prepared \subseteq Prepared'
    <3>1. ASSUME NEW q \in Prepared PROVE q \in Prepared'
      <4>1. q \in Pubs /\ AlreadyPrepared(q)
        BY PreparedShape DEF WorkflowInv
      <4>2. AlreadyPrepared(q)'
        BY <2>3, <4>1
      <4> QED  BY <4>2 DEF AlreadyPrepared, Prepared
    <3> QED  BY <3>1
  <2>5. Seen' = Seen
    BY <2>1 DEF Seen
  <2>6. StoresOK'
    BY <2>1, <2>5 DEF WorkflowInv, StoresOK, WellFormed
  <2>7. p.obs # Empty => InCatalog(catalog, <<p.obs, p.ids>>, p.stamp)
    BY <2>1, RunShape DEF Fits
  <2>8. Indexed'
    <3>1. published' = published \cup {p}
      BY <2>1 DEF CommitReady
    <3> QED  BY <2>1, <2>4, <2>7, <3>1 DEF WorkflowInv, Indexed
  <2>9. /\ local \in WorkLocals /\ local.pc = "save" /\ local.cp = work[w].cp
        /\ local.target = work[w].target /\ local.snap = work[w].snap
        /\ local.intent = work[w].intent
    BY RunShape DEF WorkLocals, Steps
  <2> HIDE DEF local
  <2>10. Fits(local, Prepared', catalog', Seen')
    BY <2>1, <2>4, <2>5, <2>9, RunShape DEF Fits, Captured
  <2>11. WorkersFit'
    BY <2>1, <2>4, <2>5, <2>9, <2>10, RunGoesOn
  <2> QED  BY <2>3, <2>6, <2>8, <2>11 DEF WorkflowInv
<1> QED  BY <1>1, <1>2

LEMMA SaveBaselineStep ==
    ASSUME WorkflowInv, NEW w \in Workers, SaveBaseline(w)
    PROVE  WorkflowInv'
<1> DEFINE next == [obs |-> work[w].target, snap |-> work[w].snap, pending |-> NoSnapshot]
           local == [work[w] EXCEPT !.pc = "mark"]
<1>1. CASE ~MaySave(next)
  BY <1>1, ConflictStep DEF SaveBaseline, OrConflict
<1>2. CASE MaySave(next)
  <2>1. /\ Save(next) /\ work' = [work EXCEPT ![w] = local] /\ work[w].pc = "save"
        /\ UNCHANGED <<intents, published, latest, catalog, observed, comparison, issued, file>>
    BY <1>2 DEF SaveBaseline, OrConflict, Goto, At, publicationVars, catalogVars, worldVars
  <2>2. next \in Checkpoints /\ next.obs \in Seen
    BY RunShape, IdleShape DEF Checkpoints, Fits
  <2> HIDE DEF next
  <2>3. checkpoint' = next /\ WellFormed(next) /\ Seen' = Seen
    BY <2>1 DEF Save, MaySave, Seen
  <2>4. StoresOK'
    BY <2>1, <2>2, <2>3 DEF WorkflowInv, StoresOK, WellFormed
  <2>5. /\ local \in WorkLocals /\ local.pc = "mark" /\ local.cp = work[w].cp
        /\ local.target = work[w].target /\ local.snap = work[w].snap
        /\ local.intent = work[w].intent
    BY RunShape DEF WorkLocals, Steps
  <2> HIDE DEF local
  <2>6. Fits(local, Prepared, catalog, Seen)
    BY <2>1, <2>5, RunShape DEF Fits, Captured
  <2> QED  BY <2>1, <2>3, <2>4, <2>5, <2>6, QuietStep
<1> QED  BY <1>1, <1>2

LEMMA MarkBaselineStep ==
    ASSUME WorkflowInv, NEW w \in Workers, MarkBaseline(w)
    PROVE  WorkflowInv'
<1>1. /\ work' = [work EXCEPT ![w] = IdleWork]
      /\ comparison' \in {comparison, work[w].target}
      /\ UNCHANGED <<intents, published, latest, catalog, checkpoint, observed, issued, file>>
  BY DEF MarkBaseline, Return, publicationVars, catalogVars, worldVars
<1>2. Seen' = Seen /\ NoContent \in Seen /\ work[w].target \in Seen
  BY <1>1, RunShape DEF Seen, Fits
<1>3. StoresOK'
  BY <1>1, <1>2 DEF WorkflowInv, StoresOK, WellFormed
<1> QED  BY <1>1, <1>2, <1>3, IdleShape, QuietStep

-----------------------------------------------------------------------------
(* The theorems                                                            *)

LEMMA InitWorkflow ==
    Init => WorkflowInv
<1> SUFFICES ASSUME Init PROVE WorkflowInv
  OBVIOUS
<1>1. /\ intents = {} /\ published = {} /\ latest = NoPublication /\ catalog = {}
      /\ checkpoint = BlankCheckpoint /\ observed = {} /\ comparison = NoContent
      /\ issued = 0 /\ file \in Contents /\ work = [w \in Workers |-> IdleWork]
  BY DEF Init, PublicationsInit, CheckpointInit, CatalogInit
<1>2. NoPublication \in Pubs
  BY DEF NoPublication, Pubs, MaybeContent
<1>3. ChainInv
  <2>1. IsFiniteSet(intents) /\ PendingIntents = {}
    BY <1>1, FS_EmptySet DEF PendingIntents
  <2> QED  BY <1>1, <1>2, <2>1 DEF ChainInv, TablesOK, IntentsMarked, PendingIsNext, Succession
<1>4. StoresOK
  <2>1. BlankCheckpoint.obs = NoContent /\ WellFormed(BlankCheckpoint)
    BY DEF BlankCheckpoint, WellFormed
  <2>2. checkpoint \in Checkpoints /\ WellFormed(checkpoint) /\ checkpoint.obs \in Seen
    BY <1>1, <2>1, IdleShape DEF Seen
  <2>3. issued \in 0 .. MaxIds
    BY <1>1, WorkflowAssumption
  <2> QED  BY <1>1, <2>2, <2>3 DEF StoresOK, Seen
<1>5. WorkersFit
  BY <1>1, IdleShape DEF WorkersFit, Seen
<1>6. Indexed
  BY <1>1 DEF Indexed
<1> QED  BY <1>3, <1>4, <1>5, <1>6 DEF WorkflowInv

LEMMA EditStep ==
    ASSUME WorkflowInv, Edit
    PROVE  WorkflowInv'
<1>1. /\ file' \in Contents
      /\ UNCHANGED <<intents, published, latest, catalog, checkpoint, observed, comparison,
                     issued, work>>
  BY DEF Edit, publicationVars, catalogVars
<1>2. Seen' = Seen /\ Prepared' = Prepared
  BY <1>1 DEF Seen, Prepared
<1>3. ChainInv'
  BY <1>1 DEF WorkflowInv, ChainInv, TablesOK, IntentsMarked, PendingIsNext, PendingIntents,
              Succession
<1>4. StoresOK'
  BY <1>1, <1>2 DEF WorkflowInv, StoresOK, WellFormed
<1>5. WorkersFit' /\ Indexed'
  BY <1>1, <1>2 DEF WorkflowInv, WorkersFit, Indexed
<1> QED  BY <1>3, <1>4, <1>5 DEF WorkflowInv

LEMMA StutterStep ==
    ASSUME WorkflowInv, UNCHANGED vars
    PROVE  WorkflowInv'
<1>1. UNCHANGED <<intents, published, latest, catalog, checkpoint, observed, comparison,
                  issued, file, work>>
  BY DEF vars
<1>2. Seen' = Seen /\ Prepared' = Prepared
  BY <1>1 DEF Seen, Prepared
<1>3. ChainInv'
  BY <1>1 DEF WorkflowInv, ChainInv, TablesOK, IntentsMarked, PendingIsNext, PendingIntents,
              Succession
<1>4. StoresOK'
  BY <1>1, <1>2 DEF WorkflowInv, StoresOK, WellFormed
<1>5. WorkersFit' /\ Indexed'
  BY <1>1, <1>2 DEF WorkflowInv, WorkersFit, Indexed
<1> QED  BY <1>3, <1>4, <1>5 DEF WorkflowInv

LEMMA StopStep ==
    ASSUME WorkflowInv, NEW w \in Workers, Stop(w)
    PROVE  WorkflowInv'
BY ReturnStep DEF Stop, publicationVars, catalogVars, worldVars

LEMMA WorkerKeeps ==
    ASSUME WorkflowInv, NEW w \in Workers, WorkerStep(w)
    PROVE  WorkflowInv'
BY ReadPendingIntentStep, RecoverStep, InspectStep, EnsureBaselineStep,
   ConfirmCheckpointStep, RepairBaselineStep, ObserveStep, ObservedStep, CaptureStep,
   ReadLatestStep, IndexStep, BeforeCatalogCommitStep, CommitIndexStep,
   PreparePublicationStep, CommitPublicationStep, SaveBaselineStep, MarkBaselineStep
   DEF WorkerStep

\* What publish() relies on between any two of its steps, however many runs
\* overlap and wherever they stop.
THEOREM WorkflowInvariant ==
    Spec => []WorkflowInv
<1>1. WorkflowInv /\ [Next]_vars => WorkflowInv'
  BY RegisterStep, WorkerKeeps, StopStep, EditStep, StutterStep DEF Next
<1> QED  BY InitWorkflow, <1>1, PTL DEF Spec

\* Every variable of the workflow keeps its shape: stored checkpoints are
\* well formed, and the baseline pointer names a stored observation.
THEOREM WorkflowTypes ==
    Spec => []WorkflowTypeOK
<1>1. WorkflowInv => WorkflowTypeOK
  BY RunShape DEF WorkflowInv, StoresOK, Seen, WorkersFit, WorkLocals, WorkflowTypeOK
<1> QED  BY <1>1, WorkflowInvariant, PTL

\* prepareRecoveryIntent and commitReady keep the publications of a source on
\* one line of succession with at most one unfinished publication after it,
\* for any number of overlapping runs that stop anywhere.
THEOREM PublicationsAreOneChain ==
    Spec => []OneChain
<1>1. WorkflowInv => OneChain
  BY ChainIsOne DEF WorkflowInv
<1> QED  BY <1>1, WorkflowInvariant, PTL

\* A publication the registry may read has its index version in the catalog,
\* stamped as the publication says, and every version in the catalog has a
\* durable intent that leads to it.
THEOREM PublishedWasIndexed ==
    Spec => []PublishedIsIndexed
<1>1. WorkflowInv => PublishedIsIndexed
  BY DEF WorkflowInv, Indexed, InCatalog, Prepared, FindVersion, PublishedIsIndexed
<1> QED  BY <1>1, WorkflowInvariant, PTL

-----------------------------------------------------------------------------
(* One process                                                             *)

\* Where a run still holds the checkpoint as it is stored, where it works on
\* the file with nothing left to recover, where its snapshot is durable but
\* not the baseline, and where it has compared it with the latest publication.
Observing == {"inspect", "baseline", "persisted", "repair", "observe", "observed"}
Reading == {"pending", "recover", "capture"} \cup Observing
Unsaved == {"latest", "index", "hook", "catalog", "publish", "ready", "save"}
Succeeding == {"index", "hook", "catalog", "publish"}

Identities(p) == [content |-> p.obs, ids |-> p.ids]

\* The checkpoint and the publications of a source only one process ingests:
\* an unfinished publication is of the identities the checkpoint holds back,
\* and the latest one is the baseline or is about to become it.
LedgerOK ==
    /\ BaselineAsPublished
    /\ \A i \in PendingIntents :
          /\ checkpoint.pending = Identities(i.pub) /\ checkpoint.pending # NoSnapshot
          /\ i.pub.obs # latest.obs
    /\ \/ latest.obs = checkpoint.obs
       \/ checkpoint.pending = Identities(latest) /\ checkpoint.pending # NoSnapshot

\* What the one run knows of them.
RunOK(local) ==
    /\ local.pc \in Reading => local.cp = checkpoint
    /\ local.pc \in {"idle", "pending"} => local.intent = NoPublication
    /\ local.pc = "recover" => \/ local.intent = NoPublication
                               \/ \E i \in PendingIntents : i.pub = local.intent
    /\ local.pc \in Observing => checkpoint.pending = NoSnapshot
    /\ local.pc = "observed" => local.target = NoContent \/ local.target # checkpoint.obs
    /\ local.pc = "capture" => local.target # NoContent /\ local.target # checkpoint.obs
    /\ local.pc \in Unsaved => checkpoint.pending = local.snap /\ local.snap # NoSnapshot
    /\ local.pc \in Succeeding => local.prev = latest /\ latest.obs # local.target
    /\ local.pc = "ready" =>
          /\ local.intent.prev = latest.id /\ latest.obs # local.target
          /\ local.intent.obs = local.target /\ local.intent.ids = local.snap.ids
    /\ local.pc = "save" =>
          /\ latest.obs = local.target /\ latest.ids = local.snap.ids
          /\ PendingIntents = {}

AloneInv == part = "alone" => LedgerOK /\ RunOK(work[First])

\* Only the locals of the run change.
LEMMA AloneLocalStep ==
    ASSUME WorkflowInv, LedgerOK, NEW w \in Workers, NEW local, RunOK(local),
           work' = [work EXCEPT ![w] = local],
           UNCHANGED <<intents, published, latest, checkpoint>>
    PROVE  LedgerOK' /\ RunOK(work[w])'
<1>1. work'[w] = local /\ PendingIntents' = PendingIntents
  BY DEF WorkflowInv, WorkersFit, PendingIntents
<1>2. LedgerOK'
  BY <1>1 DEF LedgerOK, BaselineAsPublished
<1>3. RunOK(work[w])'
  BY <1>1 DEF RunOK
<1> QED  BY <1>2, <1>3

LEMMA AloneReturn ==
    ASSUME WorkflowInv, LedgerOK, NEW w \in Workers, Return(w),
           UNCHANGED <<intents, published, latest, checkpoint>>
    PROVE  LedgerOK' /\ RunOK(work[w])'
<1>1. RunOK(IdleWork)
  BY DEF RunOK, IdleWork, Reading, Observing, Unsaved, Succeeding
<1> QED  BY <1>1, AloneLocalStep DEF Return

LEMMA AloneConflict ==
    ASSUME WorkflowInv, LedgerOK, NEW w \in Workers, Return(w),
           UNCHANGED <<publicationVars, catalogVars, checkpoint, comparison, issued>>
    PROVE  LedgerOK' /\ RunOK(work[w])'
BY AloneReturn DEF publicationVars

LEMMA AloneRegister ==
    ASSUME WorkflowInv, LedgerOK, NEW w \in Workers, RunOK(work[w]), Register(w)
    PROVE  LedgerOK' /\ RunOK(work[w])'
<1> DEFINE local == [work[w] EXCEPT !.pc = "pending", !.cp = checkpoint]
<1>1. /\ work' = [work EXCEPT ![w] = local] /\ work[w].pc = "idle"
      /\ UNCHANGED <<intents, published, latest, checkpoint>>
  BY DEF Register, At, publicationVars
<1>2. local.pc = "pending" /\ local.cp = checkpoint /\ local.intent = work[w].intent
  BY RunShape DEF WorkLocals
<1> HIDE DEF local
<1>3. RunOK(local)
  BY <1>1, <1>2 DEF RunOK, Reading, Observing, Unsaved, Succeeding
<1> QED  BY <1>1, <1>3, AloneLocalStep

LEMMA AloneReadPending ==
    ASSUME WorkflowInv, LedgerOK, NEW w \in Workers, RunOK(work[w]), ReadPendingIntent(w)
    PROVE  LedgerOK' /\ RunOK(work[w])'
<1>0. work[w].pc = "pending" /\ UNCHANGED <<intents, published, latest, checkpoint>>
  BY DEF ReadPendingIntent, At, publicationVars
<1>1. ASSUME NEW intent \in Pubs,
             intent = NoPublication \/ \E i \in PendingIntents : i.pub = intent,
             work' = [work EXCEPT ![w] = [work[w] EXCEPT !.pc = "recover", !.intent = intent]]
      PROVE  LedgerOK' /\ RunOK(work[w])'
  <2> DEFINE local == [work[w] EXCEPT !.pc = "recover", !.intent = intent]
  <2>1. local.pc = "recover" /\ local.cp = work[w].cp /\ local.intent = intent
    BY RunShape DEF WorkLocals
  <2>2. work' = [work EXCEPT ![w] = local]
    BY <1>1
  <2> HIDE DEF local
  <2>3. RunOK(local)
    BY <1>0, <1>1, <2>1 DEF RunOK, Reading, Observing, Unsaved, Succeeding
  <2> QED  BY <1>0, <2>2, <2>3, AloneLocalStep
<1>2. CASE Goto(w, "recover")
  <2>1. work[w].intent = NoPublication /\ NoPublication \in Pubs
    BY <1>0, RunShape DEF RunOK
  <2>2. [work[w] EXCEPT !.pc = "recover"]
          = [work[w] EXCEPT !.pc = "recover", !.intent = NoPublication]
    BY <2>1, RunShape DEF WorkLocals
  <2> QED  BY <1>1, <1>2, <2>1, <2>2 DEF Goto
<1>3. ASSUME NEW i \in PendingIntents,
             work' = [work EXCEPT ![w] = [work[w] EXCEPT !.pc = "recover", !.intent = i.pub]]
      PROVE  LedgerOK' /\ RunOK(work[w])'
  <2>1. i.pub \in Pubs
    BY PreparedShape DEF PendingIntents, Prepared, WorkflowInv
  <2> QED  BY <1>1, <1>3, <2>1
<1> QED  BY <1>2, <1>3 DEF ReadPendingIntent

\* A stored observation the run resumes is not the baseline.
LEMMA AloneResume ==
    ASSUME WorkflowInv, LedgerOK, NEW w \in Workers, RunOK(work[w]), At(w, "recover"),
           NEW obs, obs # checkpoint.obs, Resume(w, obs),
           UNCHANGED <<intents, published, latest, checkpoint>>
    PROVE  LedgerOK' /\ RunOK(work[w])'
<1>1. CASE obs \in observed
  <2> DEFINE local == [work[w] EXCEPT !.pc = "capture", !.target = obs]
  <2>1. work' = [work EXCEPT ![w] = local] /\ obs # NoContent
    BY <1>1, WorkflowAssumption DEF Resume, WorkflowInv, StoresOK
  <2>2. local.pc = "capture" /\ local.cp = work[w].cp /\ local.target = obs
    BY RunShape DEF WorkLocals
  <2> HIDE DEF local
  <2>3. RunOK(local)
    BY <2>1, <2>2 DEF RunOK, At, Reading, Observing, Unsaved, Succeeding
  <2> QED  BY <2>1, <2>3, AloneLocalStep
<1>2. CASE obs \notin observed
  BY <1>2, AloneReturn DEF Resume
<1> QED  BY <1>1, <1>2

LEMMA AloneRecover ==
    ASSUME WorkflowInv, LedgerOK, NEW w \in Workers, RunOK(work[w]),
           RecoverBeforeObservation(w)
    PROVE  LedgerOK' /\ RunOK(work[w])'
<1> DEFINE cp == work[w].cp
           intent == work[w].intent
<1>1. /\ At(w, "recover") /\ UNCHANGED <<intents, published, latest, checkpoint>>
  BY DEF RecoverBeforeObservation, publicationVars
<1>2. cp = checkpoint /\ (intent = NoPublication \/ \E i \in PendingIntents : i.pub = intent)
  BY <1>1 DEF RunOK, At, Reading
<1>3. checkpoint.pending # NoSnapshot => checkpoint.pending.content # checkpoint.obs
  BY DEF WorkflowInv, StoresOK, WellFormed
<1>4. CASE intent # NoPublication
  <2>1. checkpoint.pending # NoSnapshot /\ checkpoint.pending.content = intent.obs
    <3>1. PICK i \in PendingIntents : i.pub = intent
      BY <1>2, <1>4
    <3>2. checkpoint.pending = Identities(i.pub) /\ checkpoint.pending # NoSnapshot
      BY DEF LedgerOK
    <3>3. Identities(i.pub).content = i.pub.obs
      BY DEF Identities
    <3> QED  BY <3>1, <3>2, <3>3
  <2>2. Return(w) \/ Resume(w, intent.obs)
    BY <1>4 DEF RecoverBeforeObservation
  <2> QED  BY <1>1, <1>3, <2>1, <2>2, AloneReturn, AloneResume
<1>5. CASE intent = NoPublication /\ checkpoint.pending # NoSnapshot
  <2>1. Resume(w, checkpoint.pending.content)
    BY <1>2, <1>5 DEF RecoverBeforeObservation
  <2> QED  BY <1>1, <1>3, <1>5, <2>1, AloneResume
<1>6. CASE intent = NoPublication /\ checkpoint.pending = NoSnapshot
  <2> DEFINE local == [work[w] EXCEPT !.pc = "inspect"]
  <2>1. cp.pending = NoSnapshot /\ latest.obs \in {NoContent, cp.obs}
    BY <1>2, <1>6 DEF LedgerOK
  <2>2. work' = [work EXCEPT ![w] = local]
    BY <1>6, <2>1 DEF RecoverBeforeObservation, Goto
  <2>3. local.pc = "inspect" /\ local.cp = checkpoint
    BY <1>2, RunShape DEF WorkLocals
  <2> HIDE DEF local
  <2>4. RunOK(local)
    BY <1>6, <2>3 DEF RunOK, Reading, Observing, Unsaved, Succeeding
  <2> QED  BY <1>1, <2>2, <2>4, AloneLocalStep
<1> QED  BY <1>4, <1>5, <1>6

\* The steps from the inspection to the observation write the checkpoint back
\* as it is.
LEMMA AloneObserving ==
    ASSUME WorkflowInv, LedgerOK, NEW w \in Workers, RunOK(work[w]), work[w].pc \in Observing,
           NEW local, local.pc \in Observing \ {"observed"}, local.cp = work[w].cp,
           work' = [work EXCEPT ![w] = local],
           UNCHANGED <<intents, published, latest, checkpoint>>
    PROVE  LedgerOK' /\ RunOK(work[w])'
<1>1. RunOK(local)
  BY DEF RunOK, Reading, Observing, Unsaved, Succeeding
<1> QED  BY <1>1, AloneLocalStep

LEMMA AloneInspect ==
    ASSUME WorkflowInv, LedgerOK, NEW w \in Workers, RunOK(work[w]), Inspect(w)
    PROVE  LedgerOK' /\ RunOK(work[w])'
<1>1. CASE ~MaySave(work[w].cp)
  BY <1>1, AloneConflict DEF Inspect, OrConflict
<1>2. CASE MaySave(work[w].cp)
  <2> DEFINE local == [work[w] EXCEPT !.pc = "baseline"]
  <2>1. /\ work[w].pc = "inspect" /\ checkpoint' = work[w].cp
        /\ work' = [work EXCEPT ![w] = local] /\ UNCHANGED <<intents, published, latest>>
    BY <1>2 DEF Inspect, OrConflict, Goto, At, Save, publicationVars
  <2>2. checkpoint' = checkpoint /\ work[w].pc \in Observing
    BY <2>1 DEF RunOK, Reading, Observing
  <2>3. local.pc \in Observing \ {"observed"} /\ local.cp = work[w].cp
    BY RunShape DEF WorkLocals, Observing
  <2> HIDE DEF local
  <2> QED  BY <2>1, <2>2, <2>3, AloneObserving
<1> QED  BY <1>1, <1>2

LEMMA AloneEnsure ==
    ASSUME WorkflowInv, LedgerOK, NEW w \in Workers, RunOK(work[w]),
           EnsureComparisonBaseline(w)
    PROVE  LedgerOK' /\ RunOK(work[w])'
<1> DEFINE step == IF work[w].cp.obs \in {NoContent, comparison} THEN "observe" ELSE "persisted"
           local == [work[w] EXCEPT !.pc = step, !.compared = comparison]
<1>1. /\ work[w].pc \in Observing /\ work' = [work EXCEPT ![w] = local]
      /\ UNCHANGED <<intents, published, latest, checkpoint>>
  BY DEF EnsureComparisonBaseline, At, Observing, publicationVars
<1>2. local.pc \in Observing \ {"observed"} /\ local.cp = work[w].cp
  BY RunShape DEF WorkLocals, Observing
<1> HIDE DEF local
<1> QED  BY <1>1, <1>2, AloneObserving

LEMMA AloneConfirm ==
    ASSUME WorkflowInv, LedgerOK, NEW w \in Workers, RunOK(work[w]), ConfirmCheckpoint(w)
    PROVE  LedgerOK' /\ RunOK(work[w])'
<1> DEFINE local == [work[w] EXCEPT !.pc = "repair"]
<1>1. /\ work[w].pc \in Observing /\ UNCHANGED <<intents, published, latest, checkpoint>>
      /\ Return(w) \/ work' = [work EXCEPT ![w] = local]
  BY DEF ConfirmCheckpoint, At, Goto, Observing, publicationVars
<1>2. local.pc \in Observing \ {"observed"} /\ local.cp = work[w].cp
  BY RunShape DEF WorkLocals, Observing
<1> HIDE DEF local
<1> QED  BY <1>1, <1>2, AloneObserving, AloneReturn

LEMMA AloneRepair ==
    ASSUME WorkflowInv, LedgerOK, NEW w \in Workers, RunOK(work[w]), RepairBaseline(w)
    PROVE  LedgerOK' /\ RunOK(work[w])'
<1>1. CASE comparison # work[w].compared
  BY <1>1, AloneConflict DEF RepairBaseline, OrConflict
<1>2. CASE comparison = work[w].compared
  <2> DEFINE local == [work[w] EXCEPT !.pc = "observe"]
  <2>1. /\ work[w].pc \in Observing /\ work' = [work EXCEPT ![w] = local]
        /\ UNCHANGED <<intents, published, latest, checkpoint>>
    BY <1>2 DEF RepairBaseline, OrConflict, Goto, At, Observing, publicationVars
  <2>2. local.pc \in Observing \ {"observed"} /\ local.cp = work[w].cp
    BY RunShape DEF WorkLocals, Observing
  <2> HIDE DEF local
  <2> QED  BY <2>1, <2>2, AloneObserving
<1> QED  BY <1>1, <1>2

LEMMA AloneObserve ==
    ASSUME WorkflowInv, LedgerOK, NEW w \in Workers, RunOK(work[w]), Observe(w)
    PROVE  LedgerOK' /\ RunOK(work[w])'
<1> DEFINE seen == IF file = work[w].cp.obs THEN NoContent ELSE file
           local == [work[w] EXCEPT !.pc = "observed", !.target = seen]
<1>1. /\ work[w].pc = "observe" /\ work' = [work EXCEPT ![w] = local]
      /\ UNCHANGED <<intents, published, latest, checkpoint>>
  BY DEF Observe, At, publicationVars
<1>2. work[w].cp = checkpoint /\ checkpoint.pending = NoSnapshot
  BY <1>1 DEF RunOK, Reading, Observing
<1>3. seen = NoContent \/ seen # checkpoint.obs
  BY <1>2
<1> HIDE DEF seen
<1>4. local.pc = "observed" /\ local.cp = checkpoint /\ local.target = seen
  BY <1>2, RunShape DEF WorkLocals
<1> HIDE DEF local
<1>5. RunOK(local)
  BY <1>2, <1>3, <1>4 DEF RunOK, Reading, Observing, Unsaved, Succeeding
<1> QED  BY <1>1, <1>5, AloneLocalStep

LEMMA AloneObserved ==
    ASSUME WorkflowInv, LedgerOK, NEW w \in Workers, RunOK(work[w]), Observed(w)
    PROVE  LedgerOK' /\ RunOK(work[w])'
<1>1. CASE ~MaySave(work[w].cp)
  BY <1>1, AloneConflict DEF Observed, OrConflict
<1>2. CASE MaySave(work[w].cp)
  <2> DEFINE local == [work[w] EXCEPT !.pc = "capture"]
  <2>1. /\ work[w].pc = "observed" /\ checkpoint' = work[w].cp
        /\ IF work[w].target = NoContent THEN Return(w) ELSE work' = [work EXCEPT ![w] = local]
        /\ UNCHANGED <<intents, published, latest>>
    BY <1>2 DEF Observed, OrConflict, Goto, At, Save, publicationVars
  <2>2. work[w].cp = checkpoint /\ checkpoint' = checkpoint
    BY <2>1 DEF RunOK, Reading, Observing
  <2>3. local.pc = "capture" /\ local.cp = work[w].cp /\ local.target = work[w].target
    BY RunShape DEF WorkLocals
  <2> HIDE DEF local
  <2>4. CASE work[w].target = NoContent
    BY <2>1, <2>2, <2>4, AloneReturn
  <2>5. CASE work[w].target # NoContent
    <3>1. RunOK(local)
      BY <2>1, <2>2, <2>3, <2>5 DEF RunOK, Reading, Observing, Unsaved, Succeeding
    <3> QED  BY <2>1, <2>2, <2>5, <3>1, AloneLocalStep
  <2> QED  BY <2>4, <2>5
<1> QED  BY <1>1, <1>2

\* The identities are durable before they are used, and with none held back
\* nothing was left unfinished.
LEMMA AloneCapture ==
    ASSUME WorkflowInv, LedgerOK, NEW w \in Workers, RunOK(work[w]), Capture(w)
    PROVE  LedgerOK' /\ RunOK(work[w])'
<1> DEFINE cp == work[w].cp
           target == work[w].target
           Held(snap) == [work[w] EXCEPT !.pc = "latest", !.snap = snap]
<1>1. work[w].pc = "capture" /\ UNCHANGED <<intents, published, latest>>
  BY DEF Capture, At, publicationVars
<1>2. cp = checkpoint /\ target # NoContent /\ target # checkpoint.obs
  BY <1>1 DEF RunOK, Reading
<1>3. CASE Return(w) /\ UNCHANGED <<checkpoint, issued>>
  BY <1>1, <1>3, AloneReturn
<1>4. CASE /\ cp.pending # NoSnapshot /\ work' = [work EXCEPT ![w] = Held(cp.pending)]
           /\ UNCHANGED <<checkpoint, issued>>
  <2> DEFINE local == Held(cp.pending)
  <2>1. local.pc = "latest" /\ local.snap = checkpoint.pending
    BY <1>2, RunShape DEF WorkLocals
  <2> HIDE DEF local
  <2>2. RunOK(local)
    BY <1>2, <1>4, <2>1 DEF RunOK, Reading, Observing, Unsaved, Succeeding
  <2>3. work' = [work EXCEPT ![w] = local]
    BY <1>4 DEF local
  <2> QED  BY <1>1, <1>4, <2>2, <2>3, AloneLocalStep
<1>5. ASSUME NEW ids \in {cp.snap.ids, issued + 1}, cp.pending = NoSnapshot,
             Save([cp EXCEPT !.pending = [content |-> target, ids |-> ids]]),
             work' = [work EXCEPT ![w] = Held([content |-> target, ids |-> ids])]
      PROVE  LedgerOK' /\ RunOK(work[w])'
  <2> DEFINE snap == [content |-> target, ids |-> ids]
             local == Held(snap)
  <2>1. snap # NoSnapshot
    BY <1>2 DEF NoSnapshot
  <2>2. checkpoint' = [checkpoint EXCEPT !.pending = snap] /\ checkpoint \in Checkpoints
    BY <1>2, <1>5 DEF Save, WorkflowInv, StoresOK
  <2> HIDE DEF snap
  <2>3. /\ checkpoint'.pending = snap /\ checkpoint'.obs = checkpoint.obs
        /\ checkpoint'.snap = checkpoint.snap
    BY <2>2 DEF Checkpoints
  <2>4. work' = [work EXCEPT ![w] = local]
    BY <1>5 DEF snap
  <2>5. local.pc = "latest" /\ local.snap = snap
    BY RunShape DEF WorkLocals
  <2> HIDE DEF local
  <2>6. PendingIntents = {} /\ latest.obs = checkpoint.obs
    BY <1>2, <1>5 DEF LedgerOK
  <2>7. LedgerOK'
    BY <1>1, <2>3, <2>6 DEF LedgerOK, BaselineAsPublished, PendingIntents
  <2>8. work'[w] = local
    BY <2>4 DEF WorkflowInv, WorkersFit
  <2>9. RunOK(work[w])'
    BY <2>1, <2>3, <2>5, <2>8 DEF RunOK, Reading, Observing, Unsaved, Succeeding
  <2> QED  BY <2>7, <2>9
<1> QED  BY <1>3, <1>4, <1>5 DEF Capture

\* A target that is published already is the one whose identities are held
\* back, and it is not unfinished.
LEMMA AloneReadLatest ==
    ASSUME WorkflowInv, LedgerOK, NEW w \in Workers, RunOK(work[w]), ReadLatest(w)
    PROVE  LedgerOK' /\ RunOK(work[w])'
<1> DEFINE target == work[w].target
           step == CASE latest.obs = target -> "save"
                     [] latest.obs # target /\ target = Empty -> "publish"
                     [] OTHER -> "index"
           local == [work[w] EXCEPT !.pc = step, !.prev = latest]
<1>1. /\ work' = [work EXCEPT ![w] = local] /\ work[w].pc = "latest"
      /\ UNCHANGED <<intents, published, latest, checkpoint>>
  BY DEF ReadLatest, At, publicationVars
<1>2. /\ step \in {"save", "publish", "index"} /\ (step = "save" <=> latest.obs = target)
  OBVIOUS
<1>3. /\ checkpoint.pending = work[w].snap /\ work[w].snap # NoSnapshot
      /\ work[w].snap.content = target
  BY <1>1, RunShape DEF RunOK, Unsaved, Fits, Captured
<1>4. target # checkpoint.obs
  BY <1>3 DEF WorkflowInv, StoresOK, WellFormed
<1> HIDE DEF step
<1>5. /\ local.pc = step /\ local.prev = latest /\ local.target = target
      /\ local.snap = work[w].snap
  BY RunShape DEF WorkLocals
<1> HIDE DEF local
<1>6. step = "save" => latest.ids = work[w].snap.ids /\ PendingIntents = {}
  <2> SUFFICES ASSUME step = "save" PROVE latest.ids = work[w].snap.ids /\ PendingIntents = {}
    OBVIOUS
  <2>1. latest.obs = target
    BY <1>2
  <2>2. checkpoint.pending = Identities(latest)
    BY <1>4, <2>1 DEF LedgerOK
  <2>3. latest.ids = work[w].snap.ids
    BY <1>3, <2>2 DEF Identities
  <2>4. ASSUME NEW i \in PendingIntents PROVE FALSE
    <3>1. checkpoint.pending = Identities(i.pub) /\ i.pub.obs # latest.obs
      BY DEF LedgerOK
    <3>2. checkpoint.pending.content = i.pub.obs
      BY <3>1 DEF Identities
    <3> QED  BY <1>3, <2>1, <3>1, <3>2
  <2> QED  BY <2>3, <2>4
<1>7. RunOK(local)
  BY <1>2, <1>3, <1>5, <1>6 DEF RunOK, Reading, Observing, Unsaved, Succeeding
<1> QED  BY <1>1, <1>7, AloneLocalStep

\* A run that goes on towards a successor of the latest publication.
LEMMA AloneSucceeding ==
    ASSUME WorkflowInv, LedgerOK, NEW w \in Workers, RunOK(work[w]), work[w].pc \in Succeeding,
           NEW local, local.pc \in Succeeding, local.prev = work[w].prev,
           local.target = work[w].target, local.snap = work[w].snap,
           work' = [work EXCEPT ![w] = local],
           UNCHANGED <<intents, published, latest, checkpoint>>
    PROVE  LedgerOK' /\ RunOK(work[w])'
<1>1. RunOK(local)
  BY DEF RunOK, Reading, Observing, Unsaved, Succeeding
<1> QED  BY <1>1, AloneLocalStep

LEMMA AloneIndex ==
    ASSUME WorkflowInv, LedgerOK, NEW w \in Workers, RunOK(work[w]), Index(w)
    PROVE  LedgerOK' /\ RunOK(work[w])'
<1>0. work[w].pc \in Succeeding /\ UNCHANGED <<intents, published, latest, checkpoint>>
  BY DEF Index, At, Succeeding, publicationVars
<1>1. CASE Goto(w, "hook")
  <2> DEFINE local == [work[w] EXCEPT !.pc = "hook"]
  <2>1. /\ local.pc \in Succeeding /\ local.prev = work[w].prev
        /\ local.target = work[w].target /\ local.snap = work[w].snap
    BY RunShape DEF WorkLocals, Succeeding
  <2>2. work' = [work EXCEPT ![w] = local]
    BY <1>1 DEF Goto
  <2> HIDE DEF local
  <2> QED  BY <1>0, <2>1, <2>2, AloneSucceeding
<1>2. ASSUME NEW row \in FindVersion(VersionOf(w)),
             work' = [work EXCEPT ![w] = [work[w] EXCEPT !.pc = "publish",
                                                         !.stamp = row.publishedAt]]
      PROVE  LedgerOK' /\ RunOK(work[w])'
  <2> DEFINE local == [work[w] EXCEPT !.pc = "publish", !.stamp = row.publishedAt]
  <2>1. /\ local.pc \in Succeeding /\ local.prev = work[w].prev
        /\ local.target = work[w].target /\ local.snap = work[w].snap
    BY RunShape DEF WorkLocals, Succeeding
  <2>2. work' = [work EXCEPT ![w] = local]
    BY <1>2
  <2> HIDE DEF local
  <2> QED  BY <1>0, <2>1, <2>2, AloneSucceeding
<1> QED  BY <1>1, <1>2 DEF Index

LEMMA AloneCommitIndex ==
    ASSUME WorkflowInv, LedgerOK, NEW w \in Workers, RunOK(work[w]), CommitIndex(w)
    PROVE  LedgerOK' /\ RunOK(work[w])'
<1> DEFINE row == Publication(VersionOf(w), work[w].stamp, 0)
           local == [work[w] EXCEPT !.pc = "publish"]
<1>1. CASE CommitConflicts(row)
  BY <1>1, AloneConflict DEF CommitIndex, OrConflict
<1>2. CASE ~CommitConflicts(row)
  <2>1. /\ work' = [work EXCEPT ![w] = local] /\ work[w].pc \in Succeeding
        /\ UNCHANGED <<intents, published, latest, checkpoint>>
    BY <1>2 DEF CommitIndex, OrConflict, Goto, At, Succeeding, publicationVars
  <2>2. /\ local.pc \in Succeeding /\ local.prev = work[w].prev
        /\ local.target = work[w].target /\ local.snap = work[w].snap
    BY RunShape DEF WorkLocals, Succeeding
  <2> HIDE DEF local
  <2> QED  BY <2>1, <2>2, AloneSucceeding
<1> QED  BY <1>1, <1>2

\* The intent that is prepared is of the identities held back.
LEMMA AlonePrepare ==
    ASSUME WorkflowInv, LedgerOK, NEW w \in Workers, RunOK(work[w]), work[w].pc \in Succeeding,
           NEW p, PrepareIntent(p), p.obs = work[w].target, p.ids = work[w].snap.ids,
           p.prev = work[w].prev.id,
           work'[w].pc \in {"catalog", "ready"}, work'[w].intent = p,
           work'[w].prev = work[w].prev, work'[w].target = work[w].target,
           work'[w].snap = work[w].snap, checkpoint' = checkpoint
    PROVE  LedgerOK' /\ RunOK(work[w])'
<1>1. /\ checkpoint.pending = work[w].snap /\ work[w].snap # NoSnapshot
      /\ work[w].prev = latest /\ latest.obs # work[w].target
      /\ work[w].snap.content = work[w].target
  BY RunShape DEF RunOK, Unsaved, Succeeding, Fits, Captured
<1>2. checkpoint.pending = Identities(p)
  BY <1>1, RunShape DEF Identities, Snapshots
<1>3. /\ latest' = latest
      /\ \A i \in PendingIntents' : i \in PendingIntents \/ i.pub = p
  BY DEF PrepareIntent, PendingIntents
<1>4. LedgerOK'
  <2>1. ASSUME NEW i \in PendingIntents'
        PROVE  /\ checkpoint.pending = Identities(i.pub) /\ checkpoint.pending # NoSnapshot
               /\ i.pub.obs # latest.obs
    BY <1>1, <1>2, <1>3 DEF LedgerOK
  <2>2. \/ latest.obs = checkpoint.obs
        \/ checkpoint.pending = Identities(latest) /\ checkpoint.pending # NoSnapshot
    BY DEF LedgerOK
  <2>3. BaselineAsPublished'
    BY <1>3 DEF LedgerOK, BaselineAsPublished
  <2> QED  BY <1>3, <2>1, <2>2, <2>3 DEF LedgerOK
<1>5. RunOK(work[w])'
  BY <1>1, <1>3 DEF RunOK, Reading, Observing, Unsaved, Succeeding
<1> QED  BY <1>4, <1>5

LEMMA AloneBeforeCatalogCommit ==
    ASSUME WorkflowInv, LedgerOK, NEW w \in Workers, RunOK(work[w]), BeforeCatalogCommit(w)
    PROVE  LedgerOK' /\ RunOK(work[w])'
<1> DEFINE p == Candidate(w, Stamp(w))
           may == WithinLimits(w) /\ (AlreadyPrepared(p) \/ MayPrepare(p))
           local == [work[w] EXCEPT !.pc = "catalog", !.intent = p, !.stamp = p.stamp]
<1>1. CASE ~may
  BY <1>1, AloneConflict DEF BeforeCatalogCommit, OrConflict
<1>2. CASE may
  <2>1. /\ PrepareIntent(p) /\ work' = [work EXCEPT ![w] = local]
        /\ work[w].pc \in Succeeding /\ checkpoint' = checkpoint
    BY <1>2 DEF BeforeCatalogCommit, OrConflict, At, Succeeding
  <2>2. /\ p \in Pubs /\ p.obs = work[w].target /\ p.ids = work[w].snap.ids
        /\ p.prev = work[w].prev.id
    <3>1. Stamp(w) \in Nat
      BY CandidateShape
    <3> QED  BY <3>1, CandidateShape DEF Candidate
  <2> HIDE DEF p
  <2>3. /\ local.pc \in {"catalog", "ready"} /\ local.intent = p
        /\ local.prev = work[w].prev /\ local.target = work[w].target
        /\ local.snap = work[w].snap
    BY RunShape DEF WorkLocals
  <2>4. work'[w] = local
    BY <2>1 DEF WorkflowInv, WorkersFit
  <2> HIDE DEF local
  <2> QED  BY <2>1, <2>2, <2>3, <2>4, AlonePrepare
<1> QED  BY <1>1, <1>2

LEMMA AlonePreparePublication ==
    ASSUME WorkflowInv, LedgerOK, NEW w \in Workers, RunOK(work[w]), PreparePublication(w)
    PROVE  LedgerOK' /\ RunOK(work[w])'
<1> DEFINE stamp == IF work[w].target = Empty THEN Stamp(w) ELSE work[w].stamp
           p == Candidate(w, stamp)
           may == ~Incomplete(w) /\ WithinLimits(w) /\ (AlreadyPrepared(p) \/ MayPrepare(p))
           local == [work[w] EXCEPT !.pc = "ready", !.intent = p]
<1>1. CASE ~may
  BY <1>1, AloneConflict DEF PreparePublication, OrConflict
<1>2. CASE may
  <2>1. /\ PrepareIntent(p) /\ work' = [work EXCEPT ![w] = local]
        /\ work[w].pc \in Succeeding /\ checkpoint' = checkpoint
    BY <1>2 DEF PreparePublication, OrConflict, At, Succeeding
  <2>2. /\ p \in Pubs /\ p.obs = work[w].target /\ p.ids = work[w].snap.ids
        /\ p.prev = work[w].prev.id
    <3>1. stamp \in Nat
      BY CandidateShape, RunShape
    <3> HIDE DEF stamp
    <3> QED  BY <3>1, CandidateShape DEF Candidate
  <2> HIDE DEF p
  <2>3. /\ local.pc \in {"catalog", "ready"} /\ local.intent = p
        /\ local.prev = work[w].prev /\ local.target = work[w].target
        /\ local.snap = work[w].snap
    BY RunShape DEF WorkLocals
  <2>4. work'[w] = local
    BY <2>1 DEF WorkflowInv, WorkersFit
  <2> HIDE DEF local
  <2> QED  BY <2>1, <2>2, <2>3, <2>4, AlonePrepare
<1> QED  BY <1>1, <1>2

\* What succeeds the latest publication is not published yet, so the commit
\* makes it the latest one and nothing stays unfinished.
LEMMA AloneCommitPublication ==
    ASSUME WorkflowInv, LedgerOK, NEW w \in Workers, RunOK(work[w]), CommitPublication(w)
    PROVE  LedgerOK' /\ RunOK(work[w])'
<1> DEFINE p == work[w].intent
           local == [work[w] EXCEPT !.pc = "save"]
<1>1. CASE ~MayCommit(p)
  BY <1>1, AloneConflict DEF CommitPublication, OrConflict
<1>2. CASE MayCommit(p)
  <2>1. /\ CommitReady(p) /\ work' = [work EXCEPT ![w] = local] /\ work[w].pc = "ready"
        /\ UNCHANGED checkpoint
    BY <1>2 DEF CommitPublication, OrConflict, Goto, At
  <2>2. /\ p.prev = latest.id /\ p.obs = work[w].target /\ p.ids = work[w].snap.ids
        /\ checkpoint.pending = work[w].snap /\ work[w].snap # NoSnapshot
        /\ work[w].snap.content = work[w].target
    BY <2>1, RunShape DEF RunOK, Unsaved, Fits, Captured
  <2>3. p \notin published /\ p \in Pubs
    BY <2>2, RunShape DEF WorkflowInv, ChainInv, Succession
  <2>4. latest' = p /\ PendingIntents' = {}
    <3>1. latest' = p
      BY <2>1, <2>3 DEF CommitReady
    <3>2. PICK own \in intents : own.pub = p
      BY <1>2 DEF MayCommit, AlreadyPrepared
    <3>3. own \in PendingIntents
      BY <2>3, <3>2 DEF PendingIntents, WorkflowInv, ChainInv, IntentsMarked
    <3>4. intents' = {Marked(i, p) : i \in intents}
      BY <2>1 DEF CommitReady, Marked
    <3>5. ASSUME NEW i \in intents PROVE Marked(i, p).committed
      <4>1. i.committed \/ i = own
        BY <3>3 DEF PendingIntents, WorkflowInv, ChainInv, PendingIsNext
      <4>2. Marked(i, p).committed <=> i.committed \/ i.pub = p
        BY MarkedShape DEF WorkflowInv, ChainInv, TablesOK
      <4> QED  BY <3>2, <4>1, <4>2
    <3> QED  BY <3>1, <3>4, <3>5 DEF PendingIntents
  <2>5. checkpoint.pending = Identities(p)
    BY <2>2, RunShape DEF Identities, Snapshots
  <2>6. p.obs # checkpoint.obs
    BY <2>2 DEF WorkflowInv, StoresOK, WellFormed
  <2>7. /\ local.pc = "save" /\ local.target = work[w].target /\ local.snap = work[w].snap
    BY RunShape DEF WorkLocals
  <2>8. work'[w] = local
    BY <2>1 DEF WorkflowInv, WorkersFit
  <2> HIDE DEF local, p
  <2>9. LedgerOK'
    BY <2>1, <2>2, <2>4, <2>5, <2>6 DEF LedgerOK, BaselineAsPublished
  <2>10. RunOK(work[w])'
    BY <2>1, <2>2, <2>4, <2>7, <2>8 DEF RunOK, Reading, Observing, Unsaved, Succeeding
  <2> QED  BY <2>9, <2>10
<1> QED  BY <1>1, <1>2

\* The baseline becomes the snapshot the latest publication was indexed with.
LEMMA AloneSaveBaseline ==
    ASSUME WorkflowInv, LedgerOK, NEW w \in Workers, RunOK(work[w]), SaveBaseline(w)
    PROVE  LedgerOK' /\ RunOK(work[w])'
<1> DEFINE next == [obs |-> work[w].target, snap |-> work[w].snap, pending |-> NoSnapshot]
           local == [work[w] EXCEPT !.pc = "mark"]
<1>1. CASE ~MaySave(next)
  BY <1>1, AloneConflict DEF SaveBaseline, OrConflict
<1>2. CASE MaySave(next)
  <2>1. /\ checkpoint' = next /\ work' = [work EXCEPT ![w] = local] /\ work[w].pc = "save"
        /\ UNCHANGED <<intents, published, latest>>
    BY <1>2 DEF SaveBaseline, OrConflict, Goto, At, Save, publicationVars
  <2>2. latest.obs = work[w].target /\ latest.ids = work[w].snap.ids /\ PendingIntents = {}
    BY <2>1 DEF RunOK
  <2>3. checkpoint'.obs = work[w].target /\ checkpoint'.snap = work[w].snap
    BY <2>1
  <2>4. PendingIntents' = {}
    BY <2>1, <2>2 DEF PendingIntents
  <2>5. LedgerOK'
    BY <2>1, <2>2, <2>3, <2>4 DEF LedgerOK, BaselineAsPublished
  <2>6. work'[w].pc = "mark"
    BY <2>1, RunShape DEF WorkflowInv, WorkersFit, WorkLocals
  <2>7. RunOK(work[w])'
    BY <2>6 DEF RunOK, Reading, Observing, Unsaved, Succeeding
  <2> QED  BY <2>5, <2>7
<1> QED  BY <1>1, <1>2

LEMMA AloneWorkerStep ==
    ASSUME WorkflowInv, LedgerOK, NEW w \in Workers, RunOK(work[w]), WorkerStep(w)
    PROVE  LedgerOK' /\ RunOK(work[w])'
<1>1. ASSUME MarkBaseline(w) PROVE LedgerOK' /\ RunOK(work[w])'
  BY <1>1, AloneReturn DEF MarkBaseline, publicationVars
<1> QED
  BY <1>1, AloneReadPending, AloneRecover, AloneInspect, AloneEnsure, AloneConfirm,
     AloneRepair, AloneObserve, AloneObserved, AloneCapture, AloneReadLatest, AloneIndex,
     AloneBeforeCatalogCommit, AloneCommitIndex, AlonePreparePublication,
     AloneCommitPublication, AloneSaveBaseline
     DEF WorkerStep

\* A step outside the run leaves it and the stores as they are.
LEMMA AloneElsewhere ==
    ASSUME LedgerOK, NEW w \in Workers, RunOK(work[w]),
           UNCHANGED <<intents, published, latest, checkpoint, work>>
    PROVE  LedgerOK' /\ RunOK(work[w])'
<1>1. PendingIntents' = PendingIntents
  BY DEF PendingIntents
<1>2. LedgerOK'
  BY <1>1 DEF LedgerOK, BaselineAsPublished
<1>3. RunOK(work[w])'
  BY <1>1 DEF RunOK
<1> QED  BY <1>2, <1>3

LEMMA AloneInit ==
    WorkflowInit => WorkflowInv /\ AloneInv
<1> SUFFICES ASSUME WorkflowInit PROVE WorkflowInv /\ AloneInv
  OBVIOUS
<1>1. Init /\ First \in Workers
  BY FirstAssumption DEF WorkflowInit, First
<1>2. /\ intents = {} /\ latest = NoPublication /\ checkpoint = BlankCheckpoint
      /\ work[First] = IdleWork
  BY <1>1 DEF Init, PublicationsInit, CheckpointInit
<1>3. LedgerOK
  BY <1>2 DEF LedgerOK, BaselineAsPublished, PendingIntents, NoPublication, BlankCheckpoint
<1>4. RunOK(work[First])
  BY <1>2 DEF RunOK, IdleWork, Reading, Observing, Unsaved, Succeeding
<1> QED  BY <1>1, <1>3, <1>4, InitWorkflow DEF AloneInv

LEMMA AloneStep ==
    ASSUME WorkflowInv, AloneInv, [WorkflowNext]_workflowVars
    PROVE  WorkflowInv' /\ AloneInv'
<1>0. First \in Workers
  BY FirstAssumption DEF First
<1>1. CASE Alone /\ (Register(First) \/ WorkerStep(First) \/ Stop(First) \/ Edit)
  <2>1. WorkflowInv' /\ LedgerOK /\ RunOK(work[First])
    BY <1>0, <1>1, RegisterStep, WorkerKeeps, StopStep, EditStep DEF Alone, AloneInv
  <2>2. CASE Stop(First)
    BY <1>0, <2>1, <2>2, AloneReturn DEF Stop, publicationVars, AloneInv
  <2>3. CASE Edit
    BY <1>0, <2>1, <2>3, AloneElsewhere DEF Edit, publicationVars, AloneInv
  <2> QED  BY <1>0, <1>1, <2>1, <2>2, <2>3, AloneRegister, AloneWorkerStep DEF AloneInv
<1>2. CASE Together /\ Next
  <2>1. WorkflowInv'
    BY <1>2, RegisterStep, WorkerKeeps, StopStep, EditStep DEF Next
  <2>2. part' = "together"
    BY <1>2 DEF Together
  <2> QED  BY <2>1, <2>2 DEF AloneInv
<1>3. CASE UNCHANGED workflowVars
  <2>1. UNCHANGED vars /\ UNCHANGED <<part, intents, published, latest, checkpoint, work>>
    BY <1>3 DEF workflowVars, vars
  <2>2. WorkflowInv'
    BY <2>1, StutterStep
  <2>3. part = "alone" => LedgerOK' /\ RunOK(work[First])'
    BY <1>0, <2>1, AloneElsewhere DEF AloneInv
  <2> QED  BY <2>1, <2>2, <2>3 DEF AloneInv
<1> QED  BY <1>1, <1>2, <1>3 DEF WorkflowNext

\* While one process ingests a source, wherever its runs stop and whatever the
\* file becomes, a revert included, the baseline of the next comparison carries
\* the identities the latest publication was indexed with.
THEOREM BaselineKeptAlone ==
    WorkflowSpec => []AloneKeepsBaseline
<1>1. AloneInv => AloneKeepsBaseline
  BY DEF AloneInv, LedgerOK, AloneKeepsBaseline
<1> QED  BY <1>1, AloneInit, AloneStep, PTL DEF WorkflowSpec
=============================================================================
