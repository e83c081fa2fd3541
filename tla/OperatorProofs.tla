--------------------------- MODULE OperatorProofs ---------------------------
(***************************************************************************)
(* Proofs about what an operator runs beside the system: installing model  *)
(* files (AssetInstallation), the retention of raw observations            *)
(* (ObservationRetention), the opening of the state databases              *)
(* (StateDatabases), backup and restore (StateBackup) and the report on    *)
(* what queries can reach (ScopeReachability).  The five share no state;   *)
(* each has its own specification and invariant.                           *)
(***************************************************************************)
EXTENDS AssetInstallation, ObservationRetention, StateDatabases, StateBackup, ScopeReachability,
        FiniteSetTheorems, SequenceTheorems, WellFoundedInduction, TLAPS

-----------------------------------------------------------------------------
(* Asset installation                                                      *)

ProgressFields == {"st", "revision", "staging", "attempt", "why"}

\* What an installer may rely on: a staged directory it is about to move was
\* verified, and so was the revision it is about to point to.
InstallerFits(q) ==
    /\ q = [f \in ProgressFields |-> q[f]]
    /\ q.st \notin {"new", "ended"} => q.revision \in Revisions
    /\ q.st = "moving" => Verified(q.staging)
    /\ q.st = "pointing" => Verified(revisions[q.revision])

\* No step takes away what was verified, because a directory only ever takes a
\* name that is free.
AssetInv ==
    /\ revisions = [r \in Revisions |-> revisions[r]]
    /\ pointer # NoRevision => pointer \in Revisions /\ Verified(revisions[pointer])
    /\ serving # NoRevision => serving \in Revisions /\ Verified(revisions[serving])
    /\ inst = [i \in Installers |-> inst[i]]
    /\ \A i \in Installers : InstallerFits(inst[i])

LEMMA RestFits == InstallerFits(AtRest)
BY DEF InstallerFits, AtRest, ProgressFields

LEMMA EndFits ==
    ASSUME NEW why
    PROVE  InstallerFits([AtRest EXCEPT !.st = "ended", !.why = why])
<1> DEFINE q == [AtRest EXCEPT !.st = "ended", !.why = why]
<1>1. AtRest = [f \in ProgressFields |-> AtRest[f]]
  BY RestFits DEF InstallerFits
<1>2. q.st = "ended" /\ q = [f \in ProgressFields |-> q[f]]
  BY <1>1 DEF ProgressFields
<1> QED  BY <1>2 DEF InstallerFits

\* A step of one installer that leaves the revisions alone.
LEMMA InstallerMoves ==
    ASSUME AssetInv, NEW i \in Installers, NEW q, InstallerFits(q),
           inst' = [inst EXCEPT ![i] = q], UNCHANGED <<revisions, pointer, serving>>
    PROVE  AssetInv'
<1>1. ASSUME NEW j \in Installers PROVE InstallerFits(inst[j])'
  BY DEF AssetInv, InstallerFits
<1>2. inst' = [j \in Installers |-> inst'[j]]
  BY DEF AssetInv
<1> QED  BY <1>1, <1>2 DEF AssetInv

LEMMA AssetStep ==
    ASSUME AssetInv, NEW i \in Installers,
           \/ BeginInstall(i) \/ Decline(i) \/ LookAtRevision(i) \/ WriteAsset(i) \/ FinishStaging(i)
           \/ VerifyStaging(i) \/ MoveRevision(i) \/ MovePointer(i) \/ InstallFails(i) \/ InstallStops(i)
    PROVE  AssetInv'
<1> DEFINE me == inst[i]
<1>1. /\ InstallerFits(me) /\ me = [f \in ProgressFields |-> me[f]]
      /\ inst = [j \in Installers |-> inst[j]]
  BY DEF AssetInv, InstallerFits
<1>2. ASSUME NEW why, inst' = Ends(i, why), UNCHANGED <<revisions, pointer, serving>>
      PROVE  AssetInv'
  BY <1>2, EndFits, InstallerMoves DEF Ends
<1>3. CASE BeginInstall(i)
  <2>1. PICK r \in Revisions :
          inst' = IF ResolvesActive(r) THEN Ends(i, "already_installed")
                  ELSE [inst EXCEPT ![i] = [AtRest EXCEPT !.st = "looking", !.revision = r]]
    BY <1>3 DEF BeginInstall
  <2>2. UNCHANGED <<revisions, pointer, serving>>
    BY <1>3 DEF BeginInstall
  <2> DEFINE q == [AtRest EXCEPT !.st = "looking", !.revision = r]
  <2>3. InstallerFits(q)
    <3>1. AtRest = [f \in ProgressFields |-> AtRest[f]]
      BY RestFits DEF InstallerFits
    <3>2. q.st = "looking" /\ q.revision = r /\ q = [f \in ProgressFields |-> q[f]]
      BY <3>1 DEF ProgressFields
    <3> QED  BY <3>2 DEF InstallerFits
  <2> HIDE DEF q
  <2> QED  BY <1>2, <2>1, <2>2, <2>3, InstallerMoves DEF q
<1>4. CASE Decline(i) \/ InstallFails(i) \/ InstallStops(i)
  BY <1>2, <1>4 DEF Decline, InstallFails, InstallStops
<1>5. CASE LookAtRevision(i)
  <2>1. /\ me.st = "looking" /\ UNCHANGED <<revisions, pointer, serving>>
        /\ inst' = IF Verified(revisions[me.revision]) THEN [inst EXCEPT ![i].st = "pointing"]
                   ELSE IF revisions[me.revision].there THEN Ends(i, "artifact_unavailable")
                   ELSE [inst EXCEPT ![i].st = "staging", ![i].staging = Started]
    BY <1>5 DEF LookAtRevision
  <2>2. CASE Verified(revisions[me.revision])
    <3> DEFINE q == [me EXCEPT !.st = "pointing"]
    <3>1. inst' = [inst EXCEPT ![i] = q]
      BY <2>1, <2>2
    <3>2. q = [f \in ProgressFields |-> q[f]] /\ q.st = "pointing" /\ q.revision = me.revision
      BY <1>1 DEF ProgressFields
    <3>3. InstallerFits(q)
      BY <1>1, <2>1, <2>2, <3>2 DEF InstallerFits
    <3> QED  BY <2>1, <3>1, <3>3, InstallerMoves
  <2>3. CASE ~Verified(revisions[me.revision]) /\ ~revisions[me.revision].there
    <3> DEFINE q == [me EXCEPT !.st = "staging", !.staging = Started]
    <3>1. inst' = [inst EXCEPT ![i] = q]
      BY <2>1, <2>3
    <3>2. q = [f \in ProgressFields |-> q[f]] /\ q.st = "staging" /\ q.revision = me.revision
      BY <1>1 DEF ProgressFields
    <3>3. InstallerFits(q)
      BY <1>1, <2>1, <3>2 DEF InstallerFits
    <3> QED  BY <2>1, <3>1, <3>3, InstallerMoves
  <2> QED  BY <1>2, <2>1, <2>2, <2>3
<1>6. CASE WriteAsset(i)
  <2>1. PICK f \in AssetFiles \ me.staging.files :
          \/ inst' = [inst EXCEPT ![i].staging.files = @ \cup {f}, ![i].attempt = 1]
          \/ RetryDownload(i)
          \/ inst' = Ends(i, "artifact_unavailable")
    BY <1>6 DEF WriteAsset
  <2>2. me.st = "staging" /\ UNCHANGED <<revisions, pointer, serving>>
    BY <1>6 DEF WriteAsset
  <2>3. ASSUME NEW q, q = [g \in ProgressFields |-> q[g]], q.st = "staging", q.revision = me.revision,
               inst' = [inst EXCEPT ![i] = q]
        PROVE  AssetInv'
    <3>1. InstallerFits(q)
      BY <1>1, <2>2, <2>3 DEF InstallerFits
    <3> QED  BY <2>2, <2>3, <3>1, InstallerMoves
  <2>4. CASE inst' = [inst EXCEPT ![i].staging.files = @ \cup {f}, ![i].attempt = 1]
    <3> DEFINE s == [me.staging EXCEPT !.files = me.staging.files \cup {f}]
               q == [me EXCEPT !.staging = s, !.attempt = 1]
    <3>1. inst' = [inst EXCEPT ![i] = q]
      BY <1>1, <2>4
    <3> HIDE DEF s
    <3>2. q = [g \in ProgressFields |-> q[g]] /\ q.st = "staging" /\ q.revision = me.revision
      BY <1>1, <2>2 DEF ProgressFields
    <3> HIDE DEF q
    <3> QED  BY <2>3, <3>1, <3>2
  <2>5. CASE RetryDownload(i)
    <3> DEFINE q == [me EXCEPT !.attempt = me.attempt + 1]
    <3>1. inst' = [inst EXCEPT ![i] = q] \/ inst' = Ends(i, "artifact_unavailable")
      BY <1>1, <2>5 DEF RetryDownload
    <3>2. q = [g \in ProgressFields |-> q[g]] /\ q.st = "staging" /\ q.revision = me.revision
      BY <1>1, <2>2 DEF ProgressFields
    <3> HIDE DEF q
    <3> QED  BY <1>2, <2>2, <2>3, <3>1, <3>2
  <2> QED  BY <1>2, <2>1, <2>2, <2>4, <2>5
<1>7. CASE FinishStaging(i)
  <2> DEFINE s == [me.staging EXCEPT !.manifest = TRUE]
             q == [me EXCEPT !.st = "verifying", !.staging = s]
  <2>1. me.st = "staging" /\ UNCHANGED <<revisions, pointer, serving>> /\ inst' = [inst EXCEPT ![i] = q]
    BY <1>1, <1>7 DEF FinishStaging
  <2> HIDE DEF s
  <2>2. q = [g \in ProgressFields |-> q[g]] /\ q.st = "verifying" /\ q.revision = me.revision
    BY <1>1 DEF ProgressFields
  <2>3. InstallerFits(q)
    BY <1>1, <2>1, <2>2 DEF InstallerFits
  <2> QED  BY <2>1, <2>3, InstallerMoves
<1>8. CASE VerifyStaging(i)
  <2> DEFINE q == [me EXCEPT !.st = "moving"]
  <2>1. /\ me.st = "verifying" /\ UNCHANGED <<revisions, pointer, serving>>
        /\ \/ Verified(me.staging) /\ inst' = [inst EXCEPT ![i] = q]
           \/ inst' = Ends(i, "artifact_unavailable")
    BY <1>8 DEF VerifyStaging
  <2>2. /\ q = [g \in ProgressFields |-> q[g]] /\ q.st = "moving" /\ q.revision = me.revision
        /\ q.staging = me.staging
    BY <1>1 DEF ProgressFields
  <2>3. Verified(me.staging) => InstallerFits(q)
    BY <1>1, <2>1, <2>2 DEF InstallerFits
  <2> HIDE DEF q
  <2> QED  BY <1>2, <2>1, <2>3, InstallerMoves
<1>9. CASE MoveRevision(i)
  <2> DEFINE r == me.revision
             q == [me EXCEPT !.st = "pointing", !.staging = NoDirectory]
  <2>1. me.st = "moving" /\ pointer' = pointer /\ serving' = serving
    BY <1>9 DEF MoveRevision
  <2>2. r \in Revisions /\ Verified(me.staging)
    BY <1>1, <2>1 DEF InstallerFits
  <2>3. q = [g \in ProgressFields |-> q[g]] /\ q.st = "pointing" /\ q.revision = r
    BY <1>1 DEF ProgressFields
  <2>4. CASE ~revisions[r].there
    <3>1. revisions' = [revisions EXCEPT ![r] = me.staging] /\ inst' = [inst EXCEPT ![i] = q]
      BY <1>9, <2>4 DEF MoveRevision
    <3>2. Complete.there = TRUE
      BY DEF Complete
    <3>3. \A x \in Revisions : Verified(revisions[x]) => Verified(revisions'[x])
      BY <2>4, <3>1, <3>2 DEF AssetInv, Verified
    <3>4. Verified(revisions'[r])
      BY <2>2, <3>1 DEF AssetInv
    <3>5. revisions' = [x \in Revisions |-> revisions'[x]]
      BY <3>1 DEF AssetInv
    <3>6. inst' = [j \in Installers |-> inst'[j]] /\ \A j \in Installers : inst'[j] = IF j = i THEN q ELSE inst[j]
      BY <1>1, <3>1
    <3> HIDE DEF q
    <3>7. ASSUME NEW j \in Installers PROVE InstallerFits(inst[j])'
      <4>1. CASE j = i
        BY <2>2, <2>3, <3>4, <3>6, <4>1 DEF InstallerFits
      <4>2. CASE j # i
        BY <3>3, <3>6, <4>2 DEF AssetInv, InstallerFits
      <4> QED  BY <4>1, <4>2
    <3> QED  BY <2>1, <3>3, <3>5, <3>6, <3>7 DEF AssetInv
  <2>5. CASE revisions[r].there
    <3>1. /\ UNCHANGED <<revisions, pointer, serving>>
          /\ \/ Verified(revisions[r]) /\ inst' = [inst EXCEPT ![i] = q]
             \/ inst' = Ends(i, "artifact_unavailable")
      BY <1>9, <2>5 DEF MoveRevision
    <3>2. Verified(revisions[r]) => InstallerFits(q)
      BY <2>2, <2>3 DEF InstallerFits
    <3> HIDE DEF q
    <3> QED  BY <1>2, <3>1, <3>2, InstallerMoves
  <2> QED  BY <2>4, <2>5
<1>10. CASE MovePointer(i)
  <2> DEFINE q == [AtRest EXCEPT !.st = "ended", !.why = "installed"]
  <2>1. /\ me.st = "pointing" /\ pointer' = me.revision /\ revisions' = revisions /\ serving' = serving
        /\ inst' = [inst EXCEPT ![i] = q]
    BY <1>10 DEF MovePointer, Ends
  <2>2. InstallerFits(q)
    BY EndFits
  <2>3. pointer' \in Revisions /\ Verified(revisions'[pointer'])
    BY <1>1, <2>1 DEF InstallerFits
  <2> HIDE DEF q
  <2>4. inst' = [j \in Installers |-> inst'[j]] /\ \A j \in Installers : InstallerFits(inst[j])'
    BY <1>1, <2>1, <2>2 DEF AssetInv, InstallerFits
  <2> QED  BY <2>1, <2>3, <2>4 DEF AssetInv
<1> QED  BY <1>3, <1>4, <1>5, <1>6, <1>7, <1>8, <1>9, <1>10

\* A revision that was complete stays so, whatever installers do beside each other
\* (installLocalEmbeddingAssets).
THEOREM AssetInvariant == AssetSpec => []AssetInv
<1>1. AssetInit => AssetInv
  <2> SUFFICES ASSUME AssetInit PROVE AssetInv
    OBVIOUS
  <2>1. PICK root \in FirstRoots : revisions = root.revisions /\ pointer = root.pointer
    BY DEF AssetInit
  <2>2. /\ revisions = [r \in Revisions |-> revisions[r]]
        /\ pointer # NoRevision => pointer \in Revisions /\ Verified(revisions[pointer])
    BY <2>1, AssetAssumption
  <2> QED  BY <2>2, RestFits DEF AssetInit, AssetInv
<1>2. AssetInv /\ [AssetNext]_assetVars => AssetInv'
  <2> SUFFICES ASSUME AssetInv, [AssetNext]_assetVars PROVE AssetInv'
    OBVIOUS
  <2>1. ASSUME NEW r \in Revisions, StartServing(r) PROVE AssetInv'
    BY <2>1 DEF StartServing, ResolvesActive, AssetInv, InstallerFits
  <2>2. CASE UNCHANGED assetVars
    BY <2>2 DEF assetVars, AssetInv, InstallerFits
  <2> QED  BY <2>1, <2>2, AssetStep DEF AssetNext
<1> QED  BY <1>1, <1>2, PTL DEF AssetSpec

\* Whatever installers run beside each other, fail or stop, active.json leads to a
\* revision that is there completely, and what a runtime reads stays complete.
THEOREM PointerIsWhole == AssetSpec => []ActivePointerIsWhole
<1>1. AssetInv => ActivePointerIsWhole
  BY DEF AssetInv, ActivePointerIsWhole
<1> QED  BY <1>1, AssetInvariant, PTL

-----------------------------------------------------------------------------
(* Retention of observations                                               *)

IngestFields == {"pc", "obs", "until", "expected"}

IngestRecord(q) == q = [f \in IngestFields |-> q[f]] /\ q.until \in Nat

\* A run that holds an observation within its time has its lease on record, which
\* is what a deletion looks for.
Leased(i) ==
    IngestAt(i, "holding") /\ today < ingest[i].until =>
        /\ ingest[i].obs \in Kept
        /\ \E l \in leases : l.of = i /\ l.obs = ingest[i].obs /\ l.until = ingest[i].until

\* An intent that was recorded in time has its observation.
Backed(intent) == intent # NoIntent /\ intent.inTime => intent.obs \in Kept

RetentionInv ==
    /\ today \in Nat
    /\ ingest = [i \in Ingesters |-> ingest[i]]
    /\ \A i \in Ingesters : IngestRecord(ingest[i]) /\ Leased(i)
    /\ latestSeen \in Kept \cup {NoDraft} /\ compared \in Kept \cup {NoDraft}
    /\ Backed(pending) /\ Backed(publishedAs)

LEMMA IdleRecord == IngestRecord(IdleIngest) /\ IdleIngest.pc = "idle"
BY DEF IngestRecord, IdleIngest, IngestFields

\* A run that goes on is in no need of its lease.
LEMMA GoesOn ==
    ASSUME RetentionInv, NEW i \in Ingesters, NEW pc, pc # "holding", IngestGoes(i, pc)
    PROVE  /\ ingest' = [j \in Ingesters |-> ingest'[j]]
           /\ \A j \in Ingesters : j # i => ingest'[j] = ingest[j]
           /\ IngestRecord(ingest[i])' /\ ingest'[i].pc = pc
<1> DEFINE me == ingest[i]
           q == [me EXCEPT !.pc = pc, !.until = 0,
                           !.expected = IF pc = "release" THEN NoDraft ELSE me.expected]
<1>1. me = [f \in IngestFields |-> me[f]] /\ ingest = [j \in Ingesters |-> ingest[j]]
  BY DEF RetentionInv, IngestRecord
<1>2. ingest' = [ingest EXCEPT ![i] = q]
  BY <1>1 DEF IngestGoes, IngestFields
<1>3. q = [f \in IngestFields |-> q[f]] /\ q.pc = pc /\ q.until = 0
  BY <1>1 DEF IngestFields
<1> HIDE DEF q
<1>4. IngestRecord(q)
  BY <1>3 DEF IngestRecord
<1>5. ingest'[i] = q /\ (\A j \in Ingesters : j # i => ingest'[j] = ingest[j])
      /\ ingest' = [j \in Ingesters |-> ingest'[j]]
  BY <1>1, <1>2
<1> QED  BY <1>3, <1>4, <1>5 DEF IngestRecord

\* The invariant when neither rows nor leases nor the clock change.
LEMMA RunMoves ==
    ASSUME RetentionInv, NEW i \in Ingesters, UNCHANGED <<captured, leases, today, latestSeen>>,
           ingest' = [j \in Ingesters |-> ingest'[j]],
           \A j \in Ingesters : j # i => ingest'[j] = ingest[j],
           IngestRecord(ingest[i])', ingest'[i].pc # "holding",
           compared' \in Kept \cup {NoDraft}, Backed(pending)', Backed(publishedAs)'
    PROVE  RetentionInv'
<1>1. Kept' = Kept
  BY DEF Kept
<1>2. ASSUME NEW j \in Ingesters PROVE IngestRecord(ingest[j])' /\ Leased(j)'
  BY <1>1 DEF RetentionInv, IngestRecord, Leased, IngestAt
<1> QED  BY <1>1, <1>2 DEF RetentionInv

LEMMA RunStep ==
    ASSUME RetentionInv, NEW i \in Ingesters,
           \/ PrepareIntent(i) \/ CommitIntent(i) \/ MarkComparisonBaseline(i)
           \/ IngestFails(i) \/ ResumeObservation(i)
    PROVE  RetentionInv'
<1>1. /\ compared \in Kept \cup {NoDraft} /\ Backed(pending) /\ Backed(publishedAs)
      /\ ingest = [j \in Ingesters |-> ingest[j]] /\ IngestRecord(ingest[i]) /\ Leased(i)
  BY DEF RetentionInv
<1>2. UNCHANGED <<captured, leases, today, latestSeen>> /\ Kept' = Kept
  BY DEF PrepareIntent, CommitIntent, MarkComparisonBaseline, IngestFails, ResumeObservation, Kept
<1>3. ASSUME NEW x, Backed(x) PROVE x # NoIntent /\ x.inTime => x.obs \in Kept'
  BY <1>2, <1>3 DEF Backed
<1>4. ASSUME NEW q, IngestRecord(q), q.pc # "holding", ingest' = [ingest EXCEPT ![i] = q],
             UNCHANGED <<compared, pending, publishedAs>>
      PROVE  RetentionInv'
  <2>1. /\ ingest' = [j \in Ingesters |-> ingest'[j]] /\ ingest'[i] = q
        /\ \A j \in Ingesters : j # i => ingest'[j] = ingest[j]
    BY <1>1, <1>4
  <2>2. IngestRecord(ingest[i])'
    BY <1>4, <2>1 DEF IngestRecord
  <2>3. Backed(pending)' /\ Backed(publishedAs)'
    BY <1>1, <1>2, <1>4 DEF Backed, NoIntent
  <2> QED  BY <1>1, <1>2, <1>4, <2>1, <2>2, <2>3, RunMoves
<1>5. ASSUME NEW pc, pc # "holding", IngestGoes(i, pc),
             compared' \in Kept \cup {NoDraft}, Backed(pending)', Backed(publishedAs)'
      PROVE  RetentionInv'
  BY <1>2, <1>5, GoesOn, RunMoves
<1>6. pending' = pending => Backed(pending)'
  BY <1>1, <1>2 DEF Backed, NoIntent
<1>7. publishedAs' = publishedAs => Backed(publishedAs)'
  BY <1>1, <1>2 DEF Backed, NoIntent
<1>8. CASE PrepareIntent(i)
  <2>1. compared' = compared /\ publishedAs' = publishedAs /\ IngestAt(i, "holding")
    BY <1>8 DEF PrepareIntent
  <2>2. CASE /\ pending' = [obs |-> ingest[i].obs, inTime |-> today < ingest[i].until]
             /\ IngestGoes(i, "intended")
    <3>1. pending'.obs = ingest[i].obs /\ (pending'.inTime <=> today < ingest[i].until)
      BY <2>2
    <3>2. today < ingest[i].until => ingest[i].obs \in Kept
      BY <1>1, <2>1 DEF Leased
    <3>3. Backed(pending)'
      BY <1>2, <3>1, <3>2 DEF Backed
    <3> QED  BY <1>1, <1>5, <1>7, <2>1, <2>2, <3>3
  <2>3. CASE IngestGoes(i, "release") /\ pending' = pending
    BY <1>1, <1>5, <1>6, <1>7, <2>1, <2>3
  <2> QED  BY <1>8, <2>2, <2>3 DEF PrepareIntent
<1>9. CASE CommitIntent(i)
  <2>1. compared' = compared
    BY <1>9 DEF CommitIntent
  <2>2. CASE publishedAs' = pending /\ pending' = NoIntent /\ IngestGoes(i, "mark")
    <3>1. Backed(publishedAs)' /\ Backed(pending)'
      BY <1>1, <1>2, <2>2 DEF Backed, NoIntent
    <3> QED  BY <1>1, <1>5, <2>1, <2>2, <3>1
  <2>3. CASE IngestGoes(i, "release") /\ pending' = pending /\ publishedAs' = publishedAs
    BY <1>1, <1>5, <1>6, <1>7, <2>1, <2>3
  <2> QED  BY <1>9, <2>2, <2>3 DEF CommitIntent
<1>10. CASE MarkComparisonBaseline(i)
  <2>1. compared' \in Kept \cup {NoDraft} /\ IngestGoes(i, "release")
        /\ pending' = pending /\ publishedAs' = publishedAs
    BY <1>1, <1>10 DEF MarkComparisonBaseline
  <2> QED  BY <1>5, <1>6, <1>7, <2>1
<1>11. CASE IngestFails(i)
  <2>1. /\ UNCHANGED <<compared, pending, publishedAs>>
        /\ IngestGoes(i, "release") \/ ingest' = [ingest EXCEPT ![i] = IdleIngest]
    BY <1>11 DEF IngestFails
  <2> QED  BY <1>1, <1>4, <1>5, <1>6, <1>7, <2>1, IdleRecord
<1>12. CASE ResumeObservation(i)
  <2>1. UNCHANGED <<compared, pending, publishedAs>>
    BY <1>12 DEF ResumeObservation
  <2>2. PICK r \in {[obs |-> pending.obs, to |-> "intended"], [obs |-> publishedAs.obs, to |-> "mark"]} :
          ingest' = [ingest EXCEPT ![i] = [pc |-> r.to, obs |-> r.obs, until |-> 0, expected |-> compared]]
    BY <1>12 DEF ResumeObservation
  <2> DEFINE q == [pc |-> r.to, obs |-> r.obs, until |-> 0, expected |-> compared]
  <2>3. IngestRecord(q) /\ q.pc # "holding"
    BY <2>2 DEF IngestRecord, IngestFields
  <2> HIDE DEF q
  <2> QED  BY <1>4, <2>1, <2>2, <2>3 DEF q
<1> QED  BY <1>8, <1>9, <1>10, <1>11, <1>12

\* commit stores the row and the lease together, and touches no other run's lease.
LEMMA CommitStep ==
    ASSUME RetentionInv, NEW i \in Ingesters, NEW draft \in Drafts, CommitObservation(i, draft)
    PROVE  RetentionInv'
<1> DEFINE q == [pc |-> "holding", obs |-> draft, until |-> today + LeaseTime, expected |-> compared]
           mine == [of |-> i, obs |-> draft, until |-> today + LeaseTime]
<1>1. /\ leases' = {l \in leases : l.of # i \/ l.obs # draft} \cup {mine}
      /\ ingest' = [ingest EXCEPT ![i] = q] /\ latestSeen' = draft
      /\ UNCHANGED <<compared, pending, publishedAs, today>>
      /\ captured' = [d \in Kept \cup {draft} |-> IF d \in Kept THEN captured[d] ELSE today]
  BY DEF CommitObservation
<1>2. Kept' = Kept \cup {draft}
  BY <1>1 DEF Kept
<1>3. today \in Nat /\ today + LeaseTime \in Nat /\ ingest = [j \in Ingesters |-> ingest[j]]
  BY RetentionAssumption DEF RetentionInv
<1>4. /\ IngestRecord(q) /\ q.pc = "holding" /\ q.obs = draft /\ q.until = today + LeaseTime
      /\ mine.of = i /\ mine.obs = draft /\ mine.until = today + LeaseTime /\ mine \in leases'
  BY <1>1, <1>3 DEF IngestRecord, IngestFields
<1> HIDE DEF q, mine
<1>5. /\ ingest'[i] = q /\ (\A j \in Ingesters : j # i => ingest'[j] = ingest[j])
      /\ ingest' = [j \in Ingesters |-> ingest'[j]]
  BY <1>1, <1>3
<1>6. ASSUME NEW j \in Ingesters PROVE IngestRecord(ingest[j])' /\ Leased(j)'
  <2>1. CASE j = i
    <3>1. IngestRecord(ingest[j])'
      BY <1>4, <1>5, <2>1 DEF IngestRecord
    <3>2. Leased(j)'
      BY <1>2, <1>4, <1>5, <2>1 DEF Leased
    <3> QED  BY <3>1, <3>2
  <2>2. CASE j # i
    <3>1. IngestRecord(ingest[j])'
      BY <1>5, <2>2 DEF RetentionInv, IngestRecord
    <3>2. Leased(j)'
      <4> SUFFICES ASSUME IngestAt(j, "holding")', (today < ingest[j].until)'
                   PROVE  /\ (ingest[j].obs \in Kept)'
                          /\ \E l \in leases' : l.of = j /\ l.obs = ingest'[j].obs /\ l.until = ingest'[j].until
        BY DEF Leased
      <4>1. ingest'[j] = ingest[j] /\ IngestAt(j, "holding") /\ today < ingest[j].until
        BY <1>1, <1>5, <2>2 DEF IngestAt
      <4>2. ingest[j].obs \in Kept /\ \E l \in leases : l.of = j /\ l.obs = ingest[j].obs /\ l.until = ingest[j].until
        BY <4>1 DEF RetentionInv, Leased
      <4> QED  BY <1>1, <1>2, <2>2, <4>1, <4>2
    <3> QED  BY <3>1, <3>2
  <2> QED  BY <2>1, <2>2
<1>7. Backed(pending)' /\ Backed(publishedAs)'
  BY <1>1, <1>2 DEF RetentionInv, Backed, NoIntent
<1> QED  BY <1>1, <1>2, <1>3, <1>5, <1>6, <1>7 DEF RetentionInv

\* Giving up a lease, in the finally block or by letting it run out.
LEMMA ReleaseStep ==
    ASSUME RetentionInv, NEW i \in Ingesters, ReleaseRetentionLease(i)
    PROVE  RetentionInv'
<1>1. /\ IngestAt(i, "release") /\ ingest' = [ingest EXCEPT ![i] = IdleIngest]
      /\ UNCHANGED <<captured, latestSeen, compared, pending, publishedAs, today>> /\ Kept' = Kept
      /\ \A l \in leases : l.of # i => l \in leases'
  BY DEF ReleaseRetentionLease, Kept
<1>2. /\ ingest'[i] = IdleIngest /\ (\A j \in Ingesters : j # i => ingest'[j] = ingest[j])
      /\ ingest' = [j \in Ingesters |-> ingest'[j]]
  BY <1>1 DEF RetentionInv
<1>3. ASSUME NEW j \in Ingesters PROVE IngestRecord(ingest[j])' /\ Leased(j)'
  <2>1. CASE j = i
    BY <1>2, <2>1, IdleRecord DEF IngestRecord, Leased, IngestAt
  <2>2. CASE j # i
    <3>1. ingest'[j] = ingest[j] /\ IngestRecord(ingest[j]) /\ Leased(j)
      BY <1>2, <2>2 DEF RetentionInv
    <3>2. IngestRecord(ingest[j])'
      BY <3>1 DEF IngestRecord
    <3>3. Leased(j)'
      BY <1>1, <2>2, <3>1 DEF Leased, IngestAt
    <3> QED  BY <3>2, <3>3
  <2> QED  BY <2>1, <2>2
<1>4. Backed(pending)' /\ Backed(publishedAs)'
  BY <1>1 DEF RetentionInv, Backed, NoIntent
<1> QED  BY <1>1, <1>2, <1>3, <1>4 DEF RetentionInv

\* deleteIfUnprotected deletes what no reference and no lease protects at this
\* moment, however long ago it was selected.
LEMMA DeleteStep ==
    ASSUME RetentionInv, NEW draft, DeleteIfUnprotected(draft)
    PROVE  RetentionInv'
<1>1. UNCHANGED <<latestSeen, compared, pending, publishedAs, ingest, today>>
  BY DEF DeleteIfUnprotected
<1>2. CASE UNCHANGED <<captured, leases>>
  <2>1. Kept' = Kept
    BY <1>2 DEF Kept
  <2> QED  BY <1>1, <1>2, <2>1 DEF RetentionInv, IngestRecord, Leased, IngestAt, Backed, NoIntent
<1>3. CASE /\ ~Protected(draft) /\ captured' = [d \in Kept \ {draft} |-> captured[d]]
           /\ leases' = {l \in leases : l.obs # draft}
  <2>1. Kept' = Kept \ {draft}
    BY <1>3 DEF Kept
  <2>2. /\ draft # latestSeen /\ draft # compared /\ draft # pending.obs /\ draft # publishedAs.obs
        /\ \A l \in leases : l.obs = draft => ~(l.until > today)
    BY <1>3 DEF Protected
  <2>3. ASSUME NEW j \in Ingesters PROVE IngestRecord(ingest[j])' /\ Leased(j)'
    <3>1. IngestRecord(ingest[j])'
      BY <1>1 DEF RetentionInv, IngestRecord
    <3>2. Leased(j)'
      <4> SUFFICES ASSUME IngestAt(j, "holding"), today < ingest[j].until
                   PROVE  /\ ingest[j].obs \in Kept'
                          /\ \E l \in leases' : l.of = j /\ l.obs = ingest[j].obs /\ l.until = ingest[j].until
        BY <1>1 DEF Leased, IngestAt
      <4>1. ingest[j].obs \in Kept /\ ingest[j].until \in Nat /\ today \in Nat
        BY DEF RetentionInv, Leased, IngestRecord
      <4>2. PICK l \in leases : l.of = j /\ l.obs = ingest[j].obs /\ l.until = ingest[j].until
        BY DEF RetentionInv, Leased
      <4>3. l.until > today
        BY <4>1, <4>2
      <4>4. ingest[j].obs # draft
        BY <2>2, <4>2, <4>3
      <4> QED  BY <1>3, <2>1, <4>1, <4>2, <4>4
    <3> QED  BY <3>1, <3>2
  <2>4. Backed(pending)' /\ Backed(publishedAs)'
    BY <1>1, <2>1, <2>2 DEF RetentionInv, Backed, NoIntent
  <2> QED  BY <1>1, <2>1, <2>2, <2>3, <2>4 DEF RetentionInv
<1> QED  BY <1>2, <1>3 DEF DeleteIfUnprotected

LEMMA DayStep ==
    ASSUME RetentionInv, DayPasses
    PROVE  RetentionInv'
<1>1. /\ today' = today + 1 /\ leases' = {l \in leases : l.until > today'} /\ Kept' = Kept
      /\ UNCHANGED <<captured, latestSeen, compared, pending, publishedAs, ingest>>
  BY DEF DayPasses, Kept
<1>2. today \in Nat /\ today' \in Nat
  BY <1>1 DEF RetentionInv
<1>3. ASSUME NEW j \in Ingesters PROVE IngestRecord(ingest[j])' /\ Leased(j)'
  <2>1. IngestRecord(ingest[j])' /\ ingest[j].until \in Nat
    BY <1>1 DEF RetentionInv, IngestRecord
  <2>2. Leased(j)'
    <3> SUFFICES ASSUME IngestAt(j, "holding"), today' < ingest[j].until
                 PROVE  /\ ingest[j].obs \in Kept'
                        /\ \E l \in leases' : l.of = j /\ l.obs = ingest[j].obs /\ l.until = ingest[j].until
      BY <1>1 DEF Leased, IngestAt
    <3>1. today < ingest[j].until /\ ingest[j].until > today'
      BY <1>1, <1>2, <2>1
    <3> QED  BY <1>1, <3>1 DEF RetentionInv, Leased
  <2> QED  BY <2>1, <2>2
<1>4. Backed(pending)' /\ Backed(publishedAs)'
  BY <1>1 DEF RetentionInv, Backed, NoIntent
<1> QED  BY <1>1, <1>2, <1>3, <1>4 DEF RetentionInv

\* Leases, pointers and intents protect their observations at every moment
\* (SqliteSourceObservationStore, SourceObservationRetention).
THEOREM RetentionInvariant == RetentionSpec => []RetentionInv
<1>1. RetentionInit => RetentionInv
  <2> SUFFICES ASSUME RetentionInit PROVE RetentionInv
    OBVIOUS
  <2>1. \A i \in Ingesters : ingest[i] = IdleIngest
    BY DEF RetentionInit
  <2>2. \A i \in Ingesters : IngestRecord(ingest[i]) /\ Leased(i)
    BY <2>1, IdleRecord DEF Leased, IngestAt
  <2> QED  BY <2>2 DEF RetentionInit, RetentionInv, Backed
<1>2. RetentionInv /\ [RetentionNext]_retentionVars => RetentionInv'
  <2> SUFFICES ASSUME RetentionInv, [RetentionNext]_retentionVars PROVE RetentionInv'
    OBVIOUS
  <2>1. ASSUME UNCHANGED <<captured, latestSeen, compared, leases, pending, publishedAs, ingest, today>>
        PROVE  RetentionInv'
    <3>1. Kept' = Kept
      BY <2>1 DEF Kept
    <3> QED  BY <2>1, <3>1 DEF RetentionInv, IngestRecord, Leased, IngestAt, Backed, NoIntent
  <2>2. CASE FindRetentionCandidates \/ SweepStops
    BY <2>1, <2>2 DEF FindRetentionCandidates, SweepStops
  <2>3. CASE UNCHANGED retentionVars
    BY <2>1, <2>3 DEF retentionVars
  <2>4. CASE RetentionNext
    BY <2>2, <2>4, CommitStep, RunStep, ReleaseStep, DayStep, DeleteStep DEF RetentionNext
  <2> QED  BY <2>3, <2>4
<1> QED  BY <1>1, <1>2, PTL DEF RetentionSpec

\* Retention never deletes an observation that a run within its lease, an intent
\* such a run recorded, the latest publication or the baseline still needs, for any
\* number of runs, contents, periods and batch sizes.
THEOREM UsedIsRetained == RetentionSpec => []RetainedWhileUsed
<1>1. RetentionInv => RetainedWhileUsed
  BY DEF RetentionInv, RetainedWhileUsed, Leased, Backed
<1> QED  BY <1>1, RetentionInvariant, PTL

-----------------------------------------------------------------------------
(* State databases                                                         *)

RefusalReasons ==
    {"none", "schema_invalid", "identity_mismatch", "schema_newer", "incompatible",
     "identity_format_unsupported", "migration_failed", "create_failed", "stopped"}

Openings == [pc : {"new", "marked", "versioned", "migrate", "claim", "check", "open", "closed",
                   "compatible", "incompatible"},
             owner : Owners \cup {Unowned}, version : Nat, empty : BOOLEAN, why : RefusalReasons]

\* The file has the current tables under the current version, and rows of today.
Settled(f) == /\ f.version = CurrentVersion[f.kind] /\ f.level = FullLevel[f.kind] /\ ~f.old

\* What no later step of anybody takes back, from file f to file g.
Grows(f, g) ==
    /\ g.kind = f.kind /\ (g.old <=> f.old)
    /\ f.owner # Unowned => g.owner = f.owner
    /\ f.version = CurrentVersion[f.kind] => g.version = CurrentVersion[f.kind]
    /\ f.level = FullLevel[f.kind] => g.level = FullLevel[f.kind]
    /\ f.mark = f.kind => g.mark = f.kind

\* The file is as it was found, or current, and then it was this program's to change.
FileFits(f, first) ==
    /\ f \in Files /\ first \in Files /\ f.kind = first.kind /\ (f.old <=> first.old)
    /\ f.level = 0 => f.owner = Unowned /\ ~f.old
    /\ f.kind = "registry" /\ first.mark \in {Unmarked, "registry"} => f.level \in 0..2 /\ ~f.old
    /\ \/ f = first
       \/ /\ f.level = FullLevel[f.kind] /\ f.version = CurrentVersion[f.kind]
          /\ first.mark \in {Unmarked, f.kind} /\ first.version <= f.version
          /\ first.owner \in {Unowned, f.owner}

\* What an open call has learned, as far as it still holds.
OpenerFits(q, f, first) ==
    /\ q \in Openings
    /\ q.pc \notin {"new", "closed", "incompatible"} => q.owner \in Owners
    /\ q.pc \in {"marked", "versioned", "migrate", "claim", "check", "open"} =>
         /\ f.kind # "audit" => first.mark \in {Unmarked, f.kind}
         /\ f.kind = "audit" /\ q.empty =>
              first.mark = Unmarked /\ first.level = 0 /\ first.version = 0
    /\ q.pc \in {"versioned", "migrate", "claim", "check", "open"} /\ f.kind # "audit" =>
         first.version <= CurrentVersion[f.kind]
    /\ q.pc \in {"versioned", "migrate"} /\ f.kind = "ingestion" =>
         q.version \in 0..8 /\ (q.version = 8 => f.version = 8)
    /\ q.pc = "migrate" =>
         \/ q.empty /\ f.kind # "ingestion"
         \/ f.kind = "registry" /\ f.owner = q.owner
         \/ f.kind = "ingestion" /\ (q.version \in {0, 1} \/ f.owner = q.owner)
    /\ q.pc = "claim" => f.kind = "ingestion"
    /\ q.pc \in {"claim", "check", "open"} =>
         Settled(f) /\ (f.owner = q.owner \/ (f.kind = "registry" /\ q.empty))
    /\ q.pc \in {"check", "open"} => f.mark = f.kind
    /\ q.pc = "compatible" => f.owner = q.owner

DatabaseInv ==
    /\ FileFits(file, found)
    /\ opener = [o \in Openers |-> opener[o]]
    /\ \A o \in Openers : OpenerFits(opener[o], file, found)

LEMMA Versions ==
    /\ CurrentVersion["ingestion"] = 8 /\ CurrentVersion["registry"] = 1 /\ CurrentVersion["audit"] = 1
    /\ FullLevel["ingestion"] = 6 /\ FullLevel["registry"] = 2 /\ FullLevel["audit"] = 1
BY DEF CurrentVersion, FullLevel

\* What one call has learned survives the steps of the others.
LEMMA StillFits ==
    ASSUME NEW q, NEW f \in Files, NEW g \in Files, NEW first, OpenerFits(q, f, first), Grows(f, g)
    PROVE  OpenerFits(q, g, first)
<1>1. f.kind \in Kinds /\ g.kind = f.kind
  BY DEF Files, Grows
<1>2. Unowned \notin Owners
  BY DatabaseAssumption
<1>3. Settled(f) => Settled(g)
  BY DEF Settled, Grows
<1>4. f.kind = "ingestion" /\ f.version = 8 => g.version = 8
  BY Versions DEF Grows
<1>5. f.owner \in Owners => g.owner = f.owner
  BY <1>2 DEF Grows
<1>6. q \in Openings /\ (q.pc \notin {"new", "closed", "incompatible"} => q.owner \in Owners)
  BY DEF OpenerFits
<1>7. q.pc = "migrate" =>
         \/ q.empty /\ g.kind # "ingestion"
         \/ g.kind = "registry" /\ g.owner = q.owner
         \/ g.kind = "ingestion" /\ (q.version \in {0, 1} \/ g.owner = q.owner)
  BY <1>1, <1>5, <1>6 DEF OpenerFits
<1>8. q.pc \in {"claim", "check", "open"} =>
         Settled(g) /\ (g.owner = q.owner \/ (g.kind = "registry" /\ q.empty))
  BY <1>1, <1>3, <1>5, <1>6 DEF OpenerFits
<1>9. q.pc \in {"check", "open"} => g.mark = g.kind
  BY <1>1 DEF OpenerFits, Grows
<1>10. q.pc = "compatible" => g.owner = q.owner
  BY <1>5, <1>6 DEF OpenerFits
<1>11. q.pc \in {"versioned", "migrate"} /\ g.kind = "ingestion" =>
         q.version \in 0..8 /\ (q.version = 8 => g.version = 8)
  BY <1>1, <1>4 DEF OpenerFits
<1> QED  BY <1>1, <1>6, <1>7, <1>8, <1>9, <1>10, <1>11 DEF OpenerFits

\* One call moves; the file is as before or has grown.
LEMMA OpenerMoves ==
    ASSUME DatabaseInv, NEW o \in Openers, NEW q, opener' = [opener EXCEPT ![o] = q], found' = found,
           FileFits(file', found), Grows(file, file'), OpenerFits(q, file', found)
    PROVE  DatabaseInv'
<1>1. /\ opener' = [p \in Openers |-> opener'[p]] /\ opener'[o] = q
      /\ \A p \in Openers : p # o => opener'[p] = opener[p]
  BY DEF DatabaseInv
<1>2. file \in Files /\ file' \in Files
  BY DEF DatabaseInv, FileFits
<1>3. \A p \in Openers : OpenerFits(opener'[p], file', found)
  BY <1>1, <1>2, StillFits DEF DatabaseInv
<1> QED  BY <1>1, <1>3 DEF DatabaseInv

LEMMA GrowsItself ==
    ASSUME NEW f
    PROVE  Grows(f, f)
BY DEF Grows

LEMMA StartIsOpening == AtStart \in Openings
<1>1. 0 \in Nat
  OBVIOUS
<1>2. FALSE \in BOOLEAN
  BY Zenon
<1> QED  BY <1>1, <1>2, Zenon DEF AtStart, Openings, RefusalReasons

LEMMA ClosedFits ==
    ASSUME NEW why \in RefusalReasons, NEW f, NEW first
    PROVE  OpenerFits([AtStart EXCEPT !.pc = "closed", !.why = why], f, first)
<1> DEFINE q == [AtStart EXCEPT !.pc = "closed", !.why = why]
<1>1. q \in Openings /\ q.pc = "closed"
  BY StartIsOpening DEF Openings
<1> HIDE DEF q
<1>2. OpenerFits(q, f, first)
  BY <1>1 DEF OpenerFits
<1> QED  BY <1>2 DEF q

LEMMA RefusedFits ==
    ASSUME DatabaseInv, NEW o \in Openers, NEW why \in RefusalReasons, Refuse(o, why), UNCHANGED <<file, found>>
    PROVE  DatabaseInv'
BY ClosedFits, GrowsItself, OpenerMoves DEF Refuse, DatabaseInv

LEMMA LookFits ==
    ASSUME DatabaseInv, NEW o \in Openers, NEW q, opener' = [opener EXCEPT ![o] = q],
           UNCHANGED <<file, found>>, OpenerFits(q, file, found)
    PROVE  DatabaseInv'
BY GrowsItself, OpenerMoves DEF DatabaseInv

LEMMA ProceedRecord ==
    ASSUME NEW me \in Openings,
           NEW pc \in {"marked", "versioned", "migrate", "claim", "check", "open"}
    PROVE  LET q == [me EXCEPT !.pc = pc]
           IN  /\ q \in Openings /\ q.pc = pc /\ q.owner = me.owner /\ q.version = me.version
               /\ q.empty <=> me.empty
BY DEF Openings

LEMMA ClaimableStep ==
    ASSUME DatabaseInv, NEW o \in Openers, AssertDatabaseClaimable(o)
    PROVE  DatabaseInv'
<1>1. UNCHANGED <<file, found>> /\ FileFits(file, found)
  BY DEF AssertDatabaseClaimable, DatabaseInv
<1>2. PICK owner \in Owners :
        IF ~Claimable
        THEN Refuse(o, IF file.mark = Unmarked THEN "schema_invalid" ELSE "identity_mismatch")
        ELSE opener' = [opener EXCEPT ![o] = [AtStart EXCEPT !.pc = "marked",
                          !.owner = owner, !.empty = Blank]]
  BY DEF AssertDatabaseClaimable
<1>3. CASE ~Claimable
  BY <1>1, <1>2, <1>3, RefusedFits DEF RefusalReasons
<1>4. CASE Claimable
  <2> DEFINE blank == Blank
             q == [AtStart EXCEPT !.pc = "marked", !.owner = owner, !.empty = blank]
  <2>1. blank \in BOOLEAN
    BY DEF Blank
  <2> HIDE DEF blank
  <2>2. q \in Openings /\ q.pc = "marked" /\ q.owner = owner /\ (q.empty <=> blank)
    BY <2>1, StartIsOpening DEF Openings
  <2> HIDE DEF q
  <2>3. opener' = [opener EXCEPT ![o] = q]
    BY <1>2, <1>4 DEF q, blank
  <2>4. file.kind \in Kinds
    BY <1>1 DEF FileFits, Files
  <2>5. file.kind # "audit" => file.mark \in {Unmarked, file.kind}
    BY <1>4, <2>4 DEF Claimable, IngestionClaimable, RegistryClaimable, Kinds
  <2>6. file.kind # "audit" => found.mark \in {Unmarked, file.kind}
    BY <1>1, <2>5 DEF FileFits
  <2>7. file.kind = "audit" /\ blank => found.mark = Unmarked /\ found.level = 0 /\ found.version = 0
    <3> SUFFICES ASSUME file.kind = "audit", blank
                 PROVE  found.mark = Unmarked /\ found.level = 0 /\ found.version = 0
      OBVIOUS
    <3>1. file.mark = Unmarked /\ file.level = 0 /\ file.version = 0
      BY DEF blank, Blank
    <3>2. file = found
      BY <1>1, <3>1, Versions DEF FileFits
    <3> QED  BY <3>1, <3>2
  <2>8. OpenerFits(q, file, found)
    BY <2>2, <2>6, <2>7 DEF OpenerFits
  <2> QED  BY <1>1, <2>3, <2>8, LookFits
<1> QED  BY <1>3, <1>4

LEMMA VersionStep ==
    ASSUME DatabaseInv, NEW o \in Openers, ReadSchemaVersion(o)
    PROVE  DatabaseInv'
<1> DEFINE me == opener[o]
           q == [me EXCEPT !.pc = "versioned", !.version = file.version]
<1>1. /\ UNCHANGED <<file, found>> /\ FileFits(file, found) /\ me.pc = "marked"
      /\ OpenerFits(me, file, found) /\ me \in Openings /\ file.version \in Nat /\ file.kind \in Kinds
      /\ found.version \in Nat
  BY DEF ReadSchemaVersion, OpenerAt, DatabaseInv, OpenerFits, FileFits, Files
<1>2. CASE file.version > CurrentVersion[file.kind] /\ file.kind # "audit"
  BY <1>1, <1>2, RefusedFits DEF ReadSchemaVersion, RefusalReasons
<1>3. CASE ~(file.version > CurrentVersion[file.kind] /\ file.kind # "audit")
  <2>1. opener' = [opener EXCEPT ![o] = q]
    BY <1>3 DEF ReadSchemaVersion, DatabaseInv
  <2>2. /\ q \in Openings /\ q.pc = "versioned" /\ q.owner = me.owner /\ q.version = file.version
        /\ q.empty <=> me.empty
    BY <1>1 DEF Openings
  <2> HIDE DEF q
  <2>3. CurrentVersion[file.kind] \in Nat
    BY <1>1, Versions DEF Kinds
  <2>4. file.kind # "audit" => file.version <= CurrentVersion[file.kind]
    BY <1>1, <1>3, <2>3
  <2>5. file.kind # "audit" => found.version <= CurrentVersion[file.kind]
    BY <1>1, <2>3, <2>4 DEF FileFits
  <2>6. file.kind = "ingestion" => q.version \in 0..8 /\ (q.version = 8 => file.version = 8)
    BY <1>1, <2>2, <2>4, Versions
  <2>7. OpenerFits(q, file, found)
    BY <1>1, <2>2, <2>5, <2>6 DEF OpenerFits
  <2> QED  BY <1>1, <2>1, <2>7, LookFits
<1> QED  BY <1>2, <1>3

LEMMA IdentityStep ==
    ASSUME DatabaseInv, NEW o \in Openers, AssertIdentity(o)
    PROVE  DatabaseInv'
<1> DEFINE me == opener[o]
           q(pc) == [me EXCEPT !.pc = pc]
<1>1. /\ UNCHANGED <<file, found>> /\ FileFits(file, found) /\ me.pc = "versioned"
      /\ OpenerFits(me, file, found) /\ me \in Openings /\ file.kind \in Kinds /\ file \in Files
  BY DEF AssertIdentity, OpenerAt, DatabaseInv, OpenerFits, FileFits, Files
<1>2. ASSUME NEW why \in RefusalReasons, Refuse(o, why) PROVE DatabaseInv'
  BY <1>1, <1>2, RefusedFits
<1>3. ASSUME NEW pc \in {"migrate", "claim", "open"}, Proceed(o, pc), OpenerFits(q(pc), file, found)
      PROVE  DatabaseInv'
  <2>1. opener' = [opener EXCEPT ![o] = q(pc)]
    BY <1>3 DEF Proceed, DatabaseInv
  <2> HIDE DEF q
  <2> QED  BY <1>1, <1>3, <2>1, LookFits
<1>4. ASSUME NEW pc \in {"migrate", "claim", "open"}
      PROVE  /\ q(pc) \in Openings /\ q(pc).pc = pc /\ q(pc).owner = me.owner
             /\ q(pc).version = me.version /\ (q(pc).empty <=> me.empty)
  <2>1. pc \in {"marked", "versioned", "migrate", "claim", "check", "open"}
    BY <1>4
  <2> QED  BY <1>1, <2>1, ProceedRecord
<1>5. me.version \in Nat /\ (file.kind = "ingestion" => me.version \in 0..8)
  BY <1>1 DEF Openings, OpenerFits
<1>6. ASSUME \/ me.empty /\ file.kind # "ingestion"
             \/ file.kind = "registry" /\ file.owner = me.owner
             \/ file.kind = "ingestion" /\ (me.version \in {0, 1} \/ file.owner = me.owner),
             Proceed(o, "migrate")
      PROVE  DatabaseInv'
  <2> HIDE DEF q
  <2>1. OpenerFits(q("migrate"), file, found)
    BY <1>1, <1>4, <1>6 DEF OpenerFits
  <2> QED  BY <1>3, <1>6, <2>1
<1>7. CASE file.kind = "ingestion"
  <2>1. CASE me.version \in {0, 1}
    <3>1. Proceed(o, "migrate")
      BY <1>7, <2>1 DEF AssertIdentity
    <3> QED  BY <1>6, <1>7, <2>1, <3>1
  <2>2. CASE me.version \notin {0, 1}
    <3>1. IF ~ExpectedSchema(me.version) THEN Refuse(o, "schema_invalid")
          ELSE IF ~OwnedBy(me.owner) THEN Refuse(o, "identity_mismatch")
          ELSE IF me.version < 8 THEN Proceed(o, "migrate")
          ELSE IF ~PersistedIdentityFormat THEN Refuse(o, "identity_format_unsupported")
          ELSE Proceed(o, "claim")
      BY <1>7, <2>2 DEF AssertIdentity
    <3>2. CASE Proceed(o, "migrate") /\ OwnedBy(me.owner)
      BY <1>6, <1>7, <3>2 DEF OwnedBy
    <3>3. CASE /\ Proceed(o, "claim") /\ OwnedBy(me.owner) /\ ExpectedSchema(me.version)
               /\ PersistedIdentityFormat /\ ~(me.version < 8)
      <4>1. me.version = 8 /\ file.version = 8 /\ file.level = 6 /\ ~file.old /\ file.owner = me.owner
        <5>1. me.version = 8
          BY <1>5, <1>7, <3>3
        <5>2. file.version = 8
          BY <1>1, <1>7, <5>1 DEF OpenerFits
        <5>3. file.level = 6
          BY <1>7, <3>3, <5>1 DEF ExpectedSchema
        <5> QED  BY <3>3, <5>1, <5>2, <5>3 DEF OwnedBy, PersistedIdentityFormat
      <4>2. Settled(file)
        BY <1>7, <4>1, Versions DEF Settled
      <4> HIDE DEF q
      <4>3. OpenerFits(q("claim"), file, found)
        BY <1>1, <1>4, <1>7, <4>1, <4>2 DEF OpenerFits
      <4> QED  BY <1>3, <3>3, <4>3
    <3> QED  BY <1>2, <3>1, <3>2, <3>3 DEF RefusalReasons
  <2> QED  BY <2>1, <2>2
<1>8. CASE file.kind = "registry"
  <2>1. \/ Proceed(o, "migrate") /\ (me.empty \/ OwnedBy(me.owner))
        \/ Refuse(o, "identity_mismatch")
    BY <1>8 DEF AssertIdentity
  <2> QED  BY <1>2, <1>6, <1>8, <2>1 DEF OwnedBy, RefusalReasons
<1>9. CASE file.kind = "audit"
  <2>1. \/ Proceed(o, "migrate") /\ me.empty
        \/ Proceed(o, "open") /\ CompatibleWith(me.owner)
        \/ Refuse(o, "incompatible")
    BY <1>9 DEF AssertIdentity
  <2>2. CASE Proceed(o, "open") /\ CompatibleWith(me.owner)
    <3>1. file.mark = "audit" /\ Settled(file) /\ file.owner = me.owner
      BY <1>9, <2>2 DEF CompatibleWith, ExpectedSchema, OwnedBy, PersistedIdentityFormat, Settled
    <3> HIDE DEF q
    <3>2. OpenerFits(q("open"), file, found)
      BY <1>1, <1>4, <1>9, <3>1 DEF OpenerFits
    <3> QED  BY <1>3, <2>2, <3>2
  <2> QED  BY <1>2, <1>6, <1>9, <2>1, <2>2 DEF RefusalReasons
<1> QED  BY <1>1, <1>7, <1>8, <1>9 DEF Kinds

LEMMA MigrateIngestionStep ==
    ASSUME DatabaseInv, NEW o \in Openers, MigrateIngestion(o)
    PROVE  DatabaseInv'
<1> DEFINE me == opener[o]
           first == me.version \in {0, 1}
           q == [me EXCEPT !.pc = "claim"]
           w == IF first THEN me.owner ELSE file.owner
           g == [file EXCEPT !.level = 6, !.version = 8, !.owner = w]
<1>1. /\ found' = found /\ FileFits(file, found) /\ me.pc = "migrate" /\ file.kind = "ingestion"
      /\ OpenerFits(me, file, found) /\ me \in Openings /\ file \in Files
      /\ found.version \in Nat /\ me.owner \in Owners
  BY DEF MigrateIngestion, OpenerAt, DatabaseInv, OpenerFits, FileFits, Files
<1>2. \/ Refuse(o, "migration_failed") /\ file' = file
      \/ /\ ~file.old /\ (first => file.owner = Unowned)
         /\ file' = g /\ opener' = [opener EXCEPT ![o] = q]
  BY <1>1 DEF MigrateIngestion, PersistedIdentityFormat, Proceed, DatabaseInv
<1>3. CASE Refuse(o, "migration_failed") /\ file' = file
  BY <1>1, <1>3, RefusedFits DEF RefusalReasons
<1>4. CASE /\ ~file.old /\ (first => file.owner = Unowned)
           /\ file' = g /\ opener' = [opener EXCEPT ![o] = q]
  <2>1. w \in Owners \cup {Unowned}
    BY <1>1 DEF Files
  <2>2. w = me.owner /\ (file.owner # Unowned => w = file.owner)
    BY <1>1, <1>4 DEF OpenerFits
  <2> HIDE DEF w
  <2>3. /\ g \in Files /\ g.level = 6 /\ g.version = 8 /\ g.owner = w /\ g.kind = "ingestion"
        /\ g.mark = file.mark /\ (g.old <=> file.old)
    BY <1>1, <2>1 DEF Files
  <2>4. /\ q \in Openings /\ q.pc = "claim" /\ q.owner = me.owner /\ q.version = me.version
        /\ q.empty <=> me.empty
    BY <1>1, ProceedRecord
  <2> HIDE DEF g, q
  <2>5. Grows(file, g)
    BY <1>1, <2>2, <2>3, Versions DEF Grows
  <2>6. found.mark \in {Unmarked, "ingestion"} /\ found.version <= 8
    BY <1>1, Versions DEF OpenerFits
  <2>7. found.owner \in {Unowned, w}
    BY <1>1, <2>2 DEF FileFits
  <2>8. FileFits(g, found)
    BY <1>1, <2>3, <2>6, <2>7, Versions DEF FileFits
  <2>9. Settled(g) /\ g.owner = q.owner
    BY <1>4, <2>2, <2>3, <2>4, Versions DEF Settled
  <2>10. OpenerFits(q, g, found)
    BY <1>1, <2>3, <2>4, <2>6, <2>9, Versions DEF OpenerFits
  <2> QED  BY <1>1, <1>4, <2>5, <2>8, <2>10, OpenerMoves
<1> QED  BY <1>2, <1>3, <1>4

LEMMA ClaimStep ==
    ASSUME DatabaseInv, NEW o \in Openers, ClaimApplicationId(o)
    PROVE  DatabaseInv'
<1> DEFINE me == opener[o]
           q == [me EXCEPT !.pc = "check"]
           g == [file EXCEPT !.mark = file.kind]
<1>1. /\ found' = found /\ FileFits(file, found) /\ me.pc = "claim"
      /\ OpenerFits(me, file, found) /\ me \in Openings /\ file \in Files
      /\ file' = g /\ opener' = [opener EXCEPT ![o] = q]
  BY DEF ClaimApplicationId, Proceed, OpenerAt, DatabaseInv, OpenerFits, FileFits
<1>2. file.kind = "ingestion" /\ Settled(file) /\ file.owner = me.owner /\ me.owner \in Owners
  BY <1>1 DEF OpenerFits
<1>3. /\ g \in Files /\ g.level = file.level /\ g.version = file.version /\ g.owner = file.owner
      /\ g.kind = file.kind /\ g.mark = file.kind /\ (g.old <=> file.old)
  BY <1>1 DEF Files
<1>4. /\ q \in Openings /\ q.pc = "check" /\ q.owner = me.owner /\ q.version = me.version
      /\ q.empty <=> me.empty
  BY <1>1, ProceedRecord
<1> HIDE DEF g, q
<1>5. Grows(file, g)
  BY <1>3 DEF Grows
<1>6. found.mark \in {Unmarked, "ingestion"} /\ found.version <= CurrentVersion["ingestion"]
  BY <1>1, <1>2 DEF OpenerFits
<1>7. found.owner \in {Unowned, g.owner}
  BY <1>1, <1>3 DEF FileFits
<1>8. Settled(g)
  BY <1>2, <1>3 DEF Settled
<1>9. FileFits(g, found)
  BY <1>1, <1>2, <1>3, <1>6, <1>7, <1>8, Versions DEF FileFits, Settled
<1>10. OpenerFits(q, g, found)
  BY <1>1, <1>2, <1>3, <1>4, <1>6, <1>8 DEF OpenerFits
<1> QED  BY <1>1, <1>5, <1>9, <1>10, OpenerMoves

LEMMA MigrateRegistryStep ==
    ASSUME DatabaseInv, NEW o \in Openers, MigrateRegistry(o)
    PROVE  DatabaseInv'
<1> DEFINE me == opener[o]
           q == [me EXCEPT !.pc = "check"]
           n == RegistryTables(GroundingColumns(file.level))
           w == IF me.empty THEN RecordIdentity(me.owner) ELSE file.owner
           g == [file EXCEPT !.level = n, !.version = 1, !.mark = "registry", !.owner = w]
<1>1. /\ found' = found /\ FileFits(file, found) /\ me.pc = "migrate" /\ file.kind = "registry"
      /\ OpenerFits(me, file, found) /\ me \in Openings /\ file \in Files /\ me.owner \in Owners
  BY DEF MigrateRegistry, OpenerAt, DatabaseInv, OpenerFits, FileFits
<1>2. file' = g /\ opener' = [opener EXCEPT ![o] = q]
  BY DEF MigrateRegistry, Proceed, DatabaseInv
<1>3. found.mark \in {Unmarked, "registry"} /\ found.version <= 1
  BY <1>1, Versions DEF OpenerFits
<1>4. file.level \in 0..2 /\ ~file.old
  BY <1>1, <1>3 DEF FileFits
<1>5. n = 2
  BY <1>4 DEF RegistryTables, GroundingColumns
<1>6. w \in Owners \cup {Unowned} /\ (file.owner # Unowned => w = file.owner)
  BY <1>1 DEF RecordIdentity, Files
<1>7. w = me.owner \/ me.empty
  BY <1>1 DEF OpenerFits
<1> HIDE DEF n, w
<1>8. /\ g \in Files /\ g.level = 2 /\ g.version = 1 /\ g.owner = w /\ g.kind = "registry"
      /\ g.mark = "registry" /\ (g.old <=> file.old)
  BY <1>1, <1>5, <1>6 DEF Files, Kinds
<1>9. /\ q \in Openings /\ q.pc = "check" /\ q.owner = me.owner /\ q.version = me.version
      /\ q.empty <=> me.empty
  BY <1>1, ProceedRecord
<1> HIDE DEF g, q
<1>10. Grows(file, g)
  BY <1>1, <1>6, <1>8, Versions DEF Grows
<1>11. found.owner \in {Unowned, w}
  BY <1>1, <1>6 DEF FileFits
<1>12. FileFits(g, found)
  BY <1>1, <1>3, <1>4, <1>8, <1>11, Versions DEF FileFits
<1>13. Settled(g)
  BY <1>4, <1>8, Versions DEF Settled
<1>14. OpenerFits(q, g, found)
  BY <1>1, <1>3, <1>7, <1>8, <1>9, <1>13, Versions DEF OpenerFits
<1> QED  BY <1>1, <1>2, <1>10, <1>12, <1>14, OpenerMoves

LEMMA CreateAuditStep ==
    ASSUME DatabaseInv, NEW o \in Openers, CreateAudit(o)
    PROVE  DatabaseInv'
<1> DEFINE me == opener[o]
           q == [me EXCEPT !.pc = "open"]
           g == [file EXCEPT !.level = 1, !.version = 1, !.mark = "audit", !.owner = me.owner]
<1>1. /\ found' = found /\ FileFits(file, found) /\ me.pc = "migrate" /\ file.kind = "audit"
      /\ OpenerFits(me, file, found) /\ me \in Openings /\ file \in Files /\ me.owner \in Owners
  BY DEF CreateAudit, OpenerAt, DatabaseInv, OpenerFits, FileFits
<1>2. \/ Refuse(o, "create_failed") /\ file' = file
      \/ file.level = 0 /\ file' = g /\ opener' = [opener EXCEPT ![o] = q]
  BY DEF CreateAudit, Proceed, DatabaseInv
<1>3. CASE Refuse(o, "create_failed") /\ file' = file
  BY <1>1, <1>3, RefusedFits DEF RefusalReasons
<1>4. CASE file.level = 0 /\ file' = g /\ opener' = [opener EXCEPT ![o] = q]
  <2>1. file.owner = Unowned /\ ~file.old
    BY <1>1, <1>4 DEF FileFits
  <2>2. file = found
    BY <1>1, <1>4, Versions DEF FileFits
  <2>3. found.mark = Unmarked /\ found.version = 0 /\ found.owner = Unowned
    <3>1. me.empty
      BY <1>1 DEF OpenerFits
    <3> QED  BY <1>1, <2>1, <2>2, <3>1 DEF OpenerFits
  <2>4. /\ g \in Files /\ g.level = 1 /\ g.version = 1 /\ g.owner = me.owner /\ g.kind = "audit"
        /\ g.mark = "audit" /\ (g.old <=> file.old)
    BY <1>1 DEF Files, Kinds
  <2>5. /\ q \in Openings /\ q.pc = "open" /\ q.owner = me.owner /\ q.version = me.version
        /\ q.empty <=> me.empty
    BY <1>1, ProceedRecord
  <2> HIDE DEF g, q
  <2>6. Grows(file, g)
    BY <1>1, <1>4, <2>1, <2>4, Versions DEF Grows
  <2>7. FileFits(g, found)
    BY <1>1, <2>3, <2>4, Versions DEF FileFits
  <2>8. Settled(g)
    BY <2>1, <2>4, Versions DEF Settled
  <2>9. OpenerFits(q, g, found)
    BY <1>1, <2>4, <2>5, <2>8 DEF OpenerFits
  <2> QED  BY <1>1, <1>4, <2>6, <2>7, <2>9, OpenerMoves
<1> QED  BY <1>2, <1>3, <1>4

LEMMA OtherOpenerStep ==
    ASSUME DatabaseInv, NEW o \in Openers,
           ConfigureDurability(o) \/ AssertHealthy(o) \/ Inspect(o) \/ OpenerStops(o)
    PROVE  DatabaseInv'
<1> DEFINE me == opener[o]
<1>1. /\ UNCHANGED <<file, found>> /\ FileFits(file, found)
      /\ OpenerFits(me, file, found) /\ me \in Openings
  BY DEF ConfigureDurability, AssertHealthy, Inspect, OpenerStops, DatabaseInv, OpenerFits
<1>2. CASE ConfigureDurability(o) \/ OpenerStops(o) \/ Refuse(o, "schema_invalid")
  BY <1>1, <1>2, RefusedFits DEF ConfigureDurability, OpenerStops, RefusalReasons
<1>3. CASE me.pc = "check" /\ Proceed(o, "open")
  <2> DEFINE q == [me EXCEPT !.pc = "open"]
  <2>1. opener' = [opener EXCEPT ![o] = q]
    BY <1>3 DEF Proceed, DatabaseInv
  <2>2. /\ q \in Openings /\ q.pc = "open" /\ q.owner = me.owner /\ q.version = me.version
        /\ q.empty <=> me.empty
    BY <1>1, ProceedRecord
  <2> HIDE DEF q
  <2>3. OpenerFits(q, file, found)
    BY <1>1, <1>3, <2>2 DEF OpenerFits
  <2> QED  BY <1>1, <2>1, <2>3, LookFits
<1>4. CASE Inspect(o)
  <2>1. PICK owner \in Owners :
          opener' = [opener EXCEPT ![o] = [AtStart EXCEPT !.owner = owner,
                       !.pc = IF CompatibleWith(owner) THEN "compatible" ELSE "incompatible"]]
    BY <1>4 DEF Inspect
  <2> DEFINE pc == IF CompatibleWith(owner) THEN "compatible" ELSE "incompatible"
             q == [AtStart EXCEPT !.owner = owner, !.pc = pc]
  <2>2. pc \in {"compatible", "incompatible"} /\ (pc = "compatible" => file.owner = owner)
    BY DEF CompatibleWith, OwnedBy
  <2> HIDE DEF pc
  <2>3. q \in Openings /\ q.pc = pc /\ q.owner = owner
    BY <2>2, StartIsOpening DEF Openings
  <2> HIDE DEF q
  <2>4. OpenerFits(q, file, found)
    BY <2>2, <2>3 DEF OpenerFits
  <2>5. opener' = [opener EXCEPT ![o] = q]
    BY <2>1 DEF q, pc
  <2> QED  BY <1>1, <2>4, <2>5, LookFits
<1> QED  BY <1>2, <1>3, <1>4 DEF AssertHealthy, OpenerAt

\* What each open call has learned of the file holds until it is done, whatever
\* other processes do to the file in between.
THEOREM DatabaseInvariant == DatabaseSpec => []DatabaseInv
<1>1. DatabaseInit => DatabaseInv
  <2> SUFFICES ASSUME DatabaseInit PROVE DatabaseInv
    OBVIOUS
  <2>1. file \in FirstFiles /\ found = file /\ opener = [o \in Openers |-> AtStart]
    BY DEF DatabaseInit
  <2>2. FileFits(file, found)
    BY <2>1, DatabaseAssumption DEF FileFits
  <2>3. AtStart.pc = "new"
    BY DEF AtStart
  <2>4. OpenerFits(AtStart, file, found)
    BY <2>3, StartIsOpening DEF OpenerFits
  <2> QED  BY <2>1, <2>2, <2>4 DEF DatabaseInv
<1>2. DatabaseInv /\ [DatabaseNext]_databaseVars => DatabaseInv'
  <2> SUFFICES ASSUME DatabaseInv, [DatabaseNext]_databaseVars PROVE DatabaseInv'
    OBVIOUS
  <2>1. CASE DatabaseNext
    BY <2>1, ClaimableStep, VersionStep, IdentityStep, MigrateIngestionStep, ClaimStep,
       MigrateRegistryStep, CreateAuditStep, OtherOpenerStep DEF DatabaseNext
  <2>2. CASE UNCHANGED databaseVars
    BY <2>2 DEF databaseVars, DatabaseInv
  <2> QED  BY <2>1, <2>2
<1> QED  BY <1>1, <1>2, PTL DEF DatabaseSpec

\* Whoever has a database open has today's tables in a file that names it as the
\* owner (Registry: unless it took the file for empty), and a file that is not this
\* program's, or somebody else's, is left as it was.
THEOREM OpenedDatabaseIsOwn == DatabaseSpec => []OpenedIsOwn
<1>1. DatabaseInv => OpenedIsOwn
  BY DEF DatabaseInv, OpenedIsOwn, OpenerFits, FileFits, Settled, OpenerAt, OwnedBy
<1> QED  BY <1>1, DatabaseInvariant, PTL

-----------------------------------------------------------------------------
(* Backup                                                                  *)

SavedCollections == [collection : Collections, points : SUBSET Publications]

BackupFields == {"st", "identity", "todo", "kept", "failing", "ingestion", "registry", "why"}

BackupRecord(q) == /\ q = [f \in BackupFields |-> q[f]]
                   /\ q.todo \in Seq(Collections) /\ q.kept \in Seq(SavedCollections)

\* The collection of p is among those that were saved or are still to be, and
\* wherever it was saved p is in it.
SavedOrListed(p, kept, todo) ==
    /\ \/ \E k \in DOMAIN kept : kept[k].collection = CollectionOf(p)
       \/ \E k \in DOMAIN todo : todo[k] = CollectionOf(p)
    /\ \A k \in DOMAIN kept : kept[k].collection = CollectionOf(p) => p \in kept[k].points

Frozen == {"saving", "downloading", "deleting", "half_copied", "copied"}

\* What a backup holds and knows, with locks fz over databases ing and reg.
BackupFits(q, b, fz, ing, reg) ==
    /\ BackupRecord(q)
    /\ q.st \in {"new", "opened", "half_frozen"} => q.kept = <<>>
    /\ q.st \in Frozen \cup {"half_frozen"} => fz.ingestion = b
    /\ q.st \in Frozen => fz.registry = b /\ \A p \in ing : SavedOrListed(p, q.kept, q.todo)
    /\ q.st \in {"downloading", "deleting"} =>
         q.todo # <<>> /\ \E k \in DOMAIN q.kept : q.kept[k].collection = Head(q.todo)
    /\ q.st \in {"half_copied", "copied"} => q.todo = <<>> /\ q.ingestion = ing
    /\ q.st = "copied" => q.registry = reg

ArchiveFits(a) ==
    a.made => /\ a.collections \in Seq(SavedCollections)
              /\ a.ingestion \subseteq Publications /\ a.registry \subseteq a.ingestion
              /\ \A p \in a.ingestion : SavedOrListed(p, a.collections, <<>>)

MomentInv ==
    /\ registry \subseteq ingestion /\ ingestion \subseteq points /\ points \subseteq Publications
    /\ freezer = [d \in {"ingestion", "registry"} |-> freezer[d]]
    /\ bk = [b \in Backups |-> bk[b]]
    /\ \A b \in Backups : BackupFits(bk[b], b, freezer, ingestion, registry)
    /\ ArchiveFits(archive)

LEMMA CollectionType ==
    ASSUME NEW p \in Publications
    PROVE  CollectionOf(p) \in Collections /\ p \in Nat \ {0}
<1> DEFINE n == Cardinality(Collections)  m == Cardinality(Publications)
<1>1. n \in Nat /\ m \in Nat
  BY BackupAssumption, FS_CardinalityType
<1>2. Collections = 1..n /\ Publications = 1..m /\ Collections # {}
  BY BackupAssumption
<1> HIDE DEF n, m
<1>3. n > 0 /\ p \in Nat \ {0}
  BY <1>1, <1>2
<1>4. p % n \in 0..(n - 1)
  BY <1>1, <1>3
<1>5. (p % n) + 1 \in 1..n
  BY <1>1, <1>3, <1>4
<1> QED  BY <1>2, <1>3, <1>5 DEF CollectionOf, n

\* InOrder lists every member of a finite set of numbers.
LEMMA ListsAll ==
    ASSUME NEW S \in SUBSET Nat, IsFiniteSet(S)
    PROVE  /\ InOrder(S) \in Seq(S) /\ DOMAIN InOrder(S) = 1..Len(InOrder(S))
           /\ \A c \in S : \E k \in DOMAIN InOrder(S) : InOrder(S)[k] = c
<1> DEFINE Below(x) == {y \in S : y < x}
           R(x) == Cardinality(Below(x))
           n == Cardinality(S)
<1>1. \A x \in S : IsFiniteSet(Below(x)) /\ R(x) \in Nat
  BY FS_Subset, FS_CardinalityType
<1>2. n \in Nat
  BY FS_CardinalityType
<1>3. \A x \in S : R(x) < n
  <2> SUFFICES ASSUME NEW x \in S PROVE R(x) < n
    OBVIOUS
  <2>1. Below(x) \subseteq S /\ x \notin Below(x)
    OBVIOUS
  <2>2. R(x) <= n /\ (R(x) = n => Below(x) = S)
    BY <2>1, FS_Subset
  <2> QED  BY <1>1, <1>2, <2>1, <2>2
<1>4. \A x, c \in S : R(x) = R(c) => x = c
  <2>1. ASSUME NEW x \in S, NEW c \in S, x < c PROVE R(x) # R(c)
    <3>0. \A y \in S : y < x => y < c
      <4>1. \A y \in S : y \in Nat
        OBVIOUS
      <4>2. x \in Nat /\ c \in Nat /\ x < c
        BY <2>1
      <4> QED  BY <4>1, <4>2
    <3>1. x \in Below(c) /\ x \notin Below(x)
      BY <2>1
    <3>2. Below(x) \subseteq Below(c)
      <4> SUFFICES ASSUME NEW y \in S, y < x PROVE y < c
        OBVIOUS
      <4> QED  BY <3>0
    <3>3. R(x) = R(c) => Below(x) = Below(c)
      <4> HIDE DEF Below
      <4> QED  BY <1>1, <3>2, FS_Subset
    <3> QED  BY <3>1, <3>3
  <2>2. \A x, c \in S : x < c \/ c < x \/ x = c
    OBVIOUS
  <2> HIDE DEF R
  <2> QED  BY <2>1, <2>2
<1>5. InOrder(S) = [k \in 1..n |-> CHOOSE x \in S : R(x) = k - 1]
  BY DEF InOrder
<1>6. \A c \in S : R(c) + 1 \in 1..n /\ InOrder(S)[R(c) + 1] = c
  <2> SUFFICES ASSUME NEW c \in S PROVE R(c) + 1 \in 1..n /\ InOrder(S)[R(c) + 1] = c
    OBVIOUS
  <2> DEFINE r == R(c)
  <2>1. r \in Nat /\ r + 1 \in 1..n /\ (r + 1) - 1 = r
    BY <1>1, <1>2, <1>3
  <2> HIDE DEF R
  <2>2. (CHOOSE x \in S : R(x) = (r + 1) - 1) = c
    BY <1>4, <2>1
  <2> QED  BY <1>5, <2>1, <2>2
<1>7. InOrder(S) \in [1..n -> S]
  <2> DEFINE f == [x \in S |-> R(x) + 1]
  <2>1. f \in [S -> 1..n] /\ \A x \in S : f[x] = R(x) + 1
    BY <1>6
  <2>2. \A x, c \in S : f[x] = f[c] => x = c
    <3> SUFFICES ASSUME NEW x \in S, NEW c \in S, f[x] = f[c] PROVE x = c
      OBVIOUS
    <3>1. R(x) \in Nat /\ R(c) \in Nat /\ R(x) + 1 = R(c) + 1
      BY <1>1, <2>1
    <3> HIDE DEF R
    <3>2. R(x) = R(c)
      BY <3>1
    <3> QED  BY <1>4, <3>2
  <2> HIDE DEF f, R
  <2>3. f \in Injection(S, 1..n)
    BY <2>1, <2>2 DEF Injection, IsInjective
  <2>4. IsFiniteSet(1..n) /\ Cardinality(1..n) = Cardinality(S)
    <3>1. IsFiniteSet(1..n) /\ Cardinality(1..n) = IF 1 > n THEN 0 ELSE n - 1 + 1
      BY <1>2, FS_Interval
    <3> HIDE DEF n
    <3>2. (IF 1 > n THEN 0 ELSE n - 1 + 1) = n
      BY <1>2
    <3> QED  BY <3>1, <3>2 DEF n
  <2>5. f \in Surjection(S, 1..n)
    BY <2>3, <2>4, FS_Injection
  <2>6. ASSUME NEW k \in 1..n PROVE InOrder(S)[k] \in S
    <3>1. PICK x \in S : f[x] = k
      BY <2>5 DEF Surjection
    <3>2. InOrder(S)[k] = x
      BY <1>6, <2>1, <3>1
    <3> QED  BY <3>2
  <2> QED  BY <1>5, <2>6
<1>8. InOrder(S) \in Seq(S) /\ Len(InOrder(S)) = n
  <2> DEFINE s == InOrder(S)
  <2> HIDE DEF s, n
  <2> SUFFICES ASSUME s \in [1..n -> S] PROVE s \in Seq(S) /\ Len(s) = n
    BY <1>7 DEF s
  <2> QED  BY <1>2
<1>9. DOMAIN InOrder(S) = 1..n
  BY <1>7
<1> HIDE DEF R, n
<1> QED  BY <1>6, <1>8, <1>9

\* One backup moves; the locks of the others stay with them.
LEMMA BackupMoves ==
    ASSUME MomentInv, NEW b \in Backups, NEW q, bk' = [bk EXCEPT ![b] = q],
           UNCHANGED <<points, ingestion, registry>>,
           freezer' = [d \in {"ingestion", "registry"} |-> freezer'[d]],
           \A x \in Backups \ {b} : \A d \in {"ingestion", "registry"} :
               freezer[d] = x => freezer'[d] = x,
           BackupFits(q, b, freezer', ingestion, registry), ArchiveFits(archive')
    PROVE  MomentInv'
<1>1. /\ bk' = [x \in Backups |-> bk'[x]] /\ bk'[b] = q
      /\ \A x \in Backups \ {b} : bk'[x] = bk[x]
  BY DEF MomentInv
<1>2. ASSUME NEW x \in Backups PROVE BackupFits(bk'[x], x, freezer', ingestion, registry)
  <2>1. CASE x = b
    BY <1>1, <2>1
  <2>2. CASE x # b
    <3>1. BackupFits(bk[x], x, freezer, ingestion, registry) /\ bk'[x] = bk[x]
      BY <1>1, <2>2 DEF MomentInv
    <3>2. /\ freezer.ingestion = x => freezer'.ingestion = x
          /\ freezer.registry = x => freezer'.registry = x
      BY <2>2
    <3> QED  BY <3>1, <3>2 DEF BackupFits
  <2> QED  BY <2>1, <2>2
<1> QED  BY <1>1, <1>2 DEF MomentInv

LEMMA WaitingFits == BackupRecord(Waiting) /\ Waiting.st = "new" /\ Waiting.kept = <<>>
<1>1. Waiting.todo = <<>> /\ Waiting.kept = <<>> /\ Waiting = [f \in BackupFields |-> Waiting[f]]
      /\ Waiting.st = "new"
  BY DEF Waiting, BackupFields
<1> QED  BY <1>1 DEF BackupRecord

LEMMA EndedFits ==
    ASSUME NEW why, NEW b, NEW fz, NEW ing, NEW reg
    PROVE  BackupFits(Ended(why), b, fz, ing, reg)
<1>1. /\ Ended(why) = [f \in BackupFields |-> Ended(why)[f]] /\ Ended(why).st = "ended"
      /\ Ended(why).todo = Waiting.todo /\ Ended(why).kept = Waiting.kept
  BY WaitingFits DEF Ended, BackupRecord, BackupFields
<1>2. BackupRecord(Ended(why))
  BY <1>1, WaitingFits DEF BackupRecord
<1> QED  BY <1>1, <1>2 DEF BackupFits, Frozen

\* The finally block lets go of this backup's locks and of no other's.
LEMMA EndKeeps ==
    ASSUME MomentInv, NEW b \in Backups, NEW why, EndBackup(b, why), ArchiveFits(archive')
    PROVE  MomentInv'
<1>1. /\ bk' = [bk EXCEPT ![b] = Ended(why)] /\ freezer' = Unlocked(b)
      /\ UNCHANGED <<points, ingestion, registry>>
  BY DEF EndBackup
<1>2. freezer = [d \in {"ingestion", "registry"} |-> freezer[d]]
  BY DEF MomentInv
<1>3. DOMAIN freezer = {"ingestion", "registry"}
  BY <1>2
<1>4. /\ freezer' = [d \in {"ingestion", "registry"} |-> freezer'[d]]
      /\ \A x \in Backups \ {b} : \A d \in {"ingestion", "registry"} : freezer[d] = x => freezer'[d] = x
  BY <1>1, <1>3 DEF Unlocked
<1> QED  BY <1>1, <1>4, EndedFits, BackupMoves

\* A backup goes on under the locks as they are.
LEMMA BackupGoesOn ==
    ASSUME MomentInv, NEW b \in Backups, NEW q, bk' = [bk EXCEPT ![b] = q],
           UNCHANGED <<points, ingestion, registry, freezer, archive>>,
           BackupFits(q, b, freezer, ingestion, registry)
    PROVE  MomentInv'
<1>1. freezer' = [d \in {"ingestion", "registry"} |-> freezer'[d]] /\ ArchiveFits(archive')
  BY DEF MomentInv
<1> QED  BY <1>1, BackupMoves

LEMMA LockStep ==
    ASSUME MomentInv, NEW b \in Backups, BeginBackup(b) \/ FreezeIngestion(b) \/ FreezeRegistry(b)
    PROVE  MomentInv'
<1> DEFINE me == bk[b]
<1>1. /\ BackupFits(me, b, freezer, ingestion, registry) /\ BackupRecord(me)
      /\ me = [f \in BackupFields |-> me[f]] /\ bk = [x \in Backups |-> bk[x]]
      /\ freezer = [d \in {"ingestion", "registry"} |-> freezer[d]] /\ ArchiveFits(archive)
  BY DEF MomentInv, BackupFits, BackupRecord
<1>2. ASSUME NEW why, EndBackup(b, why), UNCHANGED <<left, archive>> PROVE MomentInv'
  BY <1>1, <1>2, EndKeeps
<1>3. CASE BeginBackup(b)
  <2>1. PICK identity \in Identities :
          \/ EndBackup(b, "backup_destination_exists") /\ UNCHANGED <<left, archive>>
          \/ /\ bk' = [bk EXCEPT ![b].st = "opened", ![b].identity = identity]
             /\ UNCHANGED <<points, ingestion, registry, freezer, archive>>
    BY <1>3 DEF BeginBackup
  <2> DEFINE q == [me EXCEPT !.st = "opened", !.identity = identity]
  <2>2. /\ q = [f \in BackupFields |-> q[f]] /\ q.st = "opened" /\ q.todo = me.todo /\ q.kept = me.kept
    BY <1>1 DEF BackupFields
  <2>3. BackupFits(q, b, freezer, ingestion, registry)
    BY <1>1, <1>3, <2>2 DEF BackupFits, BackupRecord, Frozen, BeginBackup
  <2>4. CASE /\ bk' = [bk EXCEPT ![b].st = "opened", ![b].identity = identity]
             /\ UNCHANGED <<points, ingestion, registry, freezer, archive>>
    <3>1. bk' = [bk EXCEPT ![b] = q]
      BY <1>1, <2>4
    <3> QED  BY <2>3, <2>4, <3>1, BackupGoesOn
  <2> QED  BY <1>2, <2>1, <2>4
<1>4. CASE FreezeIngestion(b)
  <2>1. \/ \E why : EndBackup(b, why) /\ UNCHANGED <<left, archive>>
        \/ /\ freezer.ingestion = Nobody /\ freezer' = [freezer EXCEPT !.ingestion = b]
           /\ bk' = [bk EXCEPT ![b].st = "half_frozen"]
           /\ UNCHANGED <<points, ingestion, registry, archive>>
    BY <1>4 DEF FreezeIngestion
  <2> DEFINE q == [me EXCEPT !.st = "half_frozen"]
  <2>2. /\ q = [f \in BackupFields |-> q[f]] /\ q.st = "half_frozen" /\ q.todo = me.todo /\ q.kept = me.kept
    BY <1>1 DEF BackupFields
  <2>3. CASE /\ freezer.ingestion = Nobody /\ freezer' = [freezer EXCEPT !.ingestion = b]
             /\ bk' = [bk EXCEPT ![b].st = "half_frozen"]
             /\ UNCHANGED <<points, ingestion, registry, archive>>
    <3>1. bk' = [bk EXCEPT ![b] = q]
      BY <1>1, <2>3
    <3>2. /\ freezer' = [d \in {"ingestion", "registry"} |-> freezer'[d]]
          /\ freezer'.ingestion = b /\ freezer'.registry = freezer.registry
      BY <1>1, <2>3
    <3>3. BackupFits(q, b, freezer', ingestion, registry)
      <4> HIDE DEF q
      <4>1. me.st = "opened"
        BY <1>4 DEF FreezeIngestion
      <4> QED  BY <1>1, <2>2, <3>2, <4>1 DEF BackupFits, BackupRecord, Frozen
    <3>4. \A x \in Backups \ {b} : \A d \in {"ingestion", "registry"} :
             freezer[d] = x => freezer'[d] = x
      BY <2>3, <3>2, BackupAssumption
    <3> HIDE DEF q
    <3> QED  BY <1>1, <2>3, <3>1, <3>2, <3>3, <3>4, BackupMoves
  <2> QED  BY <1>2, <2>1, <2>3
<1>5. CASE FreezeRegistry(b)
  <2>1. me.st = "half_frozen"
    BY <1>5 DEF FreezeRegistry
  <2>2. \/ \E why : EndBackup(b, why) /\ UNCHANGED <<left, archive>>
        \/ /\ freezer.registry = Nobody /\ freezer' = [freezer EXCEPT !.registry = b]
           /\ bk' = [bk EXCEPT ![b].st = "saving", ![b].todo = BackupTargets]
           /\ UNCHANGED <<points, ingestion, registry, archive>>
    BY <1>5 DEF FreezeRegistry
  <2> DEFINE q == [me EXCEPT !.st = "saving", !.todo = BackupTargets]
  <2>3. /\ q = [f \in BackupFields |-> q[f]] /\ q.st = "saving" /\ q.todo = BackupTargets /\ q.kept = me.kept
    BY <1>1 DEF BackupFields
  <2> HIDE DEF q
  <2>4. CASE /\ freezer.registry = Nobody /\ freezer' = [freezer EXCEPT !.registry = b]
             /\ bk' = [bk EXCEPT ![b].st = "saving", ![b].todo = BackupTargets]
             /\ UNCHANGED <<points, ingestion, registry, archive>>
    <3>1. bk' = [bk EXCEPT ![b] = q]
      BY <1>1, <2>4 DEF q
    <3>2. /\ freezer' = [d \in {"ingestion", "registry"} |-> freezer'[d]]
          /\ freezer'.registry = b /\ freezer'.ingestion = freezer.ingestion
      BY <1>1, <2>4
    <3>3. \A x \in Backups \ {b} : \A d \in {"ingestion", "registry"} :
             freezer[d] = x => freezer'[d] = x
      BY <2>4, <3>2, BackupAssumption
    <3>4. /\ BackupTargets \in Seq(Collections)
          /\ \A p \in ingestion : \E k \in DOMAIN BackupTargets : BackupTargets[k] = CollectionOf(p)
      <4> DEFINE S == {CollectionOf(p) : p \in ingestion}
      <4>1. S \subseteq Collections
        BY CollectionType DEF MomentInv
      <4>2. IsFiniteSet(S)
        BY <4>1, BackupAssumption, FS_Subset
      <4>3. Collections \subseteq Nat
        BY BackupAssumption, FS_CardinalityType
      <4>4. S \in SUBSET Nat
        BY <4>1, <4>3
      <4>5. \A p \in ingestion : CollectionOf(p) \in S
        OBVIOUS
      <4> HIDE DEF S
      <4>6. InOrder(S) \in Seq(S) /\ \A c \in S : \E k \in DOMAIN InOrder(S) : InOrder(S)[k] = c
        BY <4>2, <4>4, ListsAll
      <4>7. InOrder(S) \in Seq(Collections)
        <5> DEFINE s == InOrder(S)
        <5> HIDE DEF s
        <5>1. s \in Seq(S)
          BY <4>6 DEF s
        <5> QED  BY <4>1, <5>1 DEF s
      <4>8. BackupTargets = InOrder(S)
        BY DEF BackupTargets, S
      <4> QED  BY <4>5, <4>6, <4>7, <4>8
    <3>5. ASSUME NEW p \in ingestion PROVE SavedOrListed(p, q.kept, q.todo)
      <4>1. q.kept = <<>> /\ DOMAIN <<>> = {}
        BY <1>1, <2>1, <2>3 DEF BackupFits
      <4> QED  BY <2>3, <3>4, <4>1 DEF SavedOrListed
    <3>6. BackupFits(q, b, freezer', ingestion, registry)
      BY <1>1, <2>1, <2>3, <3>2, <3>4, <3>5 DEF BackupFits, BackupRecord, Frozen
    <3> QED  BY <1>1, <2>4, <3>1, <3>2, <3>3, <3>6, BackupMoves
  <2> QED  BY <1>2, <2>2, <2>4
<1> QED  BY <1>3, <1>4, <1>5

LEMMA SaveStep ==
    ASSUME MomentInv, NEW b \in Backups, CreateSnapshot(b) \/ DownloadSnapshot(b) \/ DeleteSnapshot(b)
    PROVE  MomentInv'
<1> DEFINE me == bk[b]
<1>1. /\ BackupFits(me, b, freezer, ingestion, registry) /\ BackupRecord(me)
      /\ me = [f \in BackupFields |-> me[f]] /\ bk = [x \in Backups |-> bk[x]] /\ ArchiveFits(archive)
      /\ me.todo \in Seq(Collections) /\ me.kept \in Seq(SavedCollections)
  BY DEF MomentInv, BackupFits, BackupRecord
<1>2. ASSUME NEW why, EndBackup(b, why), archive' = archive PROVE MomentInv'
  BY <1>1, <1>2, EndKeeps
<1>3. CASE CreateSnapshot(b)
  <2> DEFINE c == Head(me.todo)
             s == [collection |-> c, points |-> PointsOf(c)]
             kept == Append(me.kept, s)
             q == [me EXCEPT !.st = "downloading", !.kept = kept]
  <2>1. me.st = "saving" /\ me.todo # <<>>
    BY <1>3 DEF CreateSnapshot
  <2>2. \/ EndBackup(b, "backup_write_failed") /\ archive' = archive
        \/ /\ bk' = [bk EXCEPT ![b] = q]
           /\ UNCHANGED <<points, ingestion, registry, freezer, archive>>
    BY <1>1, <1>3 DEF CreateSnapshot
  <2>3. s \in SavedCollections /\ s.collection = c /\ s.points = PointsOf(c)
    <3>1. c \in Collections
      BY <1>1, <2>1
    <3>2. PointsOf(c) \subseteq Publications
      BY DEF PointsOf, MomentInv
    <3> HIDE DEF c
    <3> QED  BY <3>1, <3>2 DEF SavedCollections
  <2> HIDE DEF s
  <2>4. /\ kept \in Seq(SavedCollections) /\ DOMAIN kept = 1..(Len(me.kept) + 1) /\ Len(me.kept) \in Nat
        /\ DOMAIN me.kept = 1..Len(me.kept)
        /\ kept[Len(me.kept) + 1] = s /\ \A k \in 1..Len(me.kept) : kept[k] = me.kept[k]
    BY <1>1, <2>3
  <2> DEFINE n == Len(me.kept)
  <2>5. DOMAIN kept = DOMAIN me.kept \cup {n + 1} /\ \A k \in DOMAIN me.kept : kept[k] = me.kept[k]
    BY <2>4
  <2> HIDE DEF kept
  <2>6. /\ q = [f \in BackupFields |-> q[f]] /\ q.st = "downloading" /\ q.todo = me.todo /\ q.kept = kept
    BY <1>1 DEF BackupFields
  <2> HIDE DEF q
  <2>7. ASSUME NEW p \in ingestion PROVE SavedOrListed(p, q.kept, q.todo)
    <3>1. SavedOrListed(p, me.kept, me.todo)
      BY <1>1, <2>1 DEF BackupFits, Frozen
    <3>2. s.collection = CollectionOf(p) => p \in s.points
      BY <2>3 DEF PointsOf, MomentInv
    <3>3. \A k \in DOMAIN kept : kept[k].collection = CollectionOf(p) => p \in kept[k].points
      BY <2>4, <2>5, <3>1, <3>2 DEF SavedOrListed
    <3>4. \/ \E k \in DOMAIN kept : kept[k].collection = CollectionOf(p)
          \/ \E k \in DOMAIN me.todo : me.todo[k] = CollectionOf(p)
      BY <2>5, <3>1 DEF SavedOrListed
    <3> QED  BY <2>6, <3>3, <3>4 DEF SavedOrListed
  <2>8. \E k \in DOMAIN kept : kept[k].collection = Head(q.todo)
    BY <2>3, <2>4, <2>5, <2>6
  <2>9. BackupFits(q, b, freezer, ingestion, registry)
    BY <1>1, <2>1, <2>4, <2>6, <2>7, <2>8 DEF BackupFits, BackupRecord, Frozen
  <2> QED  BY <1>2, <2>2, <2>9, BackupGoesOn
<1>4. CASE DownloadSnapshot(b)
  <2>1. PICK fails \in BOOLEAN : bk' = [bk EXCEPT ![b].st = "deleting", ![b].failing = fails]
    BY <1>4 DEF DownloadSnapshot
  <2>2. me.st = "downloading" /\ UNCHANGED <<points, ingestion, registry, freezer, archive>>
    BY <1>4 DEF DownloadSnapshot
  <2> DEFINE q == [me EXCEPT !.st = "deleting", !.failing = fails]
  <2>3. bk' = [bk EXCEPT ![b] = q]
    BY <1>1, <2>1
  <2>4. /\ q = [f \in BackupFields |-> q[f]] /\ q.st = "deleting" /\ q.todo = me.todo /\ q.kept = me.kept
    BY <1>1 DEF BackupFields
  <2> HIDE DEF q
  <2>5. BackupFits(q, b, freezer, ingestion, registry)
    BY <1>1, <2>2, <2>4 DEF BackupFits, BackupRecord, Frozen
  <2> QED  BY <2>2, <2>3, <2>5, BackupGoesOn
<1>5. CASE DeleteSnapshot(b)
  <2> DEFINE q == [me EXCEPT !.st = "saving", !.todo = Tail(me.todo)]
  <2>1. me.st = "deleting"
    BY <1>5 DEF DeleteSnapshot
  <2>2. \/ EndBackup(b, "backup_write_failed") /\ archive' = archive
        \/ /\ bk' = [bk EXCEPT ![b] = q]
           /\ UNCHANGED <<points, ingestion, registry, freezer, archive>>
    BY <1>1, <1>5 DEF DeleteSnapshot
  <2>3. /\ q = [f \in BackupFields |-> q[f]] /\ q.st = "saving" /\ q.todo = Tail(me.todo) /\ q.kept = me.kept
    BY <1>1 DEF BackupFields
  <2> HIDE DEF q
  <2>4. me.todo # <<>> /\ \E k \in DOMAIN me.kept : me.kept[k].collection = Head(me.todo)
    BY <1>1, <2>1 DEF BackupFits
  <2> DEFINE t == me.todo  n == Len(me.todo)
  <2>5. /\ Tail(t) \in Seq(Collections) /\ n \in Nat \ {0} /\ Head(t) = t[1] /\ DOMAIN t = 1..n
        /\ DOMAIN Tail(t) = 1..(n - 1) /\ \A i \in 1..(n - 1) : Tail(t)[i] = t[i + 1]
    BY <1>1, <2>4
  <2>6. \A k \in DOMAIN t : k = 1 \/ (k - 1 \in DOMAIN Tail(t) /\ Tail(t)[k - 1] = t[k])
    BY <2>5
  <2>7. ASSUME NEW p \in ingestion PROVE SavedOrListed(p, q.kept, q.todo)
    <3>1. SavedOrListed(p, me.kept, t)
      BY <1>1, <2>1 DEF BackupFits, Frozen
    <3> HIDE DEF t
    <3>2. q.kept = me.kept /\ q.todo = Tail(t)
      BY <2>3 DEF t
    <3>3. Head(t) = t[1] /\ \E k \in DOMAIN q.kept : q.kept[k].collection = Head(t)
      BY <2>4, <2>5, <3>2 DEF t
    <3>4. \A k \in DOMAIN t : k = 1 \/ (k - 1 \in DOMAIN q.todo /\ q.todo[k - 1] = t[k])
      BY ONLY <2>6, <3>2
    <3>5. SavedOrListed(p, q.kept, t)
      BY ONLY <3>1, <3>2
    <3>6. \/ \E k \in DOMAIN q.kept : q.kept[k].collection = CollectionOf(p)
          \/ \E k \in DOMAIN q.todo : q.todo[k] = CollectionOf(p)
      BY ONLY <3>3, <3>4, <3>5 DEF SavedOrListed
    <3> QED  BY ONLY <3>5, <3>6 DEF SavedOrListed
  <2>8. BackupFits(q, b, freezer, ingestion, registry)
    BY <1>1, <2>1, <2>3, <2>5, <2>7 DEF BackupFits, BackupRecord, Frozen
  <2> QED  BY <1>2, <2>2, <2>8, BackupGoesOn
<1> QED  BY <1>3, <1>4, <1>5

LEMMA CopyStep ==
    ASSUME MomentInv, NEW b \in Backups,
           CopyIngestion(b) \/ CopyRegistry(b) \/ CommitBackup(b) \/ BackupFails(b) \/ BackupStops(b)
    PROVE  MomentInv'
<1> DEFINE me == bk[b]
<1>1. /\ BackupFits(me, b, freezer, ingestion, registry) /\ BackupRecord(me)
      /\ me = [f \in BackupFields |-> me[f]] /\ bk = [x \in Backups |-> bk[x]] /\ ArchiveFits(archive)
  BY DEF MomentInv, BackupFits, BackupRecord
<1>2. CASE CopyIngestion(b)
  <2> DEFINE q == [me EXCEPT !.st = "half_copied", !.ingestion = ingestion]
  <2>1. /\ me.st = "saving" /\ me.todo = <<>> /\ bk' = [bk EXCEPT ![b] = q]
        /\ UNCHANGED <<points, ingestion, registry, freezer, archive>>
    BY <1>1, <1>2 DEF CopyIngestion
  <2>2. /\ q = [f \in BackupFields |-> q[f]] /\ q.st = "half_copied" /\ q.todo = me.todo
        /\ q.kept = me.kept /\ q.ingestion = ingestion
    BY <1>1 DEF BackupFields
  <2> HIDE DEF q
  <2>3. BackupFits(q, b, freezer, ingestion, registry)
    BY <1>1, <2>1, <2>2 DEF BackupFits, BackupRecord, Frozen
  <2> QED  BY <2>1, <2>3, BackupGoesOn
<1>3. CASE CopyRegistry(b)
  <2> DEFINE q == [me EXCEPT !.st = "copied", !.registry = registry]
  <2>1. /\ me.st = "half_copied" /\ bk' = [bk EXCEPT ![b] = q]
        /\ UNCHANGED <<points, ingestion, registry, freezer, archive>>
    BY <1>1, <1>3 DEF CopyRegistry
  <2>2. /\ q = [f \in BackupFields |-> q[f]] /\ q.st = "copied" /\ q.todo = me.todo
        /\ q.kept = me.kept /\ q.ingestion = me.ingestion /\ q.registry = registry
    BY <1>1 DEF BackupFields
  <2> HIDE DEF q
  <2>3. BackupFits(q, b, freezer, ingestion, registry)
    BY <1>1, <2>1, <2>2 DEF BackupFits, BackupRecord, Frozen
  <2> QED  BY <2>1, <2>3, BackupGoesOn
<1>4. CASE CommitBackup(b)
  <2> DEFINE a == [made |-> TRUE, identity |-> me.identity, ingestion |-> me.ingestion,
                   registry |-> me.registry, collections |-> me.kept]
  <2>1. /\ me.st = "copied"
        /\ \/ EndBackup(b, "backup_write_failed") /\ archive' = archive
           \/ EndBackup(b, "committed") /\ archive' = a
    <3>1. CASE archive.made
      BY <1>4, <3>1, Zenon DEF CommitBackup
    <3>2. CASE ~archive.made
      BY <1>4, <3>2, Zenon DEF CommitBackup
    <3> QED  BY <3>1, <3>2
  <2>2. /\ me.todo = <<>> /\ me.ingestion = ingestion /\ me.registry = registry
        /\ \A p \in ingestion : SavedOrListed(p, me.kept, <<>>)
    BY <1>1, <2>1 DEF BackupFits, Frozen
  <2>3. /\ a.collections = me.kept /\ a.ingestion = ingestion /\ a.registry = registry
    BY <2>2
  <2> HIDE DEF a
  <2>4. ArchiveFits(a)
    BY <1>1, <2>2, <2>3 DEF ArchiveFits, BackupRecord, MomentInv
  <2> QED  BY <1>1, <2>1, <2>4, EndKeeps
<1>5. CASE BackupFails(b) \/ BackupStops(b)
  BY <1>1, <1>5, EndKeeps DEF BackupFails, BackupStops
<1> QED  BY <1>2, <1>3, <1>4, <1>5

\* The processes beside a backup change a database only while nobody holds its lock.
LEMMA BesideStep ==
    ASSUME MomentInv, NEW p \in Publications,
           Stage(p) \/ CommitPublication(p) \/ Consume(p) \/ CollectStaging(p)
    PROVE  MomentInv'
<1>1. UNCHANGED <<freezer, bk, archive>>
  BY DEF Stage, CommitPublication, Consume, CollectStaging
<1>2. registry' \subseteq ingestion' /\ ingestion' \subseteq points' /\ points' \subseteq Publications
  BY DEF Stage, CommitPublication, Consume, CollectStaging, MomentInv
<1>3. \/ ingestion' = ingestion /\ registry' = registry
      \/ freezer.ingestion = Nobody /\ registry' = registry
      \/ freezer.registry = Nobody /\ ingestion' = ingestion
  BY DEF Stage, CommitPublication, Consume, CollectStaging
<1>4. ASSUME NEW b \in Backups PROVE BackupFits(bk[b], b, freezer, ingestion', registry')
  <2>1. b # Nobody /\ BackupFits(bk[b], b, freezer, ingestion, registry)
    BY BackupAssumption DEF MomentInv
  <2>2. CASE ingestion' = ingestion /\ registry' = registry
    BY <2>1, <2>2
  <2>3. CASE freezer.ingestion = Nobody \/ freezer.registry = Nobody
    <3>1. bk[b].st \notin Frozen
      BY <2>1, <2>3 DEF BackupFits
    <3> QED  BY <2>1, <3>1 DEF BackupFits, Frozen
  <2> QED  BY <1>3, <2>2, <2>3
<1> QED  BY <1>1, <1>2, <1>4 DEF MomentInv

\* The locks of a backup keep both databases as they were when it took them, and
\* what it has saved contains what they publish (createStateBackup).
THEOREM BackupInvariant == BackupSpec => []MomentInv
<1>1. BackupInit => MomentInv
  <2> SUFFICES ASSUME BackupInit PROVE MomentInv
    OBVIOUS
  <2>1. \A b \in Backups : BackupFits(Waiting, b, freezer, ingestion, registry)
    BY WaitingFits DEF BackupFits, Frozen
  <2>2. ArchiveFits(NoArchive)
    BY DEF ArchiveFits, NoArchive
  <2>3. freezer = [d \in {"ingestion", "registry"} |-> freezer[d]]
    BY DEF BackupInit
  <2> QED  BY <2>1, <2>2, <2>3 DEF BackupInit, MomentInv
<1>2. MomentInv /\ [BackupNext]_stateVars => MomentInv'
  <2> SUFFICES ASSUME MomentInv, [BackupNext]_stateVars PROVE MomentInv'
    OBVIOUS
  <2>1. ASSUME UNCHANGED <<points, ingestion, registry, freezer, bk, archive>> PROVE MomentInv'
    BY <2>1 DEF MomentInv
  <2>2. ASSUME BeginRestore \/ Preflight \/ Upload \/ Confirm \/ Probe \/ Undo \/ CommitRestore
               \/ RestoreStops \/ \E c \in Collections : LateUpload(c)
        PROVE  MomentInv'
    BY <2>1, <2>2 DEF BeginRestore, Preflight, Upload, Confirm, Probe, Undo, CommitRestore,
                      RestoreStops, LateUpload, backupVars
  <2>3. ASSUME NEW part \in Parts, Damage(part) PROVE MomentInv'
    BY <2>1, <2>3 DEF Damage
  <2>4. CASE UNCHANGED stateVars
    BY <2>1, <2>4 DEF stateVars
  <2>5. CASE BackupNext
    BY <2>2, <2>3, <2>5, BesideStep, LockStep, SaveStep, CopyStep DEF BackupNext
  <2> QED  BY <2>4, <2>5
<1> QED  BY <1>1, <1>2, PTL DEF BackupSpec

\* A backup that was committed is a state the system was in: its registry knows
\* nothing its ingestion database does not, and the records of all that was
\* published are in its collections.
THEOREM BackupIsConsistent == BackupSpec => []BackupIsOneMoment
<1>1. MomentInv => BackupIsOneMoment
  <2> SUFFICES ASSUME MomentInv, archive.made
               PROVE  /\ archive.registry \subseteq archive.ingestion
                      /\ \A p \in archive.ingestion : \E k \in DOMAIN archive.collections :
                           /\ archive.collections[k].collection = CollectionOf(p)
                           /\ p \in archive.collections[k].points
    BY DEF BackupIsOneMoment
  <2>1. /\ archive.registry \subseteq archive.ingestion
        /\ \A p \in archive.ingestion : SavedOrListed(p, archive.collections, <<>>)
    BY DEF MomentInv, ArchiveFits
  <2>2. DOMAIN <<>> = {}
    OBVIOUS
  <2> QED  BY <2>1, <2>2 DEF SavedOrListed
<1> QED  BY <1>1, BackupInvariant, PTL

-----------------------------------------------------------------------------
(* Restore                                                                 *)

RestoreFields == {"st", "created", "todo", "found", "stray", "reported", "why"}

\* Collections the archive holds.
Restorable == {archive.collections[k].collection : k \in DOMAIN archive.collections}

Listed(s) == {s[k] : k \in DOMAIN s}

\* Where a collection of the server may be without being reported: it was there
\* before, an upload nobody waited for made it, it is on the list to undo, or the
\* upload that may have made it is being looked into.
Accounted(q, c) == \/ c \in q.found \/ c \in q.stray \/ c \in Listed(q.created)
                   \/ q.st = "probing" /\ c = Head(q.todo)

\* A restore q that is under way, with server tg.
RestoreAt(q, tg) ==
    /\ q.todo \in Seq(Restorable) /\ q.created \in Seq(Restorable)
    /\ \A c \in q.found : c \in Collections /\ tg[c] # Absent
    /\ q.st = "looking" => \A c \in Restorable : c \in Listed(q.todo) \/ c \notin q.found
    /\ q.st \in {"uploading", "confirming", "probing", "undoing"} => \A c \in Restorable : c \notin q.found
    /\ q.st \in {"uploading", "confirming"} =>
         \A c \in Restorable : c \in Listed(q.todo) \/ tg[c] = SavedPoints(c)
    /\ q.st \in {"confirming", "probing"} => q.todo # <<>>
    /\ q.st = "confirming" => tg[Head(q.todo)] = SavedPoints(Head(q.todo))
    /\ q.st # "ended" /\ ~q.reported => \A c \in Collections : tg[c] = Absent \/ Accounted(q, c)
    /\ q.st = "ended" /\ q.why = "restored" => \A c \in Restorable : tg[c] = SavedPoints(c)
    /\ q.st = "ended" /\ q.why = "restore_write_failed" /\ ~q.reported =>
         \A c \in Collections : tg[c] = Absent \/ c \in q.found \/ c \in q.stray

RestoreInv ==
    /\ target = [c \in Collections |-> target[c]]
    /\ \A c \in late : archive.made /\ c \in Restorable
    /\ rs = [f \in RestoreFields |-> rs[f]]
    /\ rs.st # "idle" => archive.made /\ RestoreAt(rs, target)
    /\ rs.st = "ended" /\ rs.why = "restored" => home

LEMMA TailLists ==
    ASSUME NEW S, NEW s \in Seq(S), s # <<>>
    PROVE  /\ Head(s) \in S /\ Tail(s) \in Seq(S)
           /\ \A c : c \in Listed(s) <=> c = Head(s) \/ c \in Listed(Tail(s))
<1> DEFINE n == Len(s)  t == Tail(s)
<1>1. /\ t \in Seq(S) /\ n \in Nat \ {0} /\ Head(s) = s[1] /\ DOMAIN s = 1..n /\ s[1] \in S
      /\ DOMAIN t = 1..(n - 1) /\ \A i \in 1..(n - 1) : t[i] = s[i + 1]
  OBVIOUS
<1> HIDE DEF t
<1>2. \A k \in DOMAIN s : k = 1 \/ (k - 1 \in DOMAIN t /\ t[k - 1] = s[k])
  BY <1>1
<1>3. \A k \in DOMAIN t : k + 1 \in DOMAIN s /\ t[k] = s[k + 1]
  BY <1>1
<1>4. 1 \in DOMAIN s
  BY <1>1
<1>5. Head(s) \in S /\ t \in Seq(S) /\ \A c : c \in Listed(s) <=> c = Head(s) \/ c \in Listed(t)
  BY <1>1, <1>2, <1>3, <1>4 DEF Listed
<1> QED  BY <1>5 DEF t

LEMMA FrontLists ==
    ASSUME NEW S, NEW s \in Seq(S), s # <<>>
    PROVE  /\ s[Len(s)] \in S /\ SubSeq(s, 1, Len(s) - 1) \in Seq(S)
           /\ \A c : c \in Listed(s) <=> c = s[Len(s)] \/ c \in Listed(SubSeq(s, 1, Len(s) - 1))
<1> DEFINE n == Len(s)  f == SubSeq(s, 1, n - 1)
<1>1. /\ n \in Nat \ {0} /\ DOMAIN s = 1..n /\ s[n] \in S
      /\ f \in Seq(S) /\ DOMAIN f = 1..(n - 1) /\ \A i \in 1..(n - 1) : f[i] = s[i]
  OBVIOUS
<1> HIDE DEF f
<1>2. \A k \in DOMAIN s : k = n \/ (k \in DOMAIN f /\ f[k] = s[k])
  BY <1>1
<1>3. \A k \in DOMAIN f : k \in DOMAIN s /\ f[k] = s[k]
  BY <1>1
<1>4. n \in DOMAIN s
  BY <1>1
<1>5. s[n] \in S /\ f \in Seq(S) /\ \A c : c \in Listed(s) <=> c = s[n] \/ c \in Listed(f)
  BY <1>1, <1>2, <1>3, <1>4 DEF Listed
<1> QED  BY <1>5 DEF f

LEMMA AppendLists ==
    ASSUME NEW S, NEW s \in Seq(S), NEW x \in S
    PROVE  /\ Append(s, x) \in Seq(S)
           /\ \A c : c \in Listed(Append(s, x)) <=> c = x \/ c \in Listed(s)
<1> DEFINE n == Len(s)  f == Append(s, x)
<1>1. /\ n \in Nat /\ DOMAIN s = 1..n /\ f \in Seq(S) /\ DOMAIN f = 1..(n + 1) /\ f[n + 1] = x
      /\ \A i \in 1..n : f[i] = s[i]
  OBVIOUS
<1> HIDE DEF f
<1>2. \A k \in DOMAIN f : k = n + 1 \/ (k \in DOMAIN s /\ f[k] = s[k])
  BY <1>1
<1>3. \A k \in DOMAIN s : k \in DOMAIN f /\ f[k] = s[k]
  BY <1>1
<1>4. n + 1 \in DOMAIN f
  BY <1>1
<1>5. f \in Seq(S) /\ \A c : c \in Listed(f) <=> c = x \/ c \in Listed(s)
  BY <1>1, <1>2, <1>3, <1>4 DEF Listed
<1> QED  BY <1>5 DEF f

\* What the archive holds of a collection, and that it is there for whatever was
\* published.
LEMMA SavedHolds ==
    ASSUME archive.made, ArchiveFits(archive)
    PROVE  /\ \A c \in Restorable : c \in Collections /\ SavedPoints(c) # Absent
           /\ \A p \in archive.ingestion : /\ CollectionOf(p) \in Restorable
                                           /\ p \in SavedPoints(CollectionOf(p))
           /\ RestoreTargets \in Seq(Restorable)
           /\ \A c \in Restorable : c \in Listed(RestoreTargets)
<1> DEFINE a == archive.collections
<1>1. a \in Seq(SavedCollections) /\ \A p \in archive.ingestion : SavedOrListed(p, a, <<>>)
  BY DEF ArchiveFits
<1>2. /\ Len(a) \in Nat /\ DOMAIN a = 1..Len(a)
      /\ \A k \in DOMAIN a : a[k].collection \in Collections /\ a[k].points \subseteq Publications
  <2>1. \A k \in DOMAIN a : a[k] \in SavedCollections
    BY <1>1
  <2> QED  BY <1>1, <2>1 DEF SavedCollections
<1>3. 0 \notin Publications
  BY CollectionType
<1>4. ASSUME NEW c \in Restorable
      PROVE  \E k \in DOMAIN a : a[k].collection = c /\ SavedPoints(c) = a[k].points
  <2> DEFINE k == CHOOSE x \in DOMAIN a : a[x].collection = c
  <2>1. \E x \in DOMAIN a : a[x].collection = c
    BY <1>4 DEF Restorable
  <2>2. k \in DOMAIN a /\ a[k].collection = c
    BY <2>1, Zenon
  <2>3. SavedPoints(c) = a[k].points
    BY DEF SavedPoints
  <2> QED  BY <2>2, <2>3
<1>5. \A c \in Restorable : c \in Collections /\ SavedPoints(c) # Absent
  BY <1>2, <1>3, <1>4 DEF Absent
<1>6. ASSUME NEW p \in archive.ingestion
      PROVE  CollectionOf(p) \in Restorable /\ p \in SavedPoints(CollectionOf(p))
  <2>1. SavedOrListed(p, a, <<>>) /\ DOMAIN <<>> = {}
    BY <1>1
  <2>2. CollectionOf(p) \in Restorable
    BY <2>1 DEF SavedOrListed, Restorable
  <2> QED  BY <1>4, <2>1, <2>2 DEF SavedOrListed
<1>7. RestoreTargets \in Seq(Restorable)
  <2>1. \A k \in 1..Len(a) : a[k].collection \in Restorable
    BY <1>2 DEF Restorable
  <2>2. RestoreTargets = [k \in 1..Len(a) |-> a[k].collection]
    BY <1>2 DEF RestoreTargets
  <2> QED  BY <1>2, <2>1, <2>2
<1>8. \A c \in Restorable : c \in Listed(RestoreTargets)
  BY DEF Restorable, Listed, RestoreTargets
<1> QED  BY <1>5, <1>6, <1>7, <1>8

\* What the restores and the server know is kept when only rs moves to q.
LEMMA RestoreGoesOn ==
    ASSUME RestoreInv, NEW q, rs' = q, UNCHANGED <<archive, target, late, home>>,
           q = [f \in RestoreFields |-> q[f]], archive.made, RestoreAt(q, target),
           q.st = "ended" => q.why # "restored"
    PROVE  RestoreInv'
<1>1. RestoreAt(q, target) <=> RestoreAt(rs, target)'
  BY DEF RestoreAt, Accounted, Listed, Restorable, SavedPoints
<1> HIDE DEF RestoreAt
<1> QED  BY <1>1 DEF RestoreInv, Restorable

LEMMA BeginRestoreStep ==
    ASSUME RestoreInv, MomentInv, BeginRestore
    PROVE  RestoreInv'
<1> DEFINE probed == {c \in Collections : target[c] # Absent}
           refused(why) == [NoRestore EXCEPT !.st = "ended", !.why = why]
           q == [NoRestore EXCEPT !.st = "looking", !.todo = RestoreTargets, !.found = probed]
<1>1. /\ archive.made /\ UNCHANGED <<archive, target, late, home>>
      /\ \/ \E identity \in Identities : rs' = refused(Refused(identity))
         \/ rs' = q
  BY DEF BeginRestore, backupVars
<1>2. RestoreTargets \in Seq(Restorable) /\ \A c \in Restorable : c \in Listed(RestoreTargets)
  BY <1>1, SavedHolds DEF MomentInv
<1>3. ASSUME NEW identity \in Identities, rs' = refused(Refused(identity)) PROVE RestoreInv'
  <2> DEFINE why == Refused(identity)  e == refused(why)
  <2>1. why # "restored" /\ why # "restore_write_failed"
    BY DEF Refused
  <2> HIDE DEF why
  <2>2. /\ e = [f \in RestoreFields |-> e[f]] /\ e.st = "ended" /\ e.why = why /\ e.todo = <<>>
        /\ e.created = <<>> /\ e.found = {}
    BY DEF NoRestore, RestoreFields
  <2>3. rs' = e
    BY <1>3 DEF why
  <2> HIDE DEF e
  <2>4. e.todo \in Seq(Restorable) /\ e.created \in Seq(Restorable)
    BY <2>2, EmptySeq
  <2>5. RestoreAt(e, target)
    BY <2>1, <2>2, <2>4 DEF RestoreAt
  <2> QED  BY <1>1, <2>1, <2>2, <2>3, <2>5, RestoreGoesOn
<1>4. CASE rs' = q
  <2>1. /\ q = [f \in RestoreFields |-> q[f]] /\ q.st = "looking" /\ q.todo = RestoreTargets
        /\ q.created = <<>> /\ q.found = probed
    BY DEF NoRestore, RestoreFields
  <2>2. \A c \in Collections : target[c] = Absent \/ c \in probed
    OBVIOUS
  <2>3. \A c \in probed : c \in Collections /\ target[c] # Absent
    OBVIOUS
  <2>4. rs' = q
    BY <1>4
  <2> HIDE DEF q, probed
  <2>5. q.todo \in Seq(Restorable) /\ q.created \in Seq(Restorable)
    BY <1>2, <2>1, EmptySeq
  <2>6. RestoreAt(q, target)
    BY <1>2, <2>1, <2>2, <2>3, <2>5 DEF RestoreAt, Accounted
  <2> QED  BY <1>1, <2>1, <2>4, <2>6, RestoreGoesOn
<1> QED  BY <1>1, <1>3, <1>4

LEMMA PreflightStep ==
    ASSUME RestoreInv, MomentInv, Preflight
    PROVE  RestoreInv'
<1> DEFINE on == [rs EXCEPT !.st = "uploading", !.todo = RestoreTargets]
           out == [rs EXCEPT !.st = "ended", !.why = "collection_already_exists"]
           next == [rs EXCEPT !.todo = Tail(rs.todo)]
<1>1. /\ rs.st = "looking" /\ UNCHANGED <<archive, target, late, home>>
      /\ \/ rs.todo = <<>> /\ rs' = on
         \/ rs' = out
         \/ rs.todo # <<>> /\ target[Head(rs.todo)] = Absent /\ rs' = next
  BY DEF Preflight, backupVars
<1>2. archive.made /\ RestoreAt(rs, target) /\ rs = [f \in RestoreFields |-> rs[f]]
  BY <1>1 DEF RestoreInv
<1>3. RestoreTargets \in Seq(Restorable) /\ \A c \in Restorable : c \in Listed(RestoreTargets)
  BY <1>2, SavedHolds DEF MomentInv
<1>4. CASE rs.todo = <<>> /\ rs' = on
  <2>1. /\ on = [f \in RestoreFields |-> on[f]] /\ on.st = "uploading" /\ on.todo = RestoreTargets
        /\ on.created = rs.created /\ on.found = rs.found /\ on.stray = rs.stray
        /\ (on.reported <=> rs.reported)
    BY <1>2 DEF RestoreFields
  <2>2. rs' = on /\ rs.todo = <<>>
    BY <1>4
  <2> HIDE DEF on
  <2>3. Listed(rs.todo) = {}
    BY <2>2 DEF Listed
  <2>4. RestoreAt(on, target)
    BY <1>1, <1>2, <1>3, <2>1, <2>3 DEF RestoreAt, Accounted
  <2> QED  BY <1>1, <1>2, <2>1, <2>2, <2>4, RestoreGoesOn
<1>5. CASE rs' = out
  <2>1. /\ out = [f \in RestoreFields |-> out[f]] /\ out.st = "ended" /\ out.todo = rs.todo
        /\ out.why = "collection_already_exists" /\ out.created = rs.created /\ out.found = rs.found
    BY <1>2 DEF RestoreFields
  <2>2. rs' = out
    BY <1>5
  <2> HIDE DEF out
  <2>3. RestoreAt(out, target)
    BY <1>2, <2>1 DEF RestoreAt
  <2> QED  BY <1>1, <1>2, <2>1, <2>2, <2>3, RestoreGoesOn
<1>6. CASE rs.todo # <<>> /\ target[Head(rs.todo)] = Absent /\ rs' = next
  <2>1. /\ next = [f \in RestoreFields |-> next[f]] /\ next.st = "looking" /\ next.todo = Tail(rs.todo)
        /\ next.created = rs.created /\ next.found = rs.found /\ next.stray = rs.stray
        /\ (next.reported <=> rs.reported)
    BY <1>1, <1>2 DEF RestoreFields
  <2>2. rs' = next
    BY <1>6
  <2> HIDE DEF next
  <2>3. Head(rs.todo) \notin rs.found
    BY <1>2, <1>6 DEF RestoreAt
  <2>4. rs.todo \in Seq(Restorable) /\ rs.todo # <<>>
    BY <1>2, <1>6 DEF RestoreAt
  <2>5. /\ Tail(rs.todo) \in Seq(Restorable)
        /\ \A c : c \in Listed(rs.todo) <=> c = Head(rs.todo) \/ c \in Listed(Tail(rs.todo))
    BY <2>4, TailLists
  <2>6. RestoreAt(next, target)
    BY <1>1, <1>2, <2>1, <2>3, <2>5 DEF RestoreAt, Accounted
  <2> QED  BY <1>1, <1>2, <2>1, <2>2, <2>6, RestoreGoesOn
<1> QED  BY <1>1, <1>4, <1>5, <1>6

\* The server changes, and rs moves to q.
LEMMA ServerGoesOn ==
    ASSUME RestoreInv, NEW q, NEW tg, rs' = q, target' = tg, UNCHANGED <<archive, home>>,
           \A c \in late' : archive.made /\ c \in Restorable,
           tg = [c \in Collections |-> tg[c]],
           q = [f \in RestoreFields |-> q[f]], archive.made, RestoreAt(q, tg),
           q.st = "ended" /\ q.why = "restored" => home
    PROVE  RestoreInv'
<1>1. RestoreAt(q, tg) <=> RestoreAt(rs, target)'
  BY DEF RestoreAt, Accounted, Listed, Restorable, SavedPoints
<1> HIDE DEF RestoreAt
<1> QED  BY <1>1 DEF RestoreInv, Restorable

LEMMA UploadStep ==
    ASSUME RestoreInv, MomentInv, Upload
    PROVE  RestoreInv'
<1> DEFINE c == Head(rs.todo)  written == [target EXCEPT ![c] = SavedPoints(c)]
           done == [rs EXCEPT !.st = "confirming", !.created = Append(rs.created, c)]
           asked == [rs EXCEPT !.st = "probing"]
<1>1. /\ rs.st = "uploading" /\ rs.todo # <<>> /\ UNCHANGED <<archive, home>>
      /\ \/ target' = written /\ rs' = done /\ late' = late
         \/ target' \in {target, written} /\ rs' = asked /\ late' \in {late, late \cup {c}}
  BY DEF Upload, backupVars
<1>2. /\ archive.made /\ RestoreAt(rs, target) /\ rs = [f \in RestoreFields |-> rs[f]]
      /\ target = [d \in Collections |-> target[d]] /\ \A d \in late : d \in Restorable
  BY <1>1 DEF RestoreInv
<1>3. rs.todo \in Seq(Restorable) /\ rs.created \in Seq(Restorable)
  BY <1>2 DEF RestoreAt
<1>4. c \in Restorable /\ \A d \in late' : d \in Restorable
  BY <1>1, <1>2, <1>3, TailLists
<1>5. c \in Collections /\ SavedPoints(c) # Absent
  BY <1>2, <1>4, SavedHolds DEF MomentInv
<1> HIDE DEF c
<1>6. /\ written = [d \in Collections |-> written[d]] /\ written[c] = SavedPoints(c)
      /\ \A d \in Collections : d # c => written[d] = target[d]
  BY <1>2, <1>5
<1>7. \A d \in Restorable : d \in Collections
  BY <1>2, SavedHolds DEF MomentInv
<1>8. CASE target' = written /\ rs' = done /\ late' = late
  <2>1. /\ Append(rs.created, c) \in Seq(Restorable)
        /\ \A d : d \in Listed(Append(rs.created, c)) <=> d = c \/ d \in Listed(rs.created)
    BY <1>3, <1>4, AppendLists
  <2>2. /\ done = [f \in RestoreFields |-> done[f]] /\ done.st = "confirming" /\ done.todo = rs.todo
        /\ done.created = Append(rs.created, c) /\ done.found = rs.found /\ done.stray = rs.stray
        /\ (done.reported <=> rs.reported)
    BY <1>2 DEF RestoreFields
  <2>3. rs' = done /\ target' = written
    BY <1>8
  <2> HIDE DEF done, written
  <2>4. RestoreAt(done, written)
    <3>1. \A d \in done.found : d \in Collections /\ written[d] # Absent
      BY <1>2, <1>5, <1>6, <2>2 DEF RestoreAt
    <3>2. \A d \in Restorable : d \notin done.found
      BY <1>1, <1>2, <2>2 DEF RestoreAt
    <3>3. \A d \in Restorable : d \in Listed(done.todo) \/ written[d] = SavedPoints(d)
      <4>1. \A d \in Restorable : d \in Listed(rs.todo) \/ target[d] = SavedPoints(d)
        BY ONLY <1>1, <1>2 DEF RestoreAt
      <4>2. Listed(done.todo) = Listed(rs.todo)
        BY ONLY <2>2
      <4> QED  BY ONLY <1>6, <1>7, <4>1, <4>2
    <3>4. \A d \in Collections : ~done.reported => written[d] = Absent \/ Accounted(done, d)
      BY <1>1, <1>2, <1>6, <2>1, <2>2 DEF RestoreAt, Accounted
    <3>5. done.todo # <<>> /\ written[Head(done.todo)] = SavedPoints(Head(done.todo))
      BY <1>1, <1>6, <2>2 DEF c
    <3> QED  BY <1>3, <2>1, <2>2, <3>1, <3>2, <3>3, <3>4, <3>5 DEF RestoreAt
  <2> QED  BY <1>1, <1>2, <1>4, <1>6, <2>2, <2>3, <2>4, ServerGoesOn
<1>9. CASE target' \in {target, written} /\ rs' = asked
  <2>1. /\ asked = [f \in RestoreFields |-> asked[f]] /\ asked.st = "probing" /\ asked.todo = rs.todo
        /\ asked.created = rs.created /\ asked.found = rs.found /\ asked.stray = rs.stray
        /\ (asked.reported <=> rs.reported)
    BY <1>2 DEF RestoreFields
  <2>2. rs' = asked /\ target' \in {target, written}
    BY <1>9
  <2> HIDE DEF asked, written
  <2>3. RestoreAt(asked, written)
    <3>1. \A d \in asked.found : d \in Collections /\ written[d] # Absent
      BY <1>2, <1>5, <1>6, <2>1 DEF RestoreAt
    <3>2. \A d \in Restorable : d \notin asked.found
      BY <1>1, <1>2, <2>1 DEF RestoreAt
    <3>3. \A d \in Collections : ~asked.reported => written[d] = Absent \/ Accounted(asked, d)
      BY <1>1, <1>2, <1>6, <2>1 DEF RestoreAt, Accounted, c
    <3> QED  BY <1>1, <1>3, <2>1, <3>1, <3>2, <3>3 DEF RestoreAt
  <2>4. RestoreAt(asked, target)
    BY <1>1, <1>2, <1>3, <1>4, <1>5, <1>7, <2>1 DEF RestoreAt, Accounted, c
  <2>5. RestoreAt(asked, target') /\ target' = [d \in Collections |-> target'[d]]
    BY <1>2, <1>6, <2>2, <2>3, <2>4
  <2> QED  BY <1>1, <1>2, <1>4, <2>1, <2>2, <2>5, ServerGoesOn
<1> QED  BY <1>1, <1>8, <1>9

LEMMA LateUploadStep ==
    ASSUME RestoreInv, MomentInv, NEW c \in Collections, LateUpload(c)
    PROVE  RestoreInv'
<1> DEFINE q == [rs EXCEPT !.stray = rs.stray \cup {c}]
           written == [target EXCEPT ![c] = SavedPoints(c)]
<1>1. /\ c \in late /\ late' = late \ {c} /\ target' = written /\ rs' = q /\ UNCHANGED <<archive, home>>
  BY DEF LateUpload, backupVars
<1>2. /\ archive.made /\ rs = [f \in RestoreFields |-> rs[f]] /\ c \in Restorable
      /\ target = [d \in Collections |-> target[d]] /\ \A d \in late' : d \in Restorable
      /\ rs.st # "idle" => RestoreAt(rs, target)
  BY <1>1 DEF RestoreInv
<1>3. SavedPoints(c) # Absent
  BY <1>2, SavedHolds DEF MomentInv
<1>4. /\ written = [d \in Collections |-> written[d]] /\ written[c] = SavedPoints(c)
      /\ \A d \in Collections : d # c => written[d] = target[d]
  BY <1>2
<1>5. \A d \in Restorable : d \in Collections
  BY <1>2, SavedHolds DEF MomentInv
<1>6. /\ q = [f \in RestoreFields |-> q[f]] /\ q.st = rs.st /\ q.todo = rs.todo
      /\ q.created = rs.created /\ q.found = rs.found /\ q.stray = rs.stray \cup {c}
      /\ (q.reported <=> rs.reported) /\ q.why = rs.why
  BY <1>2 DEF RestoreFields
<1>7. rs.st = "ended" /\ rs.why = "restored" => home
  BY DEF RestoreInv
<1> HIDE DEF q, written
<1>8. CASE rs.st = "idle"
  BY <1>1, <1>2, <1>4, <1>6, <1>8 DEF RestoreInv, Restorable
<1>9. CASE rs.st # "idle"
  <2>1. RestoreAt(rs, target)
    BY <1>2, <1>9
  <2>2. /\ q.todo \in Seq(Restorable) /\ q.created \in Seq(Restorable)
        /\ q.st \in {"confirming", "probing"} => q.todo # <<>> /\ Head(q.todo) \in Restorable
    BY <1>6, <2>1, TailLists DEF RestoreAt
  <2>3. \A d \in Restorable : target[d] = SavedPoints(d) => written[d] = SavedPoints(d)
    BY <1>4, <1>5
  <2>4. \A d \in Collections : target[d] # Absent => written[d] # Absent
    BY <1>3, <1>4
  <2>5. \A d \in Collections : written[d] # Absent /\ target[d] = Absent => d \in q.stray
    BY <1>4, <1>6
  <2>6. \A d : Accounted(rs, d) => Accounted(q, d)
    BY <1>6 DEF Accounted
  <2>7. /\ q.st # "ended" /\ ~q.reported => \A d \in Collections : written[d] = Absent \/ Accounted(q, d)
        /\ q.st = "ended" /\ q.why = "restore_write_failed" /\ ~q.reported =>
             \A d \in Collections : written[d] = Absent \/ d \in q.found \/ d \in q.stray
    BY <1>6, <2>1, <2>5, <2>6 DEF RestoreAt, Accounted
  <2>8. RestoreAt(q, written)
    BY <1>5, <1>6, <2>1, <2>2, <2>3, <2>4, <2>7 DEF RestoreAt
  <2> QED  BY <1>1, <1>2, <1>4, <1>6, <1>7, <2>8, ServerGoesOn
<1> QED  BY <1>8, <1>9

LEMMA ConfirmStep ==
    ASSUME RestoreInv, MomentInv, Confirm \/ CommitRestore
    PROVE  RestoreInv'
<1> DEFINE next == [rs EXCEPT !.st = "uploading", !.todo = Tail(rs.todo)]
           undo == [rs EXCEPT !.st = "undoing"]
           done == [NoRestore EXCEPT !.st = "ended", !.why = "restored"]
<1>1. /\ UNCHANGED <<archive, target, late>>
      /\ \/ rs.st = "confirming" /\ rs' = next /\ home' = home
         \/ rs.st \in {"confirming", "uploading"} /\ rs' = undo /\ home' = home
         \/ rs.st = "uploading" /\ rs.todo = <<>> /\ home' = TRUE /\ rs' = done
  BY DEF Confirm, CommitRestore, backupVars
<1>2. /\ archive.made /\ RestoreAt(rs, target) /\ rs = [f \in RestoreFields |-> rs[f]]
      /\ target = [d \in Collections |-> target[d]] /\ \A d \in late : d \in Restorable
  BY <1>1 DEF RestoreInv
<1>3. CASE rs.st = "confirming" /\ rs' = next /\ home' = home
  <2>1. /\ next = [f \in RestoreFields |-> next[f]] /\ next.st = "uploading" /\ next.todo = Tail(rs.todo)
        /\ next.created = rs.created /\ next.found = rs.found /\ next.stray = rs.stray
        /\ (next.reported <=> rs.reported)
    BY <1>2 DEF RestoreFields
  <2>2. rs' = next /\ rs.st = "confirming" /\ home' = home
    BY <1>3
  <2> HIDE DEF next
  <2>3. rs.todo \in Seq(Restorable) /\ rs.todo # <<>>
    BY <1>2, <2>2 DEF RestoreAt
  <2>4. /\ Tail(rs.todo) \in Seq(Restorable)
        /\ \A c : c \in Listed(rs.todo) <=> c = Head(rs.todo) \/ c \in Listed(Tail(rs.todo))
    BY <2>3, TailLists
  <2>5. RestoreAt(next, target)
    BY <1>2, <2>1, <2>2, <2>4 DEF RestoreAt, Accounted
  <2> QED  BY <1>1, <1>2, <2>1, <2>2, <2>5, RestoreGoesOn
<1>4. CASE rs.st \in {"confirming", "uploading"} /\ rs' = undo /\ home' = home
  <2>1. /\ undo = [f \in RestoreFields |-> undo[f]] /\ undo.st = "undoing" /\ undo.todo = rs.todo
        /\ undo.created = rs.created /\ undo.found = rs.found /\ undo.stray = rs.stray
        /\ (undo.reported <=> rs.reported)
    BY <1>2 DEF RestoreFields
  <2>2. rs' = undo /\ rs.st \in {"confirming", "uploading"} /\ home' = home
    BY <1>4
  <2> HIDE DEF undo
  <2>3. RestoreAt(undo, target)
    BY <1>2, <2>1, <2>2 DEF RestoreAt, Accounted
  <2> QED  BY <1>1, <1>2, <2>1, <2>2, <2>3, RestoreGoesOn
<1>5. CASE rs.st = "uploading" /\ rs.todo = <<>> /\ home' = TRUE /\ rs' = done
  <2>1. /\ done = [f \in RestoreFields |-> done[f]] /\ done.st = "ended" /\ done.todo = <<>>
        /\ done.created = <<>> /\ done.found = {} /\ done.why = "restored"
    BY DEF RestoreFields, NoRestore
  <2>2. rs' = done /\ rs.st = "uploading" /\ rs.todo = <<>> /\ home'
    BY <1>5
  <2> HIDE DEF done
  <2>3. done.todo \in Seq(Restorable) /\ done.created \in Seq(Restorable)
    BY <2>1, EmptySeq
  <2>4. Listed(rs.todo) = {}
    BY <2>2 DEF Listed
  <2>5. RestoreAt(done, target)
    BY <1>2, <2>1, <2>2, <2>3, <2>4 DEF RestoreAt
  <2>6. RestoreAt(done, target) <=> RestoreAt(rs, target)'
    BY <1>1, <2>2 DEF RestoreAt, Accounted, Listed, Restorable, SavedPoints
  <2> QED  BY <1>1, <1>2, <2>1, <2>2, <2>5, <2>6 DEF RestoreInv, Restorable
<1> QED  BY <1>1, <1>3, <1>4, <1>5

LEMMA ProbeStep ==
    ASSUME RestoreInv, MomentInv, Probe
    PROVE  RestoreInv'
<1> DEFINE c == Head(rs.todo)
           probed == IF target[c] # Absent THEN Append(rs.created, c) ELSE rs.created
           q == [rs EXCEPT !.st = "undoing", !.created = probed]
           r == [rs EXCEPT !.st = "undoing", !.reported = TRUE]
<1>1. rs.st = "probing" /\ (rs' = q \/ rs' = r) /\ UNCHANGED <<archive, target, late, home>>
  BY DEF Probe, backupVars
<1>2. archive.made /\ RestoreAt(rs, target) /\ rs = [f \in RestoreFields |-> rs[f]]
  BY <1>1 DEF RestoreInv
<1>3. rs.todo \in Seq(Restorable) /\ rs.todo # <<>> /\ rs.created \in Seq(Restorable)
  BY <1>1, <1>2 DEF RestoreAt
<1>4. c \in Restorable
  BY <1>3, TailLists
<1> HIDE DEF c
<1>5. /\ probed \in Seq(Restorable) /\ \A d : d \in Listed(rs.created) => d \in Listed(probed)
      /\ target[c] # Absent => c \in Listed(probed)
  BY <1>3, <1>4, AppendLists
<1> HIDE DEF probed
<1>6. CASE rs' = q
  <2>1. /\ q = [f \in RestoreFields |-> q[f]] /\ q.st = "undoing" /\ q.todo = rs.todo
        /\ q.created = probed /\ q.found = rs.found /\ q.stray = rs.stray
        /\ (q.reported <=> rs.reported)
    BY <1>2 DEF RestoreFields
  <2>2. rs' = q
    BY <1>6
  <2> HIDE DEF q
  <2>3. RestoreAt(q, target)
    BY <1>1, <1>2, <1>5, <2>1 DEF RestoreAt, Accounted, c
  <2> QED  BY <1>1, <1>2, <2>1, <2>2, <2>3, RestoreGoesOn
<1>7. CASE rs' = r
  <2>1. /\ r = [f \in RestoreFields |-> r[f]] /\ r.st = "undoing" /\ r.todo = rs.todo
        /\ r.created = rs.created /\ r.found = rs.found /\ r.reported
    BY <1>2 DEF RestoreFields
  <2>2. rs' = r
    BY <1>7
  <2> HIDE DEF r
  <2>3. RestoreAt(r, target)
    BY <1>1, <1>2, <2>1 DEF RestoreAt
  <2> QED  BY <1>1, <1>2, <2>1, <2>2, <2>3, RestoreGoesOn
<1> QED  BY <1>1, <1>6, <1>7

LEMMA UndoStep ==
    ASSUME RestoreInv, MomentInv, Undo
    PROVE  RestoreInv'
<1> DEFINE n == Len(rs.created)  c == rs.created[n]  front == SubSeq(rs.created, 1, n - 1)
           gone == [target EXCEPT ![c] = Absent]
           out == [rs EXCEPT !.st = "ended", !.why = "restore_write_failed"]
           rest == [rs EXCEPT !.created = front]
           told == [rest EXCEPT !.reported = TRUE]
<1>1. /\ rs.st = "undoing" /\ UNCHANGED <<archive, late, home>>
      /\ \/ rs.created = <<>> /\ rs' = out /\ target' = target
         \/ rs.created # <<>> /\ rs' = rest /\ target' = gone
         \/ rs.created # <<>> /\ rs' = told /\ target' \in {target, gone}
  BY DEF Undo, backupVars
<1>2. /\ archive.made /\ RestoreAt(rs, target) /\ rs = [f \in RestoreFields |-> rs[f]]
      /\ target = [d \in Collections |-> target[d]] /\ \A d \in late : d \in Restorable
  BY <1>1 DEF RestoreInv
<1>3. rs.created \in Seq(Restorable)
  BY <1>2 DEF RestoreAt
<1>4. CASE rs.created = <<>> /\ rs' = out /\ target' = target
  <2>1. /\ out = [f \in RestoreFields |-> out[f]] /\ out.st = "ended" /\ out.todo = rs.todo
        /\ out.why = "restore_write_failed" /\ out.created = rs.created /\ out.found = rs.found
        /\ out.stray = rs.stray /\ (out.reported <=> rs.reported)
    BY <1>2 DEF RestoreFields
  <2>2. rs' = out /\ rs.created = <<>> /\ target' = target
    BY <1>4
  <2> HIDE DEF out
  <2>3. Listed(rs.created) = {}
    BY <2>2 DEF Listed
  <2>4. RestoreAt(out, target)
    BY <1>1, <1>2, <2>1, <2>3 DEF RestoreAt, Accounted
  <2> QED  BY <1>1, <1>2, <2>1, <2>2, <2>4, RestoreGoesOn
<1>5. CASE rs.created # <<>> /\ ((rs' = rest /\ target' = gone) \/ (rs' = told /\ target' \in {target, gone}))
  <2>1. /\ c \in Restorable /\ front \in Seq(Restorable)
        /\ \A d : d \in Listed(rs.created) <=> d = c \/ d \in Listed(front)
    BY <1>3, <1>5, FrontLists
  <2>2. c \in Collections /\ \A d \in Restorable : d \in Collections
    BY <1>2, <2>1, SavedHolds DEF MomentInv
  <2>3. c \notin rs.found
    BY <1>1, <1>2, <2>1 DEF RestoreAt
  <2> HIDE DEF n, c, front
  <2>4. /\ gone = [d \in Collections |-> gone[d]] /\ gone[c] = Absent
        /\ \A d \in Collections : d # c => gone[d] = target[d]
    BY <1>2, <2>2
  <2>5. /\ rest = [f \in RestoreFields |-> rest[f]] /\ rest.st = rs.st /\ rest.todo = rs.todo
        /\ rest.created = front /\ rest.found = rs.found /\ rest.stray = rs.stray
        /\ (rest.reported <=> rs.reported)
    BY <1>2 DEF RestoreFields
  <2>6. /\ told = [f \in RestoreFields |-> told[f]] /\ told.st = rs.st /\ told.todo = rs.todo
        /\ told.created = front /\ told.found = rs.found /\ told.reported
    BY <1>2 DEF RestoreFields
  <2>7. (rs' = rest /\ target' = gone) \/ (rs' = told /\ target' \in {target, gone})
    BY <1>5
  <2> HIDE DEF gone, rest, told
  <2>8. RestoreAt(rest, gone)
    BY <1>1, <1>2, <2>1, <2>2, <2>3, <2>4, <2>5 DEF RestoreAt, Accounted
  <2>9. RestoreAt(told, gone)
    BY <1>1, <1>2, <2>1, <2>2, <2>3, <2>4, <2>6 DEF RestoreAt
  <2>10. RestoreAt(told, target)
    BY <1>1, <1>2, <2>1, <2>2, <2>3, <2>6 DEF RestoreAt
  <2>11. CASE rs' = rest /\ target' = gone
    BY <1>1, <1>2, <2>4, <2>5, <2>8, <2>11, ServerGoesOn
  <2>12. CASE rs' = told /\ target' = gone
    BY <1>1, <1>2, <2>4, <2>6, <2>9, <2>12, ServerGoesOn
  <2>13. CASE rs' = told /\ target' = target
    BY <1>1, <1>2, <2>6, <2>10, <2>13, ServerGoesOn
  <2> QED  BY <2>7, <2>11, <2>12, <2>13
<1> QED  BY <1>1, <1>4, <1>5

LEMMA RestoreStopsStep ==
    ASSUME RestoreInv, MomentInv, RestoreStops
    PROVE  RestoreInv'
<1> DEFINE q == [NoRestore EXCEPT !.st = "ended", !.why = "stopped"]
<1>1. rs.st # "idle" /\ rs' = q /\ UNCHANGED <<archive, target, late, home>>
  BY DEF RestoreStops, backupVars
<1>2. archive.made
  BY <1>1 DEF RestoreInv
<1>3. /\ q = [f \in RestoreFields |-> q[f]] /\ q.st = "ended" /\ q.todo = <<>>
      /\ q.created = <<>> /\ q.found = {} /\ q.why = "stopped"
  BY DEF RestoreFields, NoRestore
<1> HIDE DEF q
<1>4. q.todo \in Seq(Restorable) /\ q.created \in Seq(Restorable)
  BY <1>3, EmptySeq
<1>5. RestoreAt(q, target)
  BY <1>3, <1>4 DEF RestoreAt
<1> QED  BY <1>1, <1>2, <1>3, <1>5, RestoreGoesOn

\* Everything else leaves the restore and the server alone, and an archive that is
\* there stays as it is.
LEMMA BesideRestore ==
    ASSUME RestoreInv, UNCHANGED <<target, late, home, rs>>, archive.made => archive' = archive
    PROVE  RestoreInv'
<1>1. CASE archive.made
  <2>1. RestoreAt(rs, target) <=> RestoreAt(rs, target)'
    BY <1>1 DEF RestoreAt, Accounted, Listed, Restorable, SavedPoints
  <2> QED  BY <1>1, <2>1 DEF RestoreInv, Restorable
<1>2. CASE ~archive.made
  <2>1. rs.st = "idle" /\ late = {}
    BY <1>2 DEF RestoreInv
  <2> QED  BY <2>1 DEF RestoreInv
<1> QED  BY <1>1, <1>2

\* A restore writes only collections that were absent when it began, knows of every
\* one it may have written, and rolls back no other (QdrantSnapshotArchive.restore).
THEOREM RestoreInvariant == BackupSpec => []RestoreInv
<1>1. BackupInit => RestoreInv
  <2> SUFFICES ASSUME BackupInit PROVE RestoreInv
    OBVIOUS
  <2>1. NoRestore = [f \in RestoreFields |-> NoRestore[f]] /\ NoRestore.st = "idle"
    BY DEF NoRestore, RestoreFields
  <2>2. target = [c \in Collections |-> target[c]]
    BY DEF BackupInit
  <2> QED  BY <2>1, <2>2 DEF BackupInit, RestoreInv
<1>2. MomentInv /\ RestoreInv /\ [BackupNext]_stateVars => RestoreInv'
  <2> SUFFICES ASSUME MomentInv, RestoreInv, [BackupNext]_stateVars PROVE RestoreInv'
    OBVIOUS
  <2>1. ASSUME NEW p \in Publications, Stage(p) \/ CommitPublication(p) \/ Consume(p) \/ CollectStaging(p)
        PROVE  RestoreInv'
    BY <2>1, BesideRestore DEF Stage, CommitPublication, Consume, CollectStaging, restoreVars
  <2>2. ASSUME NEW b \in Backups, BeginBackup(b) \/ FreezeIngestion(b) \/ FreezeRegistry(b)
        PROVE  RestoreInv'
    BY <2>2, BesideRestore DEF BeginBackup, FreezeIngestion, FreezeRegistry, EndBackup, restoreVars
  <2>3. ASSUME NEW b \in Backups, CreateSnapshot(b) \/ DownloadSnapshot(b) \/ DeleteSnapshot(b)
        PROVE  RestoreInv'
    BY <2>3, BesideRestore DEF CreateSnapshot, DownloadSnapshot, DeleteSnapshot, EndBackup, restoreVars
  <2>4. ASSUME NEW b \in Backups, CopyIngestion(b) \/ CopyRegistry(b) \/ BackupFails(b) \/ BackupStops(b)
        PROVE  RestoreInv'
    BY <2>4, BesideRestore DEF CopyIngestion, CopyRegistry, BackupFails, BackupStops, EndBackup, restoreVars
  <2>5. ASSUME NEW b \in Backups, CommitBackup(b) PROVE RestoreInv'
    BY <2>5, BesideRestore DEF CommitBackup, EndBackup, restoreVars
  <2>6. ASSUME NEW part \in Parts, Damage(part) PROVE RestoreInv'
    BY <2>6, BesideRestore DEF Damage, restoreVars
  <2>7. CASE UNCHANGED stateVars
    BY <2>7, BesideRestore DEF stateVars
  <2>8. CASE BackupNext
    BY <2>1, <2>2, <2>3, <2>4, <2>5, <2>6, <2>8, BeginRestoreStep, PreflightStep, UploadStep,
       LateUploadStep, ConfirmStep, ProbeStep, UndoStep, RestoreStopsStep DEF BackupNext
  <2> QED  BY <2>7, <2>8
<1> QED  BY <1>1, <1>2, BackupInvariant, PTL DEF BackupSpec

\* A restore ends with the home and every collection in place or, as far as it was
\* told and did not report, with neither; what was on the server before stays.
THEOREM RestoreIsWhole == BackupSpec => []RestoreAllOrNothing
<1>1. MomentInv /\ RestoreInv => RestoreAllOrNothing
  <2> SUFFICES ASSUME MomentInv, RestoreInv PROVE RestoreAllOrNothing
    OBVIOUS
  <2>1. rs.st # "idle" => archive.made /\ RestoreAt(rs, target)
    BY DEF RestoreInv
  <2>2. ASSUME rs.st = "ended", rs.why = "restored"
        PROVE  home /\ \A p \in archive.ingestion : p \in target[CollectionOf(p)]
    BY <2>1, <2>2, SavedHolds DEF RestoreInv, RestoreAt, MomentInv
  <2>3. ASSUME rs.st = "ended", rs.why = "restore_write_failed", ~rs.reported
        PROVE  \A c \in Collections \ (rs.found \cup rs.stray) : target[c] = Absent
    BY <2>1, <2>3 DEF RestoreAt
  <2>4. rs.st # "idle" => \A c \in rs.found : target[c] # Absent
    BY <2>1 DEF RestoreAt
  <2> QED  BY <2>2, <2>3, <2>4 DEF RestoreAllOrNothing
<1> QED  BY <1>1, BackupInvariant, RestoreInvariant, PTL
-----------------------------------------------------------------------------
(* The reachability report                                                 *)

Shapes == {plan[c].shape : plan \in ReadyPlans, c \in ReportCards}

ReadyRecords == [scopes : ReadyPlans, at : Nat]

VersionRecords == [card : ReportCards, scope : ScopeVersions, shape : Shapes, at : Nat,
                   state : {"validated", "rejected"}]

EventRecords == [kind : {"promoted", "refused", "withdrawn", "assessed"}, id : Nat,
                 card : ReportCards, version : Nat, note : BOOLEAN, at : Nat]

SightingRecords == [card : ReportCards, version : Nat, scope : ScopeVersions,
                    state : {"validated", "rejected"}, shape : Shapes, at : Nat, current : BOOLEAN]

VersionOf(v, c) == v # 0 => v \in DOMAIN versions /\ versions[v].card = c

EventFits(e) ==
    /\ VersionOf(e.version, e.card) /\ e.at <= Now
    /\ e.note => e.kind \in {"refused", "withdrawn"}

\* The tables: whatever points to a version points to one of its card, and the
\* scopes of a consumed publication are carried.
TablesInv ==
    /\ ready \in Seq(ReadyRecords)
    /\ consumed \in 0 .. Len(ready)
    /\ versions \in Seq(VersionRecords)
    /\ current \in [ReportCards -> Nat]
    /\ events \in Seq(EventRecords)
    /\ \A c \in ReportCards : VersionOf(current[c], c)
    /\ \A i \in DOMAIN events : EventFits(events[i])
    /\ \A p \in DOMAIN ready : ready[p].at <= Now
    /\ \A p \in 1 .. consumed : Published(p) \subseteq {versions[i].scope : i \in DOMAIN versions}

\* The versions the report has read are the first ones of the table.
ReadVersions ==
    /\ report.sightings \in Seq(SightingRecords)
    /\ Len(report.sightings) <= Len(versions)
    /\ \A i \in DOMAIN report.sightings :
         /\ report.sightings[i].version = i
         /\ report.sightings[i].card = versions[i].card
         /\ report.sightings[i].scope = versions[i].scope
         /\ report.sightings[i].state = versions[i].state
         /\ report.sightings[i].shape = versions[i].shape

Sighted(s) == CarriersOf(report.sightings, s)
ServedThen(s) == \E c \in Sighted(s) : c.current
Judged(s) ==
    JudgeScopeReachability(s, Sighted(s),
        {e \in report.decisions : e.card \in {c.card : c \in Sighted(s)}})

Carried(s) == \E i \in DOMAIN versions : versions[i].scope = s
Served(s) == \E i \in DOMAIN versions : versions[i].scope = s /\ current[versions[i].card] = i

NotServed == {"pending_approval", "intentionally_unexposed", "orphaned"}

\* What the report has read of a scope was true at one moment of the run: the
\* versions when they were read, the decisions when they were, unless the scope
\* was served then or had got another version.
ScopeInv(s) ==
    /\ StateNow(s) \in seen[s]
    /\ Sighted(s) = {} => seen[s] \cap {"pending_registry", "unknown"} # {}
    /\ (Sighted(s) # {} /\ ~ServedThen(s)) => seen[s] \cap NotServed # {}
    /\ ServedThen(s) => (IF ScopeDisagreement(Sighted(s)) THEN "broken" ELSE "reachable") \in seen[s]
    /\ (Sighted(s) = {} /\ Carried(s)) => "pending_registry" \in seen[s]
    /\ (report.pc # "decisions" /\ s \notin report.grown /\ Sighted(s) # {} /\ ~ServedThen(s))
         => Judged(s).state \in seen[s] \/ seen[s] \cap {"reachable", "broken"} # {}
    /\ (report.pc = "judge" /\ seen[s] = {"pending_registry"})
         => (report.cursor = 0 \/ report.cursor < report.latest)

RunningFacts ==
    /\ ReadVersions
    /\ report.pc = "decisions" =>
         \A i \in DOMAIN versions \ DOMAIN report.sightings : versions[i].scope \in report.grown
    /\ report.pc # "decisions" => report.decisions \subseteq ToScopeDecisions(TrailNow)
    /\ report.pc \in {"sight", "judge"} => report.cursor \in 0 .. consumed
    /\ report.pc = "judge" => report.latest \in 0 .. Len(ready)
    /\ \A s \in ScopeVersions : ScopeInv(s)

ReportFields == {"pc", "begun", "sightings", "decisions", "cursor", "latest", "grown", "verdicts", "gate"}

ReportInv ==
    /\ TablesInv
    /\ report = [f \in ReportFields |-> report[f]]
    /\ report.pc \in {"idle", "decisions", "cursor", "sight", "judge", "done"}
    /\ seen = [s \in ScopeVersions |-> seen[s]]
    /\ Running => RunningFacts
    /\ ReportIsHonest

\* A set of natural numbers has a least member, a bounded one a greatest.
LEMMA LeastOf ==
    ASSUME NEW T \in SUBSET Nat, T # {}
    PROVE  \E x \in T : \A y \in T : x <= y
<1>1. PICK x \in T : \A y \in T : ~ (<<y, x>> \in OpToRel(<, Nat))
  BY NatLessThanWellFounded, WFMin
<1>2. ASSUME NEW y \in T PROVE x <= y
  <2>1. ~ (<<y, x>> \in {ss \in Nat \X Nat : ss[1] < ss[2]})
    BY <1>1 DEF OpToRel
  <2> QED  BY <2>1
<1> QED  BY <1>2

LEMMA GreatestOf ==
    ASSUME NEW T \in SUBSET Nat, T # {}, NEW n \in Nat, \A x \in T : x <= n
    PROVE  \E x \in T : \A y \in T : y <= x
<1> DEFINE U == {n - x : x \in T}
<1>1. U \in SUBSET Nat /\ U # {}
  <2>1. \A x \in T : n - x \in Nat
    OBVIOUS
  <2> QED  BY <2>1
<1>2. PICK u \in U : \A w \in U : u <= w
  BY <1>1, LeastOf
<1>3. PICK x \in T : u = n - x
  BY <1>2
<1>4. ASSUME NEW y \in T PROVE y <= x
  <2>1. u <= n - y /\ x \in Nat /\ y \in Nat
    BY <1>2
  <2> QED  BY <2>1, <1>3
<1> QED  BY <1>4

\* SetToSeq lists every member of a finite set.
LEMMA SeqOfAll ==
    ASSUME NEW S, IsFiniteSet(S)
    PROVE  /\ SetToSeq(S) \in Seq(S)
           /\ \A c \in S : \E k \in DOMAIN SetToSeq(S) : SetToSeq(S)[k] = c
<1> DEFINE n == Cardinality(S)  f == SetToSeq(S)
<1>1. n \in Nat
  BY FS_CardinalityType
<1>2. PICK g \in [1..n -> S] : g \in Bijection(1..n, S)
  <2>1. ExistsBijection(1..n, S)
    BY FS_CountingElements, FS_NatBijection, FS_CardinalityType
  <2> QED  BY <2>1 DEF ExistsBijection, Bijection, Injection
<1>3. IsInjective(g)
  BY <1>2 DEF Bijection, Injection
<1>4. f \in [1..n -> S] /\ IsInjective(f)
  BY <1>2, <1>3 DEF SetToSeq
<1> HIDE DEF f
<1>5. f \in Injection(1..n, S)
  BY <1>4 DEF Injection
<1>6. IsFiniteSet(1..n) /\ Cardinality(1..n) = n
  <2> HIDE DEF n
  <2>1. IsFiniteSet(1..n) /\ Cardinality(1..n) = IF 1 > n THEN 0 ELSE n - 1 + 1
    BY <1>1, FS_Interval
  <2> QED  BY <1>1, <2>1
<1>7. f \in Surjection(1..n, S)
  BY <1>5, <1>6, FS_Injection
<1>8. f \in Seq(S) /\ DOMAIN f = 1..n
  <2> HIDE DEF n
  <2> QED  BY <1>1, <1>4
<1> QED  BY <1>7, <1>8 DEF f, Surjection

LEMMA ImageFinite ==
    ASSUME NEW S, IsFiniteSet(S), NEW f
    PROVE  IsFiniteSet({f[x] : x \in S})
<1> DEFINE T == {f[x] : x \in S}  g == [x \in S |-> f[x]]
<1>1. g \in Surjection(S, T)
  BY DEF Surjection
<1> HIDE DEF T, g
<1>2. IsFiniteSet(T)
  BY <1>1, FS_Surjection
<1> QED  BY <1>2 DEF T

\* Two carriers that disagree are two shapes.
LEMMA TwoShapes ==
    ASSUME NEW T, IsFiniteSet(T)
    PROVE  Cardinality(T) > 1 <=> \E x, y \in T : x # y
<1>1. ASSUME NEW x \in T, \A y \in T : x = y PROVE Cardinality(T) = 1
  <2>1. T = {x}
    BY <1>1
  <2> QED  BY <2>1, FS_Singleton
<1>2. T = {} => Cardinality(T) = 0
  BY FS_EmptySet
<1>3. ASSUME NEW x \in T, NEW y \in T, x # y PROVE Cardinality(T) > 1
  <2>1. Cardinality({x, y}) = 2
    <3>1. Cardinality({x}) = 1 /\ IsFiniteSet({x})
      BY FS_Singleton
    <3>2. y \notin {x} /\ {x} \cup {y} = {x, y}
      BY <1>3
    <3> QED  BY <3>1, <3>2, FS_AddElement
  <2>2. {x, y} \subseteq T
    OBVIOUS
  <2>3. Cardinality({x, y}) <= Cardinality(T) /\ Cardinality(T) \in Nat
    BY <2>2, FS_Subset, FS_CardinalityType
  <2> QED  BY <2>1, <2>3
<1>4. CASE \E x, y \in T : x # y
  BY <1>3, <1>4
<1>5. CASE \A x, y \in T : x = y
  <2>1. CASE T = {}
    BY <2>1, <1>2
  <2>2. CASE T # {}
    <3>1. PICK x \in T : TRUE
      BY <2>2
    <3>2. Cardinality(T) = 1
      BY <3>1, <1>1, <1>5
    <3> QED  BY <3>2, <1>5
  <2> QED  BY <2>1, <2>2
<1> QED  BY <1>4, <1>5

\* What the rules say, case by case.
ServingOf(C) == {c \in C : c.current}
AgainstOf(D) == {e \in D : e.kind # "promoted"}
AwaitingOf(C, D) == {c \in C : c.state # "rejected" /\ c.version \notin {e.version : e \in AgainstOf(D)}}
ExplainedOf(D) == {e \in AgainstOf(D) : e.note}
PromotedOf(C, D) == {e \in D : e.kind = "promoted" /\ e.card \in {c.card : c \in ServingOf(C)}}

LEMMA JudgeCases ==
    ASSUME NEW s, NEW C, NEW D, NEW J, J = JudgeScopeReachability(s, C, D)
    PROVE  /\ J.scope = s
           /\ ServingOf(C) # {} => J.state = IF ScopeDisagreement(C) THEN "broken" ELSE "reachable"
           /\ (ServingOf(C) = {} /\ AwaitingOf(C, D) # {}) => J.state = "pending_approval"
           /\ (ServingOf(C) = {} /\ AwaitingOf(C, D) = {})
                => J.state = IF ExplainedOf(D) # {} THEN "intentionally_unexposed" ELSE "orphaned"
           /\ \/ J.since \in {NoTime, TimeOf(PromotedOf(C, D)), TimeOf(ExplainedOf(D)), TimeOf(AgainstOf(D))}
              \/ ServingOf(C) # {} /\ J.since = EarliestCreatedAt(ServingOf(C))
              \/ AwaitingOf(C, D) # {} /\ J.since = EarliestCreatedAt(AwaitingOf(C, D))
<1>1. J = IF ServingOf(C) # {} /\ ScopeDisagreement(C)
          THEN Verdict(s, "broken", NoTime, ServingOf(C), NoEvent)
          ELSE IF ServingOf(C) # {}
          THEN Verdict(s, "reachable",
                IF PromotedOf(C, D) = {} THEN EarliestCreatedAt(ServingOf(C)) ELSE TimeOf(PromotedOf(C, D)),
                ServingOf(C), EventOf(PromotedOf(C, D)))
          ELSE IF AwaitingOf(C, D) # {}
          THEN Verdict(s, "pending_approval", EarliestCreatedAt(AwaitingOf(C, D)), AwaitingOf(C, D), NoEvent)
          ELSE IF ExplainedOf(D) # {}
          THEN Verdict(s, "intentionally_unexposed", TimeOf(ExplainedOf(D)), C, EventOf(ExplainedOf(D)))
          ELSE Verdict(s, "orphaned", TimeOf(AgainstOf(D)), C, EventOf(AgainstOf(D)))
  BY DEF JudgeScopeReachability, ServingOf, AgainstOf, AwaitingOf, ExplainedOf, PromotedOf
<1> QED  BY <1>1 DEF Verdict

\* The date of a verdict is a moment, or it has none.
LEMMA EarliestType ==
    ASSUME NEW C, C # {}, \A c \in C : c.at \in Nat
    PROVE  EarliestCreatedAt(C) \in Nat
<1> DEFINE T == {c.at : c \in C}
<1>1. T \in SUBSET Nat /\ T # {}
  OBVIOUS
<1>2. PICK t \in T : \A y \in T : t <= y
  BY <1>1, LeastOf
<1>3. \A c \in C : t <= c.at
  BY <1>2
<1>4. EarliestCreatedAt(C) \in T
  BY <1>2, <1>3 DEF EarliestCreatedAt
<1> QED  BY <1>1, <1>4

LEMMA TimeType ==
    ASSUME NEW D, NEW n \in Nat, \A e \in D : e.at \in Nat /\ e.at <= n
    PROVE  TimeOf(D) \in Nat \cup {NoTime}
<1> SUFFICES ASSUME D # {} PROVE Latest(D).at \in Nat
  BY DEF TimeOf
<1> DEFINE T == {e.at : e \in D}
<1>1. T \in SUBSET Nat /\ T # {} /\ \A x \in T : x <= n
  OBVIOUS
<1>2. PICK t \in T : \A y \in T : y <= t
  BY <1>1, GreatestOf
<1>3. PICK e \in D : t = e.at
  BY <1>2
<1>4. \A f \in D : f.at <= e.at
  BY <1>2, <1>3
<1>5. Latest(D) \in D
  BY <1>4 DEF Latest
<1> QED  BY <1>5

LEMMA JudgeDated ==
    ASSUME NEW s, NEW C, NEW D, NEW n \in Nat,
           \A c \in C : c.at \in Nat, \A e \in D : e.at \in Nat /\ e.at <= n
    PROVE  JudgeScopeReachability(s, C, D).since \in Nat \cup {NoTime}
<1> DEFINE J == JudgeScopeReachability(s, C, D)
<1>1. \/ J.since \in {NoTime, TimeOf(PromotedOf(C, D)), TimeOf(ExplainedOf(D)), TimeOf(AgainstOf(D))}
      \/ ServingOf(C) # {} /\ J.since = EarliestCreatedAt(ServingOf(C))
      \/ AwaitingOf(C, D) # {} /\ J.since = EarliestCreatedAt(AwaitingOf(C, D))
  BY JudgeCases
<1>2. /\ ServingOf(C) \subseteq C /\ AwaitingOf(C, D) \subseteq C
      /\ AgainstOf(D) \subseteq D /\ ExplainedOf(D) \subseteq D /\ PromotedOf(C, D) \subseteq D
  BY DEF ServingOf, AgainstOf, AwaitingOf, ExplainedOf, PromotedOf
<1>3. TimeOf(PromotedOf(C, D)) \in Nat \cup {NoTime}
  BY <1>2, TimeType
<1>4. TimeOf(ExplainedOf(D)) \in Nat \cup {NoTime}
  BY <1>2, TimeType
<1>5. TimeOf(AgainstOf(D)) \in Nat \cup {NoTime}
  BY <1>2, TimeType
<1>6. ServingOf(C) # {} => EarliestCreatedAt(ServingOf(C)) \in Nat
  BY <1>2, EarliestType
<1>7. AwaitingOf(C, D) # {} => EarliestCreatedAt(AwaitingOf(C, D)) \in Nat
  BY <1>2, EarliestType
<1> QED  BY <1>1, <1>3, <1>4, <1>5, <1>6, <1>7

\* What StateNow says, case by case.
LEMMA StateCases ==
    ASSUME TablesInv, NEW s
    PROVE  /\ Served(s) =>
                StateNow(s) = IF \E i, j \in DOMAIN versions :
                                   /\ versions[i].scope = s /\ versions[j].scope = s
                                   /\ versions[i].shape # versions[j].shape
                              THEN "broken" ELSE "reachable"
           /\ (Carried(s) /\ ~Served(s)) =>
                StateNow(s) =
                  IF \E i \in DOMAIN versions :
                       /\ versions[i].scope = s /\ versions[i].state = "validated"
                       /\ ~\E e \in TrailNow : e.kind \in {"refused", "withdrawn"} /\ e.version = i
                  THEN "pending_approval"
                  ELSE IF \E e \in TrailNow, i \in DOMAIN versions :
                            versions[i].scope = s /\ e.note /\ e.card = versions[i].card
                  THEN "intentionally_unexposed" ELSE "orphaned"
           /\ ~Carried(s) =>
                StateNow(s) = IF \E p \in consumed + 1 .. Len(ready) : s \in Published(p)
                              THEN "pending_registry" ELSE "unknown"
<1> DEFINE carriers == {i \in DOMAIN versions : versions[i].scope = s}
           against(i) == \E e \in TrailNow : e.kind \in {"refused", "withdrawn"} /\ e.version = i
           T == {versions[i].shape : i \in carriers}
<1>1. StateNow(s) =
        IF \E i \in carriers : current[versions[i].card] = i
        THEN IF Cardinality(T) > 1 THEN "broken" ELSE "reachable"
        ELSE IF \E i \in carriers : versions[i].state = "validated" /\ ~against(i) THEN "pending_approval"
        ELSE IF \E e \in TrailNow, i \in carriers : e.note /\ e.card = versions[i].card
        THEN "intentionally_unexposed"
        ELSE IF carriers # {} THEN "orphaned"
        ELSE IF \E p \in consumed + 1 .. Len(ready) : s \in Published(p) THEN "pending_registry"
        ELSE "unknown"
  BY DEF StateNow
<1>2. Cardinality(T) > 1 <=> \E x, y \in T : x # y
  <2>1. IsFiniteSet(DOMAIN versions)
    <3>1. Len(versions) \in Nat /\ DOMAIN versions = 1..Len(versions)
      BY DEF TablesInv
    <3> QED  BY <3>1, FS_Interval
  <2>2. IsFiniteSet(carriers)
    BY <2>1, FS_Subset
  <2> DEFINE f == [i \in carriers |-> versions[i].shape]
  <2>3. T = {f[i] : i \in carriers}
    OBVIOUS
  <2>4. IsFiniteSet(T)
    <3> HIDE DEF carriers, f, T
    <3> QED  BY <2>2, <2>3, ImageFinite
  <2> HIDE DEF T
  <2> QED  BY <2>4, TwoShapes
<1>3. (\E x, y \in T : x # y)
        <=> \E i, j \in DOMAIN versions : /\ versions[i].scope = s /\ versions[j].scope = s
                                          /\ versions[i].shape # versions[j].shape
  OBVIOUS
<1>4. (\E i \in carriers : current[versions[i].card] = i) <=> Served(s)
  BY DEF Served
<1>5. carriers # {} <=> Carried(s)
  BY DEF Carried
<1>6. (\E i \in carriers : versions[i].state = "validated" /\ ~against(i))
        <=> \E i \in DOMAIN versions :
              /\ versions[i].scope = s /\ versions[i].state = "validated"
              /\ ~\E e \in TrailNow : e.kind \in {"refused", "withdrawn"} /\ e.version = i
  OBVIOUS
<1>7. (\E e \in TrailNow, i \in carriers : e.note /\ e.card = versions[i].card)
        <=> \E e \in TrailNow, i \in DOMAIN versions :
              versions[i].scope = s /\ e.note /\ e.card = versions[i].card
  OBVIOUS
<1>8. carriers = {} => ~(\E i \in carriers : versions[i].state = "validated" /\ ~against(i))
                    /\ ~(\E e \in TrailNow, i \in carriers : e.note /\ e.card = versions[i].card)
  OBVIOUS
<1>9. Served(s) => Carried(s)
  BY DEF Served, Carried
<1> HIDE DEF carriers, against, T
<1>10. CASE Served(s)
  BY <1>10, <1>1, <1>2, <1>3, <1>4, <1>9
<1>11. CASE Carried(s) /\ ~Served(s)
  BY <1>11, <1>1, <1>4, <1>5, <1>6, <1>7
<1>12. CASE ~Carried(s)
  BY <1>12, <1>1, <1>4, <1>5, <1>8, <1>9
<1> QED  BY <1>10, <1>11, <1>12, <1>9

\* The carriers the report has read, by their places in the table.
LEMMA SightedAre ==
    ASSUME ReadVersions, NEW s
    PROVE  /\ \A c \in Sighted(s) : /\ c.version \in DOMAIN report.sightings /\ c = report.sightings[c.version]
                                    /\ c.scope = s /\ c.at \in Nat
           /\ \A i \in DOMAIN report.sightings :
                report.sightings[i].scope = s => report.sightings[i] \in Sighted(s)
<1>1. ASSUME NEW c \in Sighted(s)
      PROVE  /\ c.version \in DOMAIN report.sightings /\ c = report.sightings[c.version]
             /\ c.scope = s /\ c.at \in Nat
  <2>1. PICK i \in DOMAIN report.sightings : c = report.sightings[i] /\ report.sightings[i].scope = s
    BY DEF Sighted, CarriersOf
  <2>2. c \in SightingRecords /\ c.version = i
    BY <2>1 DEF ReadVersions
  <2> QED  BY <2>1, <2>2 DEF SightingRecords
<1> QED  BY <1>1 DEF Sighted, CarriersOf

\* On the versions and the decisions of one moment at which nobody serves the
\* scope, the rules and the plain statement of its state agree.
LEMMA JudgeAgrees ==
    ASSUME TablesInv, ReadVersions, NEW s, NEW D, NEW J,
           \A i \in DOMAIN versions \ DOMAIN report.sightings : versions[i].scope # s,
           Sighted(s) # {}, ~ServedThen(s), ~Served(s),
           D = {e \in ToScopeDecisions(TrailNow) : e.card \in {c.card : c \in Sighted(s)}},
           J = JudgeScopeReachability(s, Sighted(s), D)
    PROVE  J.state = StateNow(s)
<1> DEFINE C == Sighted(s)
<1>0. DOMAIN report.sightings \subseteq DOMAIN versions
  BY DEF ReadVersions, TablesInv
<1>1. \A i \in DOMAIN versions : versions[i].scope = s =>
         /\ i \in DOMAIN report.sightings /\ report.sightings[i] \in C
         /\ report.sightings[i].version = i /\ report.sightings[i].card = versions[i].card
         /\ report.sightings[i].state = versions[i].state
  BY SightedAre DEF ReadVersions
<1>2. \A c \in C : /\ c.version \in DOMAIN versions /\ versions[c.version].scope = s
                   /\ c.card = versions[c.version].card /\ c.state = versions[c.version].state
                   /\ c.state \in {"validated", "rejected"}
  <2> SUFFICES ASSUME NEW c \in C
               PROVE  /\ c.version \in DOMAIN versions /\ versions[c.version].scope = s
                      /\ c.card = versions[c.version].card /\ c.state = versions[c.version].state
                      /\ c.state \in {"validated", "rejected"}
    OBVIOUS
  <2>1. c.version \in DOMAIN report.sightings /\ c = report.sightings[c.version] /\ c.scope = s
    BY SightedAre
  <2>2. c \in SightingRecords
    BY <2>1 DEF ReadVersions
  <2>3. c.version \in DOMAIN versions
    BY <2>1, <1>0
  <2> QED  BY <2>1, <2>2, <2>3 DEF ReadVersions, SightingRecords
<1>3. ServingOf(C) = {}
  BY DEF ServedThen, ServingOf
<1>4. Carried(s)
  BY <1>2 DEF Carried
<1>5. \A e \in TrailNow : /\ e.kind \in {"promoted", "refused", "withdrawn", "assessed"}
                          /\ VersionOf(e.version, e.card)
                          /\ e.note => e.kind \in {"refused", "withdrawn"}
  <2> SUFFICES ASSUME NEW e \in TrailNow
               PROVE  /\ e.kind \in {"promoted", "refused", "withdrawn", "assessed"}
                      /\ VersionOf(e.version, e.card)
                      /\ e.note => e.kind \in {"refused", "withdrawn"}
    OBVIOUS
  <2>1. PICK k \in DOMAIN events : e = events[k]
    BY DEF TrailNow
  <2>2. e \in EventRecords /\ EventFits(e)
    BY <2>1 DEF TablesInv
  <2> QED  BY <2>2 DEF EventRecords, EventFits
<1>6. AgainstOf(D) = {e \in TrailNow : e.kind \in {"refused", "withdrawn"} /\ e.card \in {c.card : c \in C}}
  <2> HIDE DEF C
  <2> QED  BY <1>5 DEF AgainstOf, ToScopeDecisions, C
<1> DEFINE Against(i) == \E e \in TrailNow : e.kind \in {"refused", "withdrawn"} /\ e.version = i
<1>7. \A c \in C : c.version \in {e.version : e \in AgainstOf(D)} <=> Against(c.version)
  <2> SUFFICES ASSUME NEW c \in C
               PROVE  c.version \in {e.version : e \in AgainstOf(D)} <=> Against(c.version)
    OBVIOUS
  <2>1. ASSUME NEW e \in TrailNow, e.kind \in {"refused", "withdrawn"}, e.version = c.version
        PROVE  e \in AgainstOf(D)
    <3>1. c.version # 0 /\ e.version \in DOMAIN versions
      BY <2>1, <1>2 DEF TablesInv
    <3>2. versions[e.version].card = e.card
      BY <1>5, <2>1, <3>1 DEF VersionOf
    <3>3. e.card = c.card
      BY <2>1, <3>2, <1>2
    <3> QED  BY <2>1, <3>3, <1>6
  <2> QED  BY <2>1, <1>6
<1>8. AwaitingOf(C, D) # {} <=>
        \E i \in DOMAIN versions :
           versions[i].scope = s /\ versions[i].state = "validated" /\ ~Against(i)
  <2> HIDE DEF C, Against
  <2>1. AwaitingOf(C, D) = {c \in C : c.state # "rejected" /\ ~Against(c.version)}
    BY <1>7 DEF AwaitingOf
  <2>2. ASSUME NEW c \in C, c.state # "rejected", ~Against(c.version)
        PROVE  \E i \in DOMAIN versions :
                  versions[i].scope = s /\ versions[i].state = "validated" /\ ~Against(i)
    BY <2>2, <1>2
  <2>3. ASSUME NEW i \in DOMAIN versions, versions[i].scope = s, versions[i].state = "validated", ~Against(i)
        PROVE  AwaitingOf(C, D) # {}
    BY <2>1, <2>3, <1>1
  <2> QED  BY <2>1, <2>2, <2>3
<1>9. ExplainedOf(D) # {} <=>
        \E e \in TrailNow, i \in DOMAIN versions :
           versions[i].scope = s /\ e.note /\ e.card = versions[i].card
  <2> HIDE DEF C
  <2>1. ASSUME NEW e \in ExplainedOf(D)
        PROVE  \E i \in DOMAIN versions : versions[i].scope = s /\ e.card = versions[i].card
    <3>1. PICK c \in C : e.card = c.card
      BY <2>1, <1>6 DEF ExplainedOf
    <3> QED  BY <3>1, <1>2
  <2>2. \A e \in ExplainedOf(D) : e \in TrailNow /\ e.note
    BY <1>6 DEF ExplainedOf
  <2>3. ASSUME NEW e \in TrailNow, NEW i \in DOMAIN versions,
               versions[i].scope = s, e.note, e.card = versions[i].card
        PROVE  e \in ExplainedOf(D)
    <3>1. e.card \in {c.card : c \in C}
      BY <2>3, <1>1
    <3> QED  BY <2>3, <3>1, <1>5, <1>6 DEF ExplainedOf
  <2>4. ASSUME ExplainedOf(D) # {}
        PROVE  \E e \in TrailNow, i \in DOMAIN versions :
                  versions[i].scope = s /\ e.note /\ e.card = versions[i].card
    <3>1. PICK e : e \in ExplainedOf(D)
      BY ONLY <2>4
    <3>2. e \in TrailNow /\ e.note
      BY ONLY <2>2, <3>1
    <3>3. PICK i \in DOMAIN versions : versions[i].scope = s /\ e.card = versions[i].card
      BY ONLY <2>1, <3>1
    <3> QED  BY ONLY <3>2, <3>3
  <2>5. ASSUME NEW e \in TrailNow, NEW i \in DOMAIN versions,
               versions[i].scope = s, e.note, e.card = versions[i].card
        PROVE  ExplainedOf(D) # {}
    <3>1. e \in ExplainedOf(D)
      BY ONLY <2>3, <2>5
    <3> QED  BY ONLY <3>1
  <2> QED  BY ONLY <2>4, <2>5
<1>10. StateNow(s) = IF AwaitingOf(C, D) # {} THEN "pending_approval"
                     ELSE IF ExplainedOf(D) # {} THEN "intentionally_unexposed" ELSE "orphaned"
  <2>1. Carried(s) /\ ~Served(s)
    BY <1>4
  <2>2. StateNow(s) =
          IF \E i \in DOMAIN versions :
               versions[i].scope = s /\ versions[i].state = "validated" /\ ~Against(i)
          THEN "pending_approval"
          ELSE IF \E e \in TrailNow, i \in DOMAIN versions :
                    versions[i].scope = s /\ e.note /\ e.card = versions[i].card
          THEN "intentionally_unexposed" ELSE "orphaned"
    BY <2>1, StateCases
  <2> HIDE DEF C, Against
  <2> QED  BY <2>2, <1>8, <1>9
<1>11. J.state = IF AwaitingOf(C, D) # {} THEN "pending_approval"
                 ELSE IF ExplainedOf(D) # {} THEN "intentionally_unexposed" ELSE "orphaned"
  <2>1. J = JudgeScopeReachability(s, C, D)
    OBVIOUS
  <2> HIDE DEF C
  <2>2. /\ (ServingOf(C) = {} /\ AwaitingOf(C, D) # {}) => J.state = "pending_approval"
        /\ (ServingOf(C) = {} /\ AwaitingOf(C, D) = {})
             => J.state = IF ExplainedOf(D) # {} THEN "intentionally_unexposed" ELSE "orphaned"
    BY ONLY <2>1, JudgeCases
  <2> QED  BY <2>2, <1>3
<1> QED  BY <1>10, <1>11

\* A commit adds to what the report could have seen.
LEMMA CommitKeeps ==
    ASSUME ReportInv, TablesInv', Witnessed, Running,
           report' = [f \in ReportFields |-> report'[f]],
           report'.pc = report.pc, report'.sightings = report.sightings,
           report'.decisions = report.decisions, report'.cursor = report.cursor,
           report'.latest = report.latest, report.grown \subseteq report'.grown,
           Len(versions) <= Len(versions'), \A i \in DOMAIN versions : versions'[i] = versions[i],
           report.pc = "decisions" =>
             \A i \in DOMAIN versions' \ DOMAIN versions : versions'[i].scope \in report'.grown,
           \A s \in ScopeVersions : Carried(s)' /\ ~Carried(s) => StateNow(s) = "pending_registry",
           TrailNow \subseteq TrailNow', consumed <= consumed', Len(ready) <= Len(ready')
    PROVE  ReportInv'
<1> USE DEF ReportInv
<1>1. RunningFacts
  OBVIOUS
<1>2. Running' /\ ~(report'.pc = "done")
  BY DEF Running
<1>3. seen' = [s \in ScopeVersions |-> seen[s] \cup {StateNow(s)'}]
  BY DEF Witnessed
<1>4. DOMAIN versions = 1..Len(versions) /\ DOMAIN versions' = 1..Len(versions')
      /\ Len(versions) \in Nat /\ Len(versions') \in Nat
  BY DEF TablesInv
<1>5. ReadVersions'
  <2>1. DOMAIN report.sightings \subseteq DOMAIN versions
    BY <1>1, <1>4 DEF RunningFacts, ReadVersions
  <2>2. Len(report.sightings) \in Nat /\ Len(report.sightings) <= Len(versions)
    BY <1>1 DEF RunningFacts, ReadVersions
  <2>3. \A i \in DOMAIN report.sightings : versions'[i] = versions[i]
    BY <2>1
  <2>4. Len(report.sightings) <= Len(versions')
    BY <2>2, <1>4
  <2>5. ReadVersions
    BY <1>1 DEF RunningFacts
  <2>6. report'.sightings = report.sightings
    OBVIOUS
  <2> QED  BY ONLY <2>3, <2>4, <2>5, <2>6 DEF ReadVersions, SightingRecords
<1>6. ASSUME NEW s \in ScopeVersions PROVE ScopeInv(s)'
  <2>1. ScopeInv(s)
    BY <1>1 DEF RunningFacts
  <2>2. seen'[s] = seen[s] \cup {StateNow(s)'}
    BY <1>3
  <2>3. Sighted(s)' = Sighted(s) /\ (ServedThen(s)' <=> ServedThen(s)) /\ Judged(s)' = Judged(s)
    BY DEF Sighted, ServedThen, Judged
  <2>4. (Sighted(s) = {} /\ Carried(s)') => "pending_registry" \in seen'[s]
    BY <2>1, <2>2 DEF ScopeInv
  <2>5. seen'[s] = {"pending_registry"} => seen[s] = {"pending_registry"}
    BY <2>1, <2>2 DEF ScopeInv
  <2> QED  BY <2>1, <2>2, <2>3, <2>4, <2>5 DEF ScopeInv
<1>7. report'.pc = "decisions" =>
        \A i \in DOMAIN versions' \ DOMAIN report'.sightings : versions'[i].scope \in report'.grown
  <2> SUFFICES ASSUME report.pc = "decisions", NEW i \in DOMAIN versions' \ DOMAIN report.sightings
               PROVE  versions'[i].scope \in report'.grown
    OBVIOUS
  <2>1. CASE i \in DOMAIN versions
    BY <2>1, <1>1 DEF RunningFacts
  <2>2. CASE i \notin DOMAIN versions
    BY <2>2
  <2> QED  BY <2>1, <2>2
<1>8. report'.pc # "decisions" => report'.decisions \subseteq ToScopeDecisions(TrailNow)'
  BY <1>1 DEF RunningFacts, ToScopeDecisions
<1>9. report'.pc \in {"sight", "judge"} => report'.cursor \in 0 .. consumed'
  <2>1. consumed \in Nat /\ consumed' \in Nat
    BY DEF TablesInv
  <2> QED  BY <2>1, <1>1 DEF RunningFacts
<1>9a. report'.pc = "judge" => report'.latest \in 0 .. Len(ready')
  <2>1. Len(ready) \in Nat /\ Len(ready') \in Nat
    BY DEF TablesInv
  <2> QED  BY <2>1, <1>1 DEF RunningFacts
<1>10. RunningFacts'
  BY <1>5, <1>6, <1>7, <1>8, <1>9, <1>9a DEF RunningFacts
<1>11. ReportIsHonest'
  BY <1>2 DEF ReportIsHonest
<1>12. seen' = [s \in ScopeVersions |-> seen'[s]]
  BY <1>3
<1> QED  BY <1>10, <1>11, <1>12

\* Before a report begins nothing is recorded.
LEMMA IdleKeeps ==
    ASSUME ReportInv, TablesInv', Open, ~Running, Witnessed, report' = report
    PROVE  ReportInv'
<1>1. seen' = seen /\ ~Running' /\ report'.pc # "done"
  BY DEF Witnessed, Running, Open
<1> QED  BY <1>1 DEF ReportInv, ReportIsHonest

LEMMA ReportInit ==
    ASSUME ReachInit
    PROVE  ReportInv
<1> USE DEF ReachInit
<1>1. TablesInv
  <2>1. Now = 0
    BY DEF Now
  <2> QED  BY <2>1 DEF TablesInv, VersionOf
<1>2. report = [f \in ReportFields |-> report[f]] /\ report.pc = "idle"
  BY DEF IdleReport, ReportFields
<1> QED  BY <1>1, <1>2 DEF ReportInv, Running, ReportIsHonest

LEMMA TypesOfTables ==
    ASSUME TablesInv
    PROVE  /\ Len(ready) \in Nat /\ DOMAIN ready = 1..Len(ready) /\ consumed \in Nat /\ consumed <= Len(ready)
           /\ Len(versions) \in Nat /\ DOMAIN versions = 1..Len(versions)
           /\ Len(events) \in Nat /\ DOMAIN events = 1..Len(events) /\ Now \in Nat
BY DEF TablesInv, Now

LEMMA RowsOfTables ==
    ASSUME TablesInv
    PROVE  /\ \A p \in DOMAIN ready : ready[p].at \in Nat /\ ready[p].at <= Now /\ ready[p].scopes \in ReadyPlans
           /\ \A i \in DOMAIN versions : versions[i] \in VersionRecords
           /\ \A i \in DOMAIN events : events[i] \in EventRecords /\ events[i].at \in Nat /\ EventFits(events[i])
<1>1. \A p \in DOMAIN ready : ready[p] \in ReadyRecords
  BY DEF TablesInv
<1>2. \A p \in DOMAIN ready : ready[p].at \in Nat /\ ready[p].scopes \in ReadyPlans
  BY <1>1 DEF ReadyRecords
<1>3. \A i \in DOMAIN events : events[i] \in EventRecords
  BY DEF TablesInv
<1>4. \A i \in DOMAIN events : events[i].at \in Nat
  BY <1>3 DEF EventRecords
<1> QED  BY <1>2, <1>3, <1>4 DEF TablesInv

LEMMA PublishReadyStep ==
    ASSUME ReportInv, PublishReady
    PROVE  ReportInv'
<1> USE DEF ReportInv
<1>1. PICK scopes \in ReadyPlans : ready' = Append(ready, [scopes |-> scopes, at |-> Now])
  BY DEF PublishReady
<1>2. UNCHANGED <<consumed, versions, current, events, report>> /\ Witnessed /\ Open
  BY DEF PublishReady
<1>3. /\ Len(ready) \in Nat /\ DOMAIN ready = 1..Len(ready) /\ consumed \in Nat /\ consumed <= Len(ready)
      /\ Now \in Nat /\ Len(events) \in Nat
  BY TypesOfTables
<1>4. /\ ready' \in Seq(ReadyRecords) /\ Len(ready') = Len(ready) + 1
      /\ \A p \in DOMAIN ready : ready'[p] = ready[p]
      /\ ready'[Len(ready) + 1] = [scopes |-> scopes, at |-> Now]
  <2> DEFINE new == [scopes |-> scopes, at |-> Now]
  <2>1. new \in ReadyRecords
    BY <1>3 DEF ReadyRecords
  <2> HIDE DEF new
  <2>2. ready' = Append(ready, new)
    BY <1>1 DEF new
  <2>3. /\ ready' \in Seq(ReadyRecords) /\ Len(ready') = Len(ready) + 1
        /\ \A p \in DOMAIN ready : ready'[p] = ready[p] /\ ready'[Len(ready) + 1] = new
    BY <1>3, <2>1, <2>2 DEF TablesInv
  <2>4. ready'[Len(ready) + 1] = new
    BY <1>3, <2>1, <2>2 DEF TablesInv
  <2> QED  BY <2>3, <2>4 DEF new
<1>5. Now' = Now + 1
  BY <1>2, <1>3, <1>4 DEF Now
<1>6. \A p \in DOMAIN ready' : ready'[p].at <= Now'
  <2> SUFFICES ASSUME NEW p \in DOMAIN ready' PROVE ready'[p].at <= Now + 1
    BY <1>5
  <2>1. CASE p = Len(ready) + 1
    BY <2>1, <1>4, <1>3
  <2>2. CASE p # Len(ready) + 1
    <3>1. p \in DOMAIN ready
      BY <2>2, <1>3, <1>4
    <3>2. ready[p].at <= Now /\ ready[p].at \in Nat
      BY <3>1, RowsOfTables
    <3> QED  BY <3>1, <3>2, <1>3, <1>4
  <2> QED  BY <2>1, <2>2
<1>7. \A i \in DOMAIN events : EventFits(events[i])'
  <2> SUFFICES ASSUME NEW i \in DOMAIN events PROVE EventFits(events[i])'
    OBVIOUS
  <2>1. EventFits(events[i]) /\ events[i].at \in Nat
    BY RowsOfTables
  <2> QED  BY <2>1, <1>2, <1>3, <1>5 DEF EventFits, VersionOf
<1>8. \A p \in 1 .. consumed : Published(p)' \subseteq {versions[i].scope : i \in DOMAIN versions}
  <2> SUFFICES ASSUME NEW p \in 1 .. consumed
               PROVE  Published(p)' \subseteq {versions[i].scope : i \in DOMAIN versions}
    OBVIOUS
  <2>1. p \in DOMAIN ready /\ ready'[p] = ready[p]
    BY <1>3, <1>4
  <2> QED  BY <2>1 DEF Published, TablesInv
<1>9. TablesInv'
  <2>1. consumed' \in 0 .. Len(ready')
    BY <1>2, <1>3, <1>4
  <2>2. \A c \in ReportCards : VersionOf(current[c], c)'
    BY <1>2 DEF TablesInv, VersionOf
  <2> QED  BY <1>2, <1>4, <1>6, <1>7, <1>8, <2>1, <2>2 DEF TablesInv
<1>10. CASE Running
  <2>1. \A s : Carried(s)' <=> Carried(s)
    BY <1>2 DEF Carried
  <2>2. /\ TrailNow' = TrailNow /\ Len(versions) <= Len(versions') /\ consumed <= consumed'
        /\ Len(ready) <= Len(ready')
    BY <1>2, <1>3, <1>4, TypesOfTables DEF TrailNow
  <2> QED  BY <1>2, <1>9, <1>10, <2>1, <2>2, CommitKeeps
<1>11. CASE ~Running
  BY <1>2, <1>9, <1>11, IdleKeeps
<1> QED  BY <1>10, <1>11

\* A decision, whichever it is, is one event on a card's version and moves the
\* current pointer of that card at most.
LEMMA DecisionStep ==
    ASSUME ReportInv, Open, Witnessed, UNCHANGED <<ready, consumed, versions, report>>,
           NEW kind \in {"promoted", "refused", "withdrawn"}, NEW c \in ReportCards, NEW v \in Nat,
           NEW note \in BOOLEAN, note => kind # "promoted", VersionOf(v, c), Decide(kind, c, v, note),
           current' \in [ReportCards -> Nat], \A d \in ReportCards : VersionOf(current'[d], d)
    PROVE  ReportInv'
<1> USE DEF ReportInv
<1> DEFINE new == [kind |-> kind, id |-> Len(events) + 1, card |-> c, version |-> v,
                   note |-> note, at |-> Now]
<1>1. events' = Append(events, new)
  BY DEF Decide
<1>2. /\ Len(events) \in Nat /\ DOMAIN events = 1..Len(events) /\ Now \in Nat /\ Len(ready) \in Nat
      /\ consumed \in Nat
  BY TypesOfTables
<1>3. new \in EventRecords
  BY <1>2 DEF EventRecords
<1>4. /\ events' \in Seq(EventRecords) /\ Len(events') = Len(events) + 1
      /\ \A i \in DOMAIN events : events'[i] = events[i]
      /\ events'[Len(events) + 1] = new
  <2> HIDE DEF new
  <2> QED  BY <1>1, <1>2, <1>3 DEF TablesInv
<1>5. Now' = Now + 1
  BY <1>2, <1>4 DEF Now
<1>6. \A i \in DOMAIN events' : EventFits(events[i])'
  <2> SUFFICES ASSUME NEW i \in DOMAIN events' PROVE EventFits(events[i])'
    OBVIOUS
  <2>1. CASE i = Len(events) + 1
    <3>1. events'[i] = new
      BY <2>1, <1>4
    <3> QED  BY <3>1, <1>2, <1>5 DEF EventFits, VersionOf
  <2>2. CASE i # Len(events) + 1
    <3>1. i \in DOMAIN events
      BY <2>2, <1>2, <1>4
    <3>2. EventFits(events[i]) /\ events[i].at \in Nat
      BY <3>1, RowsOfTables
    <3>3. events'[i] = events[i]
      BY <3>1, <1>4
    <3> QED  BY <3>2, <3>3, <1>2, <1>5 DEF EventFits, VersionOf
  <2> QED  BY <2>1, <2>2
<1>7. \A p \in DOMAIN ready : ready[p].at <= Now'
  <2>1. \A p \in DOMAIN ready : ready[p].at <= Now /\ ready[p].at \in Nat
    BY RowsOfTables
  <2> QED  BY <2>1, <1>2, <1>5
<1>8. TablesInv'
  <2>1. \A p \in 1 .. consumed : Published(p)' \subseteq {versions[i].scope : i \in DOMAIN versions}
    BY DEF TablesInv, Published
  <2>2. \A d \in ReportCards : VersionOf(current[d], d)'
    BY DEF VersionOf
  <2> QED  BY <1>4, <1>6, <1>7, <2>1, <2>2 DEF TablesInv
<1>9. TrailNow \subseteq TrailNow'
  BY <1>2, <1>4 DEF TrailNow
<1>10. CASE Running
  <2>1. \A s : Carried(s)' <=> Carried(s)
    BY DEF Carried
  <2>2. Len(versions) <= Len(versions') /\ consumed <= consumed' /\ Len(ready) <= Len(ready')
    BY TypesOfTables
  <2> QED  BY <1>8, <1>9, <1>10, <2>1, <2>2, CommitKeeps
<1>11. CASE ~Running
  BY <1>8, <1>11, IdleKeeps
<1> QED  BY <1>10, <1>11

LEMMA OperatorDecidesStep ==
    ASSUME ReportInv, OperatorDecides
    PROVE  ReportInv'
<1>1. Open /\ Witnessed /\ UNCHANGED <<ready, consumed, versions, report>>
  BY DEF OperatorDecides
<1>2. PICK i \in DOMAIN versions :
         LET c == versions[i].card
         IN  \/ /\ versions[i].state = "validated"
                /\ Decide("promoted", c, i, FALSE)
                /\ current' = [current EXCEPT ![c] = i]
             \/ (\E note \in BOOLEAN : Decide("refused", c, i, note)) /\ UNCHANGED current
             \/ /\ \A j \in DOMAIN versions : versions[j].card = c => j <= i
                /\ \E note \in BOOLEAN : Decide("withdrawn", c, current[c], note)
                /\ current' = [current EXCEPT ![c] = 0]
  BY DEF OperatorDecides
<1> DEFINE c == versions[i].card
<1>3. /\ c \in ReportCards /\ i \in Nat /\ current \in [ReportCards -> Nat]
      /\ \A d \in ReportCards : VersionOf(current[d], d)
  <2>1. TablesInv
    BY DEF ReportInv
  <2>2. versions[i] \in VersionRecords /\ i \in Nat
    BY <2>1, RowsOfTables, TypesOfTables
  <2> QED  BY <2>1, <2>2 DEF TablesInv, VersionRecords
<1>4. VersionOf(i, c) /\ VersionOf(0, c)
  BY DEF VersionOf
<1> HIDE DEF c
<1>5. CASE Decide("promoted", c, i, FALSE) /\ current' = [current EXCEPT ![c] = i]
  <2>1. current' \in [ReportCards -> Nat] /\ \A d \in ReportCards : VersionOf(current'[d], d)
    BY <1>3, <1>4, <1>5
  <2> QED  BY <1>1, <1>3, <1>4, <1>5, <2>1, DecisionStep
<1>6. CASE (\E note \in BOOLEAN : Decide("refused", c, i, note)) /\ UNCHANGED current
  <2>1. PICK note \in BOOLEAN : Decide("refused", c, i, note)
    BY <1>6
  <2> QED  BY <1>1, <1>3, <1>4, <1>6, <2>1, DecisionStep
<1>7. CASE (\E note \in BOOLEAN : Decide("withdrawn", c, current[c], note)) /\ current' = [current EXCEPT ![c] = 0]
  <2>1. PICK note \in BOOLEAN : Decide("withdrawn", c, current[c], note)
    BY <1>7
  <2>2. current' \in [ReportCards -> Nat] /\ \A d \in ReportCards : VersionOf(current'[d], d)
    BY <1>3, <1>4, <1>7
  <2>3. current[c] \in Nat /\ VersionOf(current[c], c)
    BY <1>3
  <2> QED  BY <1>1, <1>3, <2>1, <2>2, <2>3, DecisionStep
<1> QED  BY <1>2, <1>5, <1>6, <1>7 DEF c

\* Appending rows to a table keeps the rows that were there.
LEMMA RowsAppended ==
    ASSUME NEW R, NEW old \in Seq(R), NEW new \in Seq(R), NEW both, both = old \o new
    PROVE  /\ both \in Seq(R) /\ Len(both) = Len(old) + Len(new)
           /\ Len(old) \in Nat /\ Len(new) \in Nat
           /\ DOMAIN old = 1..Len(old) /\ DOMAIN new = 1..Len(new) /\ DOMAIN both = 1..Len(both)
           /\ DOMAIN old \subseteq DOMAIN both
           /\ \A i \in DOMAIN old : both[i] = old[i]
           /\ \A i \in DOMAIN new : Len(old) + i \in DOMAIN both /\ both[Len(old) + i] = new[i]
           /\ \A i \in DOMAIN both \ DOMAIN old : i - Len(old) \in DOMAIN new /\ both[i] = new[i - Len(old)]
OBVIOUS

LEMMA ConsumeReadyStep ==
    ASSUME ReportInv, ConsumeReady
    PROVE  ReportInv'
<1> DEFINE p == consumed + 1
           unit(c) == ready[p].scopes[c]
           fresh == {c \in ReportCards : unit(c).scope # NoScope}
           gone == {c \in ReportCards : current[c] # 0 /\ Removed(p, c)}
           withdrawn == gone \cup {c \in ReportCards : gone # {} /\ current[c] # 0 /\ Changed(p, c)}
           order == SetToSeq(fresh)
           out == SetToSeq(withdrawn)
           added == [i \in DOMAIN order |->
                       [card |-> order[i], scope |-> unit(order[i]).scope, shape |-> unit(order[i]).shape,
                        at |-> Now, state |-> IF unit(order[i]).grounded THEN "validated" ELSE "rejected"]]
           assessed == [i \in DOMAIN out |->
                          [kind |-> "assessed", id |-> Len(events) + i, card |-> out[i],
                           version |-> current[out[i]], note |-> FALSE, at |-> Now]]
<1>1. /\ Open /\ consumed < Len(ready) /\ UNCHANGED ready /\ Witnessed
      /\ versions' = versions \o added /\ events' = events \o assessed
      /\ current' = [c \in ReportCards |-> IF c \in withdrawn THEN 0 ELSE current[c]]
      /\ consumed' = p
      /\ report' = IF report.pc = "decisions"
                   THEN [report EXCEPT !.grown = @ \cup {unit(c).scope : c \in fresh}]
                   ELSE report
  BY DEF ConsumeReady
<1>2. TablesInv
  BY DEF ReportInv
<1>3. /\ Len(ready) \in Nat /\ DOMAIN ready = 1..Len(ready) /\ consumed \in Nat /\ p \in DOMAIN ready
      /\ Len(versions) \in Nat /\ DOMAIN versions = 1..Len(versions)
      /\ Len(events) \in Nat /\ DOMAIN events = 1..Len(events) /\ Now \in Nat
  <2>1. consumed < Len(ready)
    BY <1>1
  <2> QED  BY <2>1, <1>2, TypesOfTables
<1>4. ready[p].scopes \in ReadyPlans
  BY <1>2, <1>3, RowsOfTables
<1>5. \A c \in ReportCards : unit(c).scope \in ScopeVersions \cup {NoScope} /\ unit(c).shape \in Shapes
  BY <1>4, ReachAssumption DEF Shapes
<1>6. Published(p) = {unit(c).scope : c \in fresh}
  BY DEF Published
<1>7. /\ order \in Seq(fresh) /\ out \in Seq(withdrawn)
      /\ \A c \in fresh : \E k \in DOMAIN order : order[k] = c
  <2>1. fresh \subseteq ReportCards /\ withdrawn \subseteq ReportCards
    OBVIOUS
  <2> HIDE DEF fresh, withdrawn
  <2>2. IsFiniteSet(fresh) /\ IsFiniteSet(withdrawn)
    BY <2>1, ReachAssumption, FS_Subset
  <2> QED  BY <2>2, SeqOfAll
<1>8. \A c \in withdrawn : c \in ReportCards /\ current[c] # 0 /\ current[c] \in Nat /\ VersionOf(current[c], c)
  BY <1>2 DEF TablesInv
<1>9. /\ DOMAIN added = DOMAIN order
      /\ \A i \in DOMAIN order : /\ order[i] \in fresh /\ added[i].scope = unit(order[i]).scope
                                 /\ added[i] \in VersionRecords
  <2>1. \A i \in DOMAIN order : order[i] \in fresh
    <3> HIDE DEF order, fresh
    <3> QED  BY <1>7
  <2>2. \A i \in DOMAIN order : added[i] =
                       [card |-> order[i], scope |-> unit(order[i]).scope, shape |-> unit(order[i]).shape,
                        at |-> Now, state |-> IF unit(order[i]).grounded THEN "validated" ELSE "rejected"]
    OBVIOUS
  <2>3. \A i \in DOMAIN order : /\ order[i] \in ReportCards /\ unit(order[i]).scope \in ScopeVersions
                                /\ unit(order[i]).shape \in Shapes
    BY <2>1, <1>5
  <2>4. DOMAIN added = DOMAIN order
    OBVIOUS
  <2> HIDE DEF added, unit, order, fresh
  <2> QED  BY <2>1, <2>2, <2>3, <2>4, <1>3 DEF VersionRecords
<1>10. /\ DOMAIN assessed = DOMAIN out
       /\ \A i \in DOMAIN out : /\ out[i] \in withdrawn /\ assessed[i] \in EventRecords
                                /\ assessed[i].version = current[out[i]] /\ assessed[i].card = out[i]
                                /\ ~assessed[i].note /\ assessed[i].at = Now
  <2>1. \A i \in DOMAIN out : i \in Nat /\ out[i] \in withdrawn
    <3> HIDE DEF out, withdrawn
    <3> QED  BY <1>7
  <2>2. \A i \in DOMAIN out : assessed[i] =
                          [kind |-> "assessed", id |-> Len(events) + i, card |-> out[i],
                           version |-> current[out[i]], note |-> FALSE, at |-> Now]
    OBVIOUS
  <2>3. DOMAIN assessed = DOMAIN out
    OBVIOUS
  <2> HIDE DEF assessed, out, withdrawn
  <2>4. ASSUME NEW i \in DOMAIN out
        PROVE  /\ out[i] \in withdrawn /\ assessed[i] \in EventRecords
               /\ assessed[i].version = current[out[i]] /\ assessed[i].card = out[i]
               /\ ~assessed[i].note /\ assessed[i].at = Now
    <3>1. /\ out[i] \in withdrawn /\ out[i] \in ReportCards /\ current[out[i]] \in Nat
          /\ Len(events) + i \in Nat
      BY <2>1, <1>3, <1>8
    <3>2. assessed[i] = [kind |-> "assessed", id |-> Len(events) + i, card |-> out[i],
                         version |-> current[out[i]], note |-> FALSE, at |-> Now]
      BY <2>2
    <3>3. assessed[i] \in EventRecords
      BY <3>1, <3>2, <1>3 DEF EventRecords
    <3> QED  BY <3>1, <3>2, <3>3
  <2> QED  BY <2>3, <2>4
<1> HIDE DEF added, assessed, order, out, fresh, withdrawn, gone, unit
<1>11. added \in Seq(VersionRecords) /\ assessed \in Seq(EventRecords)
  <2>1. Len(order) \in Nat /\ DOMAIN order = 1..Len(order) /\ Len(out) \in Nat /\ DOMAIN out = 1..Len(out)
    BY <1>7
  <2>2. added \in [1..Len(order) -> VersionRecords]
    BY <2>1, <1>9 DEF added
  <2>3. assessed \in [1..Len(out) -> EventRecords]
    BY <2>1, <1>10 DEF assessed
  <2> QED  BY <2>1, <2>2, <2>3
<1>12. versions \in Seq(VersionRecords) /\ events \in Seq(EventRecords)
  BY <1>2 DEF TablesInv
<1>13. /\ versions' \in Seq(VersionRecords) /\ Len(versions') = Len(versions) + Len(added) /\ Len(added) \in Nat
       /\ DOMAIN versions \subseteq DOMAIN versions'
       /\ \A i \in DOMAIN versions : versions'[i] = versions[i]
       /\ \A i \in DOMAIN added : Len(versions) + i \in DOMAIN versions' /\ versions'[Len(versions) + i] = added[i]
       /\ \A i \in DOMAIN versions' \ DOMAIN versions :
             i - Len(versions) \in DOMAIN added /\ versions'[i] = added[i - Len(versions)]
  <2> DEFINE both == versions'
  <2>1. both = versions \o added
    BY <1>1
  <2> HIDE DEF both
  <2>2. /\ both \in Seq(VersionRecords) /\ Len(both) = Len(versions) + Len(added) /\ Len(added) \in Nat
        /\ DOMAIN versions \subseteq DOMAIN both
        /\ \A i \in DOMAIN versions : both[i] = versions[i]
        /\ \A i \in DOMAIN added : Len(versions) + i \in DOMAIN both /\ both[Len(versions) + i] = added[i]
        /\ \A i \in DOMAIN both \ DOMAIN versions :
              i - Len(versions) \in DOMAIN added /\ both[i] = added[i - Len(versions)]
    BY <2>1, <1>11, <1>12, RowsAppended
  <2> QED  BY <2>2 DEF both
<1>14. /\ events' \in Seq(EventRecords) /\ Len(events') = Len(events) + Len(assessed) /\ Len(assessed) \in Nat
       /\ DOMAIN events \subseteq DOMAIN events'
       /\ \A i \in DOMAIN events : events'[i] = events[i]
       /\ \A i \in DOMAIN events' \ DOMAIN events :
             i - Len(events) \in DOMAIN assessed /\ events'[i] = assessed[i - Len(events)]
  <2> DEFINE both == events'
  <2>1. both = events \o assessed
    BY <1>1
  <2> HIDE DEF both
  <2>2. /\ both \in Seq(EventRecords) /\ Len(both) = Len(events) + Len(assessed) /\ Len(assessed) \in Nat
        /\ DOMAIN events \subseteq DOMAIN both
        /\ \A i \in DOMAIN events : both[i] = events[i]
        /\ \A i \in DOMAIN both \ DOMAIN events :
              i - Len(events) \in DOMAIN assessed /\ both[i] = assessed[i - Len(events)]
    BY <2>1, <1>11, <1>12, RowsAppended
  <2> QED  BY <2>2 DEF both
<1>15. Now' \in Nat /\ Now < Now'
  BY <1>1, <1>3, <1>14 DEF Now
<1>16. \A v, c : VersionOf(v, c) => VersionOf(v, c)'
  BY <1>13 DEF VersionOf
<1>17. \A i \in DOMAIN events' : EventFits(events[i])'
  <2> SUFFICES ASSUME NEW i \in DOMAIN events' PROVE EventFits(events[i])'
    OBVIOUS
  <2>1. CASE i \in DOMAIN events
    <3>1. EventFits(events[i]) /\ events[i].at \in Nat /\ events'[i] = events[i]
      BY <2>1, <1>2, <1>14, RowsOfTables
    <3>2. VersionOf(events[i].version, events[i].card)'
      BY <3>1, <1>13 DEF EventFits, VersionOf
    <3> QED  BY <3>1, <3>2, <1>3, <1>15 DEF EventFits
  <2>2. CASE i \notin DOMAIN events
    <3> DEFINE k == i - Len(events)
    <3>1. k \in DOMAIN assessed /\ events'[i] = assessed[k]
      BY <2>2, <1>14
    <3>2. /\ out[k] \in withdrawn /\ events'[i].version = current[out[k]] /\ events'[i].card = out[k]
          /\ ~events'[i].note /\ events'[i].at = Now
      BY <3>1, <1>10
    <3>3. VersionOf(current[out[k]], out[k])
      BY <3>2, <1>8
    <3> HIDE DEF k
    <3>4. VersionOf(events[i].version, events[i].card)'
      BY <3>2, <3>3, <1>13 DEF VersionOf
    <3> QED  BY <3>2, <3>4, <1>3, <1>15 DEF EventFits
  <2> QED  BY <2>1, <2>2
<1>18. current' \in [ReportCards -> Nat] /\ \A c \in ReportCards : VersionOf(current[c], c)'
  <2>1. current \in [ReportCards -> Nat] /\ \A c \in ReportCards : VersionOf(current[c], c)
    BY <1>2 DEF TablesInv
  <2>2. \A c \in ReportCards : current'[c] = 0 \/ current'[c] = current[c]
    BY <1>1
  <2>3. current' \in [ReportCards -> Nat]
    BY <1>1, <2>1
  <2> QED  BY <2>1, <2>2, <2>3, <1>13 DEF VersionOf
<1>19. \A q \in DOMAIN ready : ready[q].at <= Now'
  <2>1. \A q \in DOMAIN ready : ready[q].at <= Now /\ ready[q].at \in Nat
    BY <1>2, RowsOfTables
  <2> QED  BY <2>1, <1>3, <1>15
<1>20. Published(p) \subseteq {versions'[i].scope : i \in DOMAIN versions'}
  <2> SUFFICES ASSUME NEW c \in fresh PROVE unit(c).scope \in {versions'[i].scope : i \in DOMAIN versions'}
    BY <1>6
  <2>1. PICK k \in DOMAIN order : order[k] = c
    BY <1>7
  <2>2. k \in DOMAIN added /\ added[k].scope = unit(c).scope
    BY <2>1, <1>9
  <2> QED  BY <2>2, <1>13
<1>21. \A q \in 1 .. consumed' : Published(q)' \subseteq {versions'[i].scope : i \in DOMAIN versions'}
  <2> SUFFICES ASSUME NEW q \in 1 .. consumed'
               PROVE  Published(q)' \subseteq {versions'[i].scope : i \in DOMAIN versions'}
    OBVIOUS
  <2>1. Published(q)' = Published(q)
    BY <1>1 DEF Published
  <2>2. CASE q = p
    BY <2>1, <2>2, <1>20
  <2>3. CASE q # p
    <3>1. q \in 1 .. consumed
      BY <2>3, <1>1, <1>3
    <3>2. Published(q) \subseteq {versions[i].scope : i \in DOMAIN versions}
      BY <3>1, <1>2 DEF TablesInv
    <3>3. {versions[i].scope : i \in DOMAIN versions} \subseteq {versions'[i].scope : i \in DOMAIN versions'}
      BY <1>13
    <3> QED  BY <2>1, <3>2, <3>3
  <2> QED  BY <2>2, <2>3
<1>22. TablesInv'
  <2>1. ready' \in Seq(ReadyRecords) /\ consumed' \in 0 .. Len(ready')
    BY <1>1, <1>2, <1>3 DEF TablesInv
  <2>2. \A q \in DOMAIN ready' : (ready[q].at <= Now)'
    BY <1>1, <1>19
  <2> QED  BY <1>13, <1>14, <1>17, <1>18, <1>21, <2>1, <2>2 DEF TablesInv
<1>23. \A i \in DOMAIN versions' \ DOMAIN versions : versions'[i].scope \in Published(p)
  <2> SUFFICES ASSUME NEW i \in DOMAIN versions' \ DOMAIN versions PROVE versions'[i].scope \in Published(p)
    OBVIOUS
  <2>1. i - Len(versions) \in DOMAIN order /\ versions'[i] = added[i - Len(versions)]
    BY <1>13, <1>9
  <2> QED  BY <2>1, <1>6, <1>9
<1>24. \A s \in ScopeVersions : Carried(s)' /\ ~Carried(s) => StateNow(s) = "pending_registry"
  <2> SUFFICES ASSUME NEW s \in ScopeVersions, Carried(s)', ~Carried(s) PROVE StateNow(s) = "pending_registry"
    OBVIOUS
  <2>1. PICK i \in DOMAIN versions' : versions'[i].scope = s
    BY DEF Carried
  <2>2. i \notin DOMAIN versions
    BY <2>1, <1>13 DEF Carried
  <2>3. s \in Published(p) /\ p \in consumed + 1 .. Len(ready)
    BY <2>1, <2>2, <1>23, <1>3
  <2> QED  BY <2>3, <1>2, StateCases
<1>25. CASE Running
  <2>1. /\ report' = [f \in ReportFields |-> report'[f]]
        /\ report'.pc = report.pc /\ report'.sightings = report.sightings
        /\ report'.decisions = report.decisions /\ report'.cursor = report.cursor
        /\ report'.latest = report.latest /\ report.grown \subseteq report'.grown
        /\ report.pc = "decisions" => Published(p) \subseteq report'.grown
    <3>1. report = [f \in ReportFields |-> report[f]]
      BY DEF ReportInv
    <3>2. CASE report.pc = "decisions"
      <4>1. report' = [report EXCEPT !.grown = @ \cup Published(p)]
        BY <3>2, <1>1, <1>6
      <4> QED  BY <3>1, <4>1 DEF ReportFields
    <3>3. CASE report.pc # "decisions"
      BY <3>1, <3>3, <1>1
    <3> QED  BY <3>2, <3>3
  <2>2. Len(versions) <= Len(versions') /\ consumed <= consumed' /\ Len(ready) <= Len(ready')
    BY <1>1, <1>3, <1>13
  <2>3. TrailNow \subseteq TrailNow'
    BY <1>14 DEF TrailNow
  <2>4. report.pc = "decisions" =>
          \A i \in DOMAIN versions' \ DOMAIN versions : versions'[i].scope \in report'.grown
    BY <2>1, <1>23
  <2> QED  BY <1>1, <1>13, <1>22, <1>24, <1>25, <2>1, <2>2, <2>3, <2>4, CommitKeeps
<1>26. CASE ~Running
  <2>1. report' = report
    BY <1>1, <1>26 DEF Running
  <2> QED  BY <1>1, <1>22, <1>26, <2>1, IdleKeeps
<1> QED  BY <1>25, <1>26

LEMMA TablesStay ==
    ASSUME TablesInv, UNCHANGED <<ready, consumed, versions, current, events>>
    PROVE  TablesInv'
<1>1. Now' = Now /\ TrailNow' = TrailNow
  BY DEF Now, TrailNow
<1>2. \A v, c : VersionOf(v, c)' <=> VersionOf(v, c)
  BY DEF VersionOf
<1>3. \A c \in ReportCards : VersionOf(current[c], c)'
  BY DEF TablesInv, VersionOf
<1>4. \A i \in DOMAIN events : EventFits(events[i])'
  <2>1. \A i \in DOMAIN events : EventFits(events[i])
    BY DEF TablesInv
  <2> QED  BY <1>1, <2>1 DEF EventFits, VersionOf
<1>5. \A p : Published(p)' = Published(p)
  BY DEF Published
<1>6. \A p \in DOMAIN ready : ready[p].at <= Now
  BY DEF TablesInv
<1>7. \A p \in 1 .. consumed : Published(p)' \subseteq {versions[i].scope : i \in DOMAIN versions}
  BY <1>5 DEF TablesInv
<1>8. (\A p \in DOMAIN ready : ready[p].at <= Now)'
  BY <1>1, <1>6
<1> QED  BY <1>3, <1>4, <1>7, <1>8 DEF TablesInv

LEMMA ListScopeSightingsStep ==
    ASSUME ReportInv, ListScopeSightings
    PROVE  ReportInv'
<1>1. /\ report' = [IdleReport EXCEPT !.pc = "decisions", !.begun = Now, !.sightings = SightingsNow]
      /\ seen' = [s \in ScopeVersions |-> {StateNow(s)}]
      /\ UNCHANGED <<ready, consumed, versions, current, events>>
  BY DEF ListScopeSightings
<1>2. TablesInv /\ TablesInv'
  <2>1. TablesInv
    BY DEF ReportInv
  <2>2. UNCHANGED <<ready, consumed, versions, current, events>>
    BY <1>1
  <2> QED  BY <2>1, <2>2, TablesStay
<1>3. /\ report' = [f \in ReportFields |-> report'[f]] /\ report'.pc = "decisions"
      /\ report'.sightings = SightingsNow
  BY <1>1 DEF IdleReport, ReportFields
<1> DEFINE S == SightingsNow
<1>4. /\ DOMAIN S = DOMAIN versions
      /\ \A i \in DOMAIN versions :
           S[i] = [card |-> versions[i].card, version |-> i, scope |-> versions[i].scope,
                   state |-> versions[i].state, shape |-> versions[i].shape, at |-> versions[i].at,
                   current |-> current[versions[i].card] = i]
  BY DEF SightingsNow
<1> HIDE DEF S
<1>5. /\ Len(versions) \in Nat /\ DOMAIN versions = 1..Len(versions)
      /\ \A i \in DOMAIN versions : versions[i] \in VersionRecords
  BY <1>2, TypesOfTables, RowsOfTables
<1>6. \A i \in DOMAIN versions : S[i] \in SightingRecords
  <2> SUFFICES ASSUME NEW i \in DOMAIN versions PROVE S[i] \in SightingRecords
    OBVIOUS
  <2>1. versions[i] \in VersionRecords /\ i \in Nat
    BY <1>5
  <2>2. /\ versions[i].card \in ReportCards /\ versions[i].scope \in ScopeVersions
        /\ versions[i].state \in {"validated", "rejected"} /\ versions[i].shape \in Shapes
        /\ versions[i].at \in Nat
    BY <2>1 DEF VersionRecords
  <2> DEFINE b == (current[versions[i].card] = i)
  <2>3. b \in BOOLEAN
    OBVIOUS
  <2>4. S[i] = [card |-> versions[i].card, version |-> i, scope |-> versions[i].scope,
                state |-> versions[i].state, shape |-> versions[i].shape, at |-> versions[i].at,
                current |-> b]
    BY <1>4
  <2> HIDE DEF b
  <2> QED  BY <2>1, <2>2, <2>3, <2>4 DEF SightingRecords
<1>7. S \in Seq(SightingRecords) /\ Len(S) = Len(versions)
  <2>1. S \in [1..Len(versions) -> SightingRecords]
    <3>1. S = [i \in DOMAIN versions |-> S[i]]
      BY DEF S, SightingsNow
    <3> QED  BY <1>4, <1>5, <1>6, <3>1
  <2> QED  BY <2>1, <1>5
<1>8. \A i \in DOMAIN S : /\ S[i].version = i /\ S[i].card = versions[i].card /\ S[i].scope = versions[i].scope
                          /\ S[i].state = versions[i].state /\ S[i].shape = versions[i].shape
                          /\ S[i].current = (current[versions[i].card] = i)
  <2> SUFFICES ASSUME NEW i \in DOMAIN versions
               PROVE  /\ S[i].version = i /\ S[i].card = versions[i].card /\ S[i].scope = versions[i].scope
                      /\ S[i].state = versions[i].state /\ S[i].shape = versions[i].shape
                      /\ S[i].current = (current[versions[i].card] = i)
    BY <1>4
  <2> DEFINE b == (current[versions[i].card] = i)
  <2>1. S[i] = [card |-> versions[i].card, version |-> i, scope |-> versions[i].scope,
                state |-> versions[i].state, shape |-> versions[i].shape, at |-> versions[i].at,
                current |-> b]
    BY <1>4
  <2> HIDE DEF b
  <2>2. /\ S[i].version = i /\ S[i].card = versions[i].card /\ S[i].scope = versions[i].scope
        /\ S[i].state = versions[i].state /\ S[i].shape = versions[i].shape /\ S[i].current = b
    BY <2>1
  <2> QED  BY <2>2 DEF b
<1>9. ReadVersions'
  BY <1>1, <1>3, <1>5, <1>7, <1>8 DEF ReadVersions, S
<1>10. ASSUME NEW s \in ScopeVersions PROVE ScopeInv(s)'
  <2>1. seen'[s] = {StateNow(s)} /\ StateNow(s)' = StateNow(s)
    BY <1>1 DEF StateNow, TrailNow, Published
  <2> DEFINE C == CarriersOf(S, s)
  <2>2. Sighted(s)' = C
    BY <1>3 DEF Sighted, S
  <2>3. C = {S[i] : i \in {k \in DOMAIN versions : versions[k].scope = s}}
    BY <1>4, <1>8 DEF CarriersOf
  <2> HIDE DEF C
  <2>4. C # {} <=> Carried(s)
    BY <2>3 DEF Carried
  <2>5. (\E c \in C : c.current) <=> Served(s)
    <3>1. ASSUME NEW c \in C, c.current PROVE Served(s)
      <4>1. PICK i \in DOMAIN versions : c = S[i] /\ versions[i].scope = s
        BY <2>3
      <4>2. c.current = (current[versions[i].card] = i)
        BY <4>1, <1>4, <1>8
      <4> QED  BY <3>1, <4>1, <4>2 DEF Served
    <3>2. ASSUME NEW i \in DOMAIN versions, versions[i].scope = s, current[versions[i].card] = i
          PROVE  S[i] \in C /\ S[i].current
      <4>1. S[i] \in C
        BY <3>2, <2>3
      <4>2. S[i].current = (current[versions[i].card] = i)
        BY <1>4, <1>8
      <4> QED  BY <3>2, <4>1, <4>2
    <3> QED  BY <3>1, <3>2 DEF Served
  <2>6. ScopeDisagreement(C) <=> \E i, j \in DOMAIN versions :
                                   /\ versions[i].scope = s /\ versions[j].scope = s
                                   /\ versions[i].shape # versions[j].shape
    BY <2>3, <1>4, <1>8 DEF ScopeDisagreement
  <2>7. ServedThen(s)' <=> Served(s)
    BY <2>2, <2>5 DEF ServedThen
  <2>8. Carried(s)' <=> Carried(s)
    BY <1>1 DEF Carried
  <2>9. /\ Served(s) => StateNow(s) = IF ScopeDisagreement(C) THEN "broken" ELSE "reachable"
        /\ (Carried(s) /\ ~Served(s)) => StateNow(s) \in NotServed
        /\ ~Carried(s) => StateNow(s) \in {"pending_registry", "unknown"}
    <3>1. Served(s) => StateNow(s) = IF ScopeDisagreement(C) THEN "broken" ELSE "reachable"
      BY <2>6, <1>2, StateCases
    <3>2. (Carried(s) /\ ~Served(s)) => StateNow(s) \in NotServed
      BY <1>2, StateCases DEF NotServed
    <3>3. ~Carried(s) => StateNow(s) \in {"pending_registry", "unknown"}
      BY <1>2, StateCases
    <3> QED  BY <3>1, <3>2, <3>3
  <2> QED  BY <1>3, <2>1, <2>2, <2>4, <2>7, <2>8, <2>9 DEF ScopeInv
<1>11. RunningFacts'
  <2>1. DOMAIN report'.sightings = DOMAIN versions'
    BY <1>1, <1>3, <1>4 DEF S
  <2> QED  BY <1>3, <1>9, <1>10, <2>1 DEF RunningFacts
<1>12. ReportIsHonest'
  BY <1>3 DEF ReportIsHonest
<1>13. seen' = [s \in ScopeVersions |-> seen'[s]]
  BY <1>1
<1> QED  BY <1>2, <1>3, <1>11, <1>12, <1>13 DEF ReportInv

\* A read of the report that is not its first or last.
LEMMA ReadKeeps ==
    ASSUME ReportInv, Running, UNCHANGED <<ready, consumed, versions, current, events, seen>>,
           report' = [f \in ReportFields |-> report'[f]],
           report'.pc \in {"cursor", "sight", "judge"}, report'.sightings = report.sightings,
           report'.grown = report.grown,
           report'.decisions \subseteq ToScopeDecisions(TrailNow),
           report'.pc \in {"sight", "judge"} => report'.cursor \in 0 .. consumed,
           report'.decisions # report.decisions => report.pc = "decisions",
           report.pc = "decisions" => report'.decisions = ToScopeDecisions(TrailNow),
           report'.pc = "judge" => report'.latest = IF report'.cursor = 0 THEN 0 ELSE Len(ready)
    PROVE  ReportInv'
<1>1. TablesInv /\ TablesInv'
  <2>1. TablesInv
    BY DEF ReportInv
  <2> QED  BY <2>1, TablesStay
<1>2. RunningFacts
  BY DEF ReportInv
<1>3. ReadVersions /\ ReadVersions'
  BY <1>2 DEF RunningFacts, ReadVersions
<1>4. ASSUME NEW s \in ScopeVersions PROVE ScopeInv(s)'
  <2>1. ScopeInv(s)
    BY <1>2 DEF RunningFacts
  <2>2. StateNow(s)' = StateNow(s) /\ Sighted(s)' = Sighted(s)
    BY DEF StateNow, TrailNow, Published, Sighted
  <2>3. (ServedThen(s)' <=> ServedThen(s)) /\ (Carried(s)' <=> Carried(s))
    BY <2>2 DEF ServedThen, Carried
  <2>4. (s \notin report.grown /\ Sighted(s) # {} /\ ~ServedThen(s))
          => Judged(s)'.state \in seen[s] \/ seen[s] \cap {"reachable", "broken"} # {}
    <3> SUFFICES ASSUME s \notin report.grown, Sighted(s) # {}, ~ServedThen(s)
                 PROVE  Judged(s)'.state \in seen[s] \/ seen[s] \cap {"reachable", "broken"} # {}
      OBVIOUS
    <3>1. CASE report.pc # "decisions"
      <4>1. Judged(s)' = Judged(s)
        BY <2>2, <3>1 DEF Judged
      <4> QED  BY <4>1, <3>1, <2>1 DEF ScopeInv
    <3>2. CASE report.pc = "decisions" /\ Served(s)
      <4>1. StateNow(s) \in {"reachable", "broken"}
        BY <3>2, <1>1, StateCases
      <4> QED  BY <4>1, <2>1 DEF ScopeInv
    <3>3. CASE report.pc = "decisions" /\ ~Served(s)
      <4> DEFINE D == {e \in ToScopeDecisions(TrailNow) : e.card \in {c.card : c \in Sighted(s)}}
                 J == JudgeScopeReachability(s, Sighted(s), D)
      <4>1. Judged(s)' = J
        BY <2>2, <3>3 DEF Judged
      <4>2. \A i \in DOMAIN versions \ DOMAIN report.sightings : versions[i].scope # s
        BY <3>3, <1>2 DEF RunningFacts
      <4>3. J.state = StateNow(s)
        BY <1>1, <1>3, <3>3, <4>2, JudgeAgrees
      <4> HIDE DEF J, D
      <4> QED  BY <4>1, <4>3, <2>1 DEF ScopeInv
    <3> QED  BY <3>1, <3>2, <3>3
  <2>5. (report'.pc = "judge" /\ seen[s] = {"pending_registry"})
          => (report'.cursor = 0 \/ report'.cursor < report'.latest)
    <3> SUFFICES ASSUME report'.pc = "judge", seen[s] = {"pending_registry"}, report'.cursor # 0
                 PROVE  report'.cursor < Len(ready)
      OBVIOUS
    <3>1. StateNow(s) = "pending_registry"
      BY <2>1 DEF ScopeInv
    <3>2. ~Carried(s)
      <4>1. Served(s) => StateNow(s) \in {"broken", "reachable"}
        BY <1>1, StateCases
      <4>2. Carried(s) /\ ~Served(s) => StateNow(s) # "pending_registry"
        BY <1>1, StateCases
      <4> QED  BY <3>1, <4>1, <4>2
    <3>3. PICK p \in consumed + 1 .. Len(ready) : s \in Published(p)
      BY <1>1, <3>1, <3>2, StateCases
    <3>4. consumed \in Nat /\ Len(ready) \in Nat /\ report'.cursor \in 0 .. consumed
      BY <1>1, TypesOfTables
    <3> QED  BY <3>3, <3>4
  <2> QED  BY <2>1, <2>2, <2>3, <2>4, <2>5 DEF ScopeInv
<1>5. RunningFacts'
  <2>1. TrailNow' = TrailNow
    BY DEF TrailNow
  <2>2. report'.pc = "judge" => report'.latest \in 0 .. Len(ready)
    BY <1>1, TypesOfTables
  <2> QED  BY <1>3, <1>4, <2>1, <2>2 DEF RunningFacts, ToScopeDecisions
<1>6. ReportIsHonest'
  BY DEF ReportIsHonest
<1>7. seen' = [s \in ScopeVersions |-> seen'[s]]
  BY DEF ReportInv
<1> QED  BY <1>1, <1>5, <1>6, <1>7 DEF ReportInv

LEMMA ReadStep ==
    ASSUME ReportInv, ListOperatorDecisions \/ ListCursors \/ Sight
    PROVE  ReportInv'
<1>1. report = [f \in ReportFields |-> report[f]] /\ TablesInv
  BY DEF ReportInv
<1>2. consumed \in 0 .. consumed
  BY <1>1, TypesOfTables
<1>3. CASE ListOperatorDecisions
  <2>1. Running /\ RunningFacts
    BY <1>3 DEF ListOperatorDecisions, Running, ReportInv
  <2>2. /\ report.pc = "decisions" /\ UNCHANGED <<ready, consumed, versions, current, events, seen>>
        /\ report' = [report EXCEPT !.pc = "cursor", !.decisions = ToScopeDecisions(TrailNow)]
    BY <1>3 DEF ListOperatorDecisions
  <2>3. /\ report' = [f \in ReportFields |-> report'[f]] /\ report'.pc = "cursor"
        /\ report'.sightings = report.sightings /\ report'.grown = report.grown
        /\ report'.decisions = ToScopeDecisions(TrailNow)
    BY <1>1, <2>2 DEF ReportFields
  <2> QED  BY <2>1, <2>2, <2>3, ReadKeeps
<1>4. CASE ListCursors
  <2>1. Running /\ RunningFacts
    BY <1>4 DEF ListCursors, Running, ReportInv
  <2>2. /\ report.pc = "cursor" /\ UNCHANGED <<ready, consumed, versions, current, events, seen>>
        /\ report' = [report EXCEPT !.pc = "sight", !.cursor = consumed]
    BY <1>4 DEF ListCursors
  <2>3. /\ report' = [f \in ReportFields |-> report'[f]] /\ report'.pc = "sight"
        /\ report'.sightings = report.sightings /\ report'.grown = report.grown
        /\ report'.decisions = report.decisions /\ report'.cursor = consumed
    BY <1>1, <2>2 DEF ReportFields
  <2>4. report.decisions \subseteq ToScopeDecisions(TrailNow)
    BY <2>1, <2>2 DEF RunningFacts
  <2> QED  BY <1>2, <2>1, <2>2, <2>3, <2>4, ReadKeeps
<1>5. CASE Sight
  <2>1. Running /\ RunningFacts
    BY <1>5 DEF Sight, Running, ReportInv
  <2>2. /\ report.pc = "sight" /\ UNCHANGED <<ready, consumed, versions, current, events, seen>>
        /\ report' = [report EXCEPT !.pc = "judge", !.latest = IF report.cursor = 0 THEN 0 ELSE Len(ready)]
    BY <1>5 DEF Sight
  <2>3. /\ report' = [f \in ReportFields |-> report'[f]] /\ report'.pc = "judge"
        /\ report'.sightings = report.sightings /\ report'.grown = report.grown
        /\ report'.decisions = report.decisions /\ report'.cursor = report.cursor
        /\ report'.latest = IF report.cursor = 0 THEN 0 ELSE Len(ready)
    BY <1>1, <2>2 DEF ReportFields
  <2>4. report.decisions \subseteq ToScopeDecisions(TrailNow) /\ report.cursor \in 0 .. consumed
    BY <2>1, <2>2 DEF RunningFacts
  <2> QED  BY <2>1, <2>2, <2>3, <2>4, ReadKeeps
<1> QED  BY <1>3, <1>4, <1>5

\* A coverage of everything leaves no verdict of another kind.
LEMMA FullCoverage ==
    ASSUME NEW V, IsFiniteSet(V), Coverage(V)[1] = Coverage(V)[2]
    PROVE  \A v \in V : v.state \in {"reachable", "intentionally_unexposed", "pending_registry"}
<1> DEFINE Of(state) == {v \in V : v.state = state}
           R == Of("reachable")  P == Of("pending_registry")  U == Of("intentionally_unexposed")
           n == Cardinality(V)  r == Cardinality(R)  p == Cardinality(P)  u == Cardinality(U)
<1>1. R \subseteq V /\ P \subseteq V /\ U \subseteq V
  OBVIOUS
<1>2. R \cap P = {} /\ (R \cup P) \cap U = {} /\ P \cap U = {}
  OBVIOUS
<1>3. \A v \in R \cup P \cup U : v.state \in {"reachable", "intentionally_unexposed", "pending_registry"}
  OBVIOUS
<1>4. Coverage(V) = IF n - p - u = 0 THEN <<1, 1>> ELSE <<r, n - p - u>>
  BY DEF Coverage, CountOf
<1>5. IsFiniteSet(R) /\ IsFiniteSet(P) /\ IsFiniteSet(U)
  <2> HIDE DEF R, P, U
  <2> QED  BY <1>1, FS_Subset
<1>6. n \in Nat /\ r \in Nat /\ p \in Nat /\ u \in Nat
  <2> HIDE DEF R, P, U
  <2> QED  BY <1>5, FS_CardinalityType
<1>7. IsFiniteSet(P \cup U) /\ Cardinality(P \cup U) = p + u
  <2> HIDE DEF R, P, U
  <2>1. /\ IsFiniteSet(P \cup U)
        /\ Cardinality(P \cup U) = Cardinality(P) + Cardinality(U) - Cardinality(P \cap U)
    BY <1>5, FS_Union
  <2>2. Cardinality(P \cap U) = 0
    BY <1>2, FS_EmptySet
  <2> QED  BY <2>1, <2>2, <1>6
<1>8. IsFiniteSet(R \cup P \cup U) /\ Cardinality(R \cup P \cup U) = r + p + u
  <2> HIDE DEF R, P, U
  <2>1. /\ IsFiniteSet(R \cup (P \cup U))
        /\ Cardinality(R \cup (P \cup U)) = Cardinality(R) + Cardinality(P \cup U) - Cardinality(R \cap (P \cup U))
    BY <1>5, <1>7, FS_Union
  <2>2. R \cap (P \cup U) = {} /\ R \cup (P \cup U) = R \cup P \cup U
    BY <1>2
  <2>3. Cardinality({}) = 0
    BY FS_EmptySet
  <2>4. Cardinality(R \cup P \cup U) = r + (p + u) - 0
    BY <2>1, <2>2, <2>3, <1>7
  <2>5. IsFiniteSet(R \cup P \cup U)
    BY <2>1, <2>2
  <2> HIDE DEF r, p, u
  <2> QED  BY <2>4, <2>5, <1>6
<1> HIDE DEF R, P, U, Of
<1>9. CASE n - p - u = 0
  <2>1. Cardinality(P \cup U) = Cardinality(V) /\ P \cup U \subseteq V
    BY <1>1, <1>6, <1>7, <1>9
  <2>2. P \cup U = V
    BY <2>1, FS_Subset
  <2> QED  BY <2>2, <1>3
<1>10. CASE n - p - u # 0
  <2>1. r = n - p - u
    <3> HIDE DEF n, p, u, r
    <3> QED  BY <1>4, <1>10
  <2>2. Cardinality(R \cup P \cup U) = Cardinality(V) /\ R \cup P \cup U \subseteq V
    BY <2>1, <1>1, <1>6, <1>8
  <2>3. R \cup P \cup U = V
    BY <2>2, FS_Subset
  <2> QED  BY <2>3, <1>3
<1> QED  BY <1>9, <1>10

\* The oldest state is as old as any dated one.
LEMMA OldestIsOldest ==
    ASSUME NEW V, NEW now \in Nat, \A v \in V : v.since \in Nat \cup {NoTime},
           NEW w \in V, w.since # NoTime, w.since <= now
    PROVE  OldestStateAge(V, now) >= now - w.since /\ OldestStateAge(V, now) \in Int
<1> DEFINE dated == {v \in V : v.since # NoTime /\ v.since <= now}
           T == {v.since : v \in dated}
<1>1. w \in dated /\ w.since \in T /\ T \in SUBSET Nat
  OBVIOUS
<1>2. OldestStateAge(V, now) = now - Min(T)
  BY <1>1 DEF OldestStateAge
<1> HIDE DEF dated, T
<1>3. PICK t \in T : \A y \in T : t <= y
  BY <1>1, LeastOf
<1>4. Min(T) \in T /\ \A y \in T : Min(T) <= y
  BY <1>3 DEF Min
<1>5. Min(T) \in Nat /\ Min(T) <= w.since /\ w.since \in Nat
  BY <1>1, <1>4
<1> QED  BY <1>2, <1>5

LEMMA SummarizeStep ==
    ASSUME ReportInv, SummarizeScopeReachability
    PROVE  ReportInv'
<1> DEFINE last == ready[Len(ready)]
           behind == Behind(report.cursor, report.latest)
           scopes == {report.sightings[i].scope : i \in DOMAIN report.sightings}
           published == Published(Len(ready))
           Awaiting(s) == Verdict(s, "pending_registry", last.at, {}, NoEvent)
           observed == {Judged(s) : s \in scopes}
           waiting == IF behind THEN {Awaiting(s) : s \in published \ scopes} ELSE {}
           V == observed \cup waiting
<1>1. /\ report.pc = "judge" /\ UNCHANGED <<ready, consumed, versions, current, events, seen>>
      /\ report' = [report EXCEPT !.pc = "done", !.verdicts = V, !.gate = GateViolations(V)]
  <2>1. observed = Observed(report.sightings, report.decisions)
    BY DEF Observed, Judged, Sighted
  <2>2. {Awaiting(s) : s \in published \ scopes} = AwaitingRegistry(report.sightings, last)
    BY DEF AwaitingRegistry, Published
  <2> HIDE DEF observed
  <2> QED  BY <2>1, <2>2 DEF SummarizeScopeReachability
<1>2. /\ TablesInv /\ RunningFacts /\ ReadVersions
      /\ report = [f \in ReportFields |-> report[f]] /\ seen = [s \in ScopeVersions |-> seen[s]]
  <2>1. Running
    BY <1>1 DEF Running
  <2> QED  BY <2>1 DEF ReportInv, RunningFacts
<1> HIDE DEF V
<1>3. /\ report'.pc = "done" /\ report'.verdicts = V /\ report'.gate = GateViolations(V)
      /\ report'.grown = report.grown /\ report'.cursor = report.cursor
      /\ report' = [f \in ReportFields |-> report'[f]]
  BY <1>1, <1>2 DEF ReportFields
<1>4. /\ Len(ready) \in Nat /\ DOMAIN ready = 1..Len(ready) /\ Now \in Nat
      /\ report.cursor \in 0 .. consumed /\ report.latest \in 0 .. Len(ready) /\ consumed \in Nat
      /\ consumed <= Len(ready)
  BY <1>1, <1>2, TypesOfTables DEF RunningFacts
<1>5. behind => Len(ready) \in DOMAIN ready
  BY <1>4 DEF Behind
<1>6. behind => /\ last.at \in Nat /\ last.at <= Now
                /\ published \subseteq ScopeVersions /\ IsFiniteSet(published)
  <2> SUFFICES ASSUME behind
               PROVE  /\ last.at \in Nat /\ last.at <= Now
                      /\ published \subseteq ScopeVersions /\ IsFiniteSet(published)
    OBVIOUS
  <2>1. last.at \in Nat /\ last.at <= Now /\ last.scopes \in ReadyPlans
    BY <1>2, <1>5, RowsOfTables
  <2>2. published \subseteq ScopeVersions
    BY <2>1, ReachAssumption DEF Published
  <2>3. IsFiniteSet(published)
    <3> DEFINE f == [c \in ReportCards |-> last.scopes[c].scope]
               U == {f[c] : c \in ReportCards}
    <3>1. published \subseteq U
      BY DEF Published
    <3> HIDE DEF f
    <3>2. IsFiniteSet(U)
      BY ReachAssumption, ImageFinite
    <3> HIDE DEF U
    <3> QED  BY <3>1, <3>2, FS_Subset
  <2> QED  BY <2>1, <2>2, <2>3
<1>7. /\ \A s : s \in scopes <=> Sighted(s) # {}
      /\ scopes \subseteq ScopeVersions /\ IsFiniteSet(scopes)
  <2>1. \A s : s \in scopes <=> Sighted(s) # {}
    BY DEF Sighted, CarriersOf
  <2>2. scopes \subseteq ScopeVersions
    <3>1. \A i \in DOMAIN report.sightings : report.sightings[i] \in SightingRecords
      BY <1>2 DEF ReadVersions
    <3> QED  BY <3>1 DEF SightingRecords
  <2>3. IsFiniteSet(scopes)
    <3> DEFINE D == DOMAIN report.sightings  f == [i \in D |-> report.sightings[i].scope]
    <3>1. IsFiniteSet(D)
      <4>1. Len(report.sightings) \in Nat /\ D = 1..Len(report.sightings)
        BY <1>2 DEF ReadVersions
      <4> QED  BY <4>1, FS_Interval
    <3>2. scopes = {f[i] : i \in D}
      OBVIOUS
    <3> HIDE DEF D, f, scopes
    <3> QED  BY <3>1, <3>2, ImageFinite
  <2> QED  BY <2>1, <2>2, <2>3
<1>8. \A s : Judged(s).scope = s
  BY JudgeCases DEF Judged
<1>9. \A s : Awaiting(s).scope = s /\ Awaiting(s).state = "pending_registry" /\ Awaiting(s).since = last.at
  BY DEF Verdict
<1> HIDE DEF scopes, published, behind, last, Awaiting
<1>10. IsFiniteSet(V)
  <2>1. IsFiniteSet(observed)
    <3> DEFINE f == [s \in scopes |-> Judged(s)]
    <3>1. observed = {f[s] : s \in scopes}
      OBVIOUS
    <3> HIDE DEF f, observed
    <3> QED  BY <3>1, <1>7, ImageFinite
  <2>2. IsFiniteSet(waiting)
    <3>1. CASE behind
      <4> DEFINE U == published \ scopes  f == [s \in U |-> Awaiting(s)]
      <4>1. waiting = {f[s] : s \in U}
        BY <3>1
      <4>2. U \subseteq published
        OBVIOUS
      <4> HIDE DEF f, waiting, U
      <4>3. IsFiniteSet(U)
        BY <3>1, <4>2, <1>6, FS_Subset
      <4> QED  BY <4>1, <4>3, ImageFinite
    <3>2. CASE ~behind
      BY <3>2, FS_EmptySet
    <3> QED  BY <3>1, <3>2
  <2> HIDE DEF observed, waiting
  <2> QED  BY <2>1, <2>2, FS_Union DEF V
<1>11. \A v \in V : \/ v.scope \in scopes /\ v = Judged(v.scope)
                    \/ behind /\ v.scope \in published \ scopes /\ v = Awaiting(v.scope)
  BY <1>8, <1>9 DEF V
<1>12. /\ \A s \in scopes : Judged(s) \in V
       /\ behind => \A s \in published \ scopes : Awaiting(s) \in V
  BY DEF V
<1>13. \A s \in ScopeVersions : VerdictsOn(s)' = {v \in V : v.scope = s}
  BY <1>3 DEF VerdictsOn
<1>14. \A s \in scopes : {v \in V : v.scope = s} = {Judged(s)}
  BY <1>8, <1>11, <1>12
<1>15. \A s : s \notin scopes => {v \in V : v.scope = s} = IF behind /\ s \in published THEN {Awaiting(s)} ELSE {}
  BY <1>9, <1>11, <1>12
<1>16. ASSUME NEW s \in ScopeVersions PROVE Cardinality(VerdictsOn(s)') <= 1
  <2>1. \E x : VerdictsOn(s)' = {x} \/ VerdictsOn(s)' = {}
    BY <1>13, <1>14, <1>15
  <2>2. Cardinality({}) = 0 /\ \A x : Cardinality({x}) = 1
    BY FS_EmptySet, FS_Singleton
  <2>3. Cardinality(VerdictsOn(s)') \in {0, 1}
    BY <2>1, <2>2
  <2> QED  BY <2>3
<1>17. ASSUME NEW s \in ScopeVersions, s \in scopes, ~ServedThen(s)
       PROVE  Judged(s).state \in NotServed
  <2> DEFINE C == Sighted(s)
             D == {e \in report.decisions : e.card \in {c.card : c \in Sighted(s)}}
             J == Judged(s)
  <2>1. J = JudgeScopeReachability(s, C, D)
    BY DEF Judged
  <2>2. ServingOf(C) = {}
    BY <1>17 DEF ServingOf, ServedThen
  <2> HIDE DEF C, D, J
  <2>3. /\ (ServingOf(C) = {} /\ AwaitingOf(C, D) # {}) => J.state = "pending_approval"
        /\ (ServingOf(C) = {} /\ AwaitingOf(C, D) = {})
             => J.state = IF ExplainedOf(D) # {} THEN "intentionally_unexposed" ELSE "orphaned"
    BY ONLY <2>1, JudgeCases
  <2> QED  BY <2>2, <2>3 DEF NotServed, J
<1>18. ASSUME NEW s \in ScopeVersions, ServedThen(s)
       PROVE  Judged(s).state = IF ScopeDisagreement(Sighted(s)) THEN "broken" ELSE "reachable"
  <2> DEFINE C == Sighted(s)
             D == {e \in report.decisions : e.card \in {c.card : c \in Sighted(s)}}
             J == Judged(s)
  <2>1. J = JudgeScopeReachability(s, C, D)
    BY DEF Judged
  <2>2. ServingOf(C) # {}
    BY <1>18 DEF ServingOf, ServedThen
  <2> HIDE DEF C, D, J
  <2>3. ServingOf(C) # {} => J.state = IF ScopeDisagreement(C) THEN "broken" ELSE "reachable"
    BY ONLY <2>1, JudgeCases
  <2> QED  BY <2>2, <2>3 DEF J, C
<1>19. ASSUME NEW s \in ScopeVersions, NEW v \in VerdictsOn(s)', v.state = "reachable"
       PROVE  seen[s] \cap {"reachable", "broken"} # {}
  <2>1. v \in V /\ v.scope = s
    BY <1>13
  <2>2. s \in scopes /\ v = Judged(s)
    BY <2>1, <1>9, <1>11, <1>19
  <2>3. ServedThen(s)
    BY <2>2, <1>17, <1>19 DEF NotServed
  <2>4. ScopeInv(s)
    BY <1>2 DEF RunningFacts
  <2> QED  BY <2>3, <2>4 DEF ScopeInv
<1>20. ASSUME NEW s \in ScopeVersions, s \notin report.grown, NEW state \in States \ {"pending_registry"},
              seen[s] = {state}
       PROVE  {v.state : v \in VerdictsOn(s)'} = {state} /\ \E v \in V : v.state = state
  <2>1. ScopeInv(s)
    BY <1>2 DEF RunningFacts
  <2>2. s \in scopes
    <3>1. seen[s] \cap {"pending_registry", "unknown"} = {}
      BY <1>20 DEF States
    <3> QED  BY <2>1, <3>1, <1>7 DEF ScopeInv
  <2>3. Judged(s).state = state
    <3>1. CASE ServedThen(s)
      BY <3>1, <2>1, <1>18, <1>20 DEF ScopeInv
    <3>2. CASE ~ServedThen(s)
      <4>1. Sighted(s) # {}
        BY <2>2, <1>7
      <4>2. seen[s] \cap NotServed # {}
        BY <4>1, <3>2, <2>1 DEF ScopeInv
      <4>3. seen[s] \cap {"reachable", "broken"} = {}
        BY <4>2, <1>20 DEF NotServed
      <4>4. Judged(s).state \in seen[s]
        BY <4>1, <4>3, <3>2, <2>1, <1>1, <1>20 DEF ScopeInv
      <4> QED  BY <4>4, <1>20
    <3> QED  BY <3>1, <3>2
  <2>4. VerdictsOn(s)' = {Judged(s)}
    BY <2>2, <1>13, <1>14
  <2> QED  BY <2>2, <2>3, <2>4, <1>12
<1>21. ASSUME NEW state \in {"broken", "orphaned"}, \E v \in V : v.state = state
       PROVE  state \in report'.gate
  <2> DEFINE T == {v \in V : v.state = state}
  <2>1. T # {} /\ T \subseteq V
    BY <1>21
  <2>2. CountOf(V, state) = Cardinality(T)
    BY DEF CountOf
  <2> HIDE DEF T
  <2>3. IsFiniteSet(T)
    BY <2>1, <1>10, FS_Subset
  <2>4. Cardinality(T) \in Nat /\ Cardinality(T) # 0
    BY <2>1, <2>3, FS_CardinalityType, FS_EmptySet
  <2>5. CountOf(V, state) > 0
    BY <2>2, <2>4
  <2> QED  BY <2>5, <1>3 DEF GateViolations
<1>22. ASSUME NEW s \in ScopeVersions, report.cursor # 0, seen[s] = {"pending_registry"}, s \in published
       PROVE  {v.state : v \in VerdictsOn(s)'} = {"pending_registry"}
  <2>1. ScopeInv(s)
    BY <1>2 DEF RunningFacts
  <2>2. s \notin scopes
    <3> SUFFICES ASSUME Sighted(s) # {} PROVE FALSE
      BY <1>7
    <3>1. CASE ServedThen(s)
      BY <3>1, <2>1, <1>22 DEF ScopeInv
    <3>2. CASE ~ServedThen(s)
      BY <3>2, <2>1, <1>22 DEF ScopeInv, NotServed
    <3> QED  BY <3>1, <3>2
  <2>3. report.cursor < report.latest
    BY <2>1, <1>1, <1>22 DEF ScopeInv
  <2>4. behind
    BY <2>3, <1>4 DEF behind, Behind
  <2>5. VerdictsOn(s)' = {Awaiting(s)}
    BY <2>2, <2>4, <1>13, <1>15, <1>22
  <2> QED  BY <2>5, <1>9
<1>23. \A v \in V : v.since \in Nat \cup {NoTime}
  <2> SUFFICES ASSUME NEW v \in V PROVE v.since \in Nat \cup {NoTime}
    OBVIOUS
  <2>1. ASSUME NEW s \in scopes PROVE Judged(s).since \in Nat \cup {NoTime}
    <3> DEFINE C == Sighted(s)
               D == {e \in report.decisions : e.card \in {c.card : c \in Sighted(s)}}
    <3>1. Judged(s) = JudgeScopeReachability(s, C, D)
      BY DEF Judged
    <3>2. \A c \in C : c.at \in Nat
      BY <1>2, SightedAre
    <3>3. \A e \in D : e.at \in Nat /\ e.at <= Now
      <4>1. D \subseteq TrailNow
        BY <1>1, <1>2 DEF RunningFacts, ToScopeDecisions
      <4>2. \A e \in TrailNow : e.at \in Nat /\ e.at <= Now
        BY <1>2, RowsOfTables DEF TrailNow, EventFits
      <4> QED  BY <4>1, <4>2
    <3> HIDE DEF C, D
    <3> QED  BY <3>1, <3>2, <3>3, <1>4, JudgeDated
  <2> QED  BY <2>1, <1>6, <1>9, <1>11
<1>24. ASSUME NEW v \in V, v.state = "pending_registry"
       PROVE  behind /\ v.scope \in published \ scopes /\ v.since = last.at /\ v.scope \in ScopeVersions
  <2>1. v.scope \in scopes => v = Judged(v.scope)
    BY <1>9, <1>11
  <2>2. v.scope \notin scopes
    <3> SUFFICES ASSUME v.scope \in scopes PROVE FALSE
      OBVIOUS
    <3>1. v.scope \in ScopeVersions /\ Judged(v.scope).state = "pending_registry"
      BY <2>1, <1>7, <1>24
    <3>2. CASE ServedThen(v.scope)
      BY <3>1, <3>2, <1>18
    <3>3. CASE ~ServedThen(v.scope)
      BY <3>1, <3>3, <1>17 DEF NotServed
    <3> QED  BY <3>2, <3>3
  <2> QED  BY <2>2, <1>6, <1>9, <1>11
<1>25. ASSUME NEW v \in StalePendingScopes(V, Now)
       PROVE  "pending_registry" \in seen[v.scope] /\ OldestStateAge(V, Now) > StalePending
  <2>1. v \in V /\ v.state = "pending_registry" /\ Now - v.since > StalePending
    BY DEF StalePendingScopes
  <2>2. behind /\ v.scope \in published \ scopes /\ v.since = last.at /\ v.scope \in ScopeVersions
    BY <2>1, <1>24
  <2>3. v.since \in Nat /\ v.since <= Now
    BY <2>2, <1>6
  <2>4. OldestStateAge(V, Now) >= Now - v.since /\ OldestStateAge(V, Now) \in Int
    BY <2>1, <2>3, <1>4, <1>23, OldestIsOldest DEF NoTime
  <2>5. OldestStateAge(V, Now) > StalePending
    BY <2>1, <2>3, <2>4, <1>4, ReachAssumption
  <2>6. ScopeInv(v.scope)
    BY <2>2, <1>2 DEF RunningFacts
  <2>7. Sighted(v.scope) = {}
    BY <2>2, <1>7
  <2>8. CASE Carried(v.scope)
    BY <2>5, <2>6, <2>7, <2>8 DEF ScopeInv
  <2>9. CASE ~Carried(v.scope)
    <3>1. consumed # Len(ready)
      <4> SUFFICES ASSUME consumed = Len(ready) PROVE FALSE
        OBVIOUS
      <4>1. Len(ready) \in 1 .. consumed
        BY <1>4, <1>5, <2>2
      <4>2. v.scope \in {versions[i].scope : i \in DOMAIN versions}
        BY <4>1, <1>2, <2>2 DEF TablesInv, published
      <4> QED  BY <4>2, <2>9 DEF Carried
    <3>2. Len(ready) \in consumed + 1 .. Len(ready) /\ v.scope \in Published(Len(ready))
      BY <3>1, <1>4, <2>2 DEF published
    <3>3. StateNow(v.scope) = "pending_registry"
      BY <3>2, <2>9, <1>2, StateCases
    <3> QED  BY <3>3, <2>5, <2>6 DEF ScopeInv
  <2> QED  BY <2>8, <2>9
<1>26. Now' = Now /\ Published(Len(ready))' = published
  BY <1>1 DEF Now, Published, published
<1>27. ReportIsHonest'
  <2>1. Coverage(V)[1] = Coverage(V)[2] =>
          \A v \in V : v.state \in {"reachable", "intentionally_unexposed", "pending_registry"}
    BY <1>10, FullCoverage
  <2>2. StalePendingScopes(V, Now)' = StalePendingScopes(V, Now)' /\ seen' = seen
    BY <1>1
  <2>3. ASSUME NEW s \in ScopeVersions
        PROVE  /\ Cardinality(VerdictsOn(s)') <= 1
               /\ \A v \in VerdictsOn(s)' : v.state = "reachable" => seen[s] \cap {"reachable", "broken"} # {}
               /\ s \notin report.grown =>
                    \A state \in States \ {"pending_registry"} :
                       seen[s] = {state} => /\ {v.state : v \in VerdictsOn(s)'} = {state}
                                            /\ state \in {"broken", "orphaned"} => state \in report'.gate
               /\ (report.cursor # 0 /\ seen[s] = {"pending_registry"} /\ s \in published)
                    => {v.state : v \in VerdictsOn(s)'} = {"pending_registry"}
    BY <1>16, <1>19, <1>20, <1>21, <1>22
  <2> QED  BY <1>3, <1>25, <1>26, <2>1, <2>2, <2>3 DEF ReportIsHonest
<1>28. TablesInv'
  BY <1>1, <1>2, TablesStay
<1>29. ~Running' /\ seen' = [s \in ScopeVersions |-> seen'[s]]
  BY <1>1, <1>2, <1>3 DEF Running
<1> QED  BY <1>3, <1>27, <1>28, <1>29 DEF ReportInv

\* The report's invariant is inductive.
LEMMA ReportStep ==
    ASSUME ReportInv, [ReachNext]_reachVars
    PROVE  ReportInv'
<1>1. CASE UNCHANGED reachVars
  <2>1. UNCHANGED <<ready, consumed, versions, current, events, report, seen>>
    BY <1>1 DEF reachVars
  <2>2. TablesInv'
    BY <2>1, TablesStay DEF ReportInv
  <2>3. ASSUME RunningFacts PROVE RunningFacts'
    <3>1. TrailNow' = TrailNow /\ (ReadVersions' <=> ReadVersions)
      BY <2>1 DEF TrailNow, ReadVersions
    <3>2. ASSUME NEW s PROVE StateNow(s)' = StateNow(s) /\ Sighted(s)' = Sighted(s) /\ (Carried(s)' <=> Carried(s))
      BY <2>1, <3>1 DEF StateNow, Published, Sighted, Carried
    <3>3. ASSUME NEW s PROVE (ServedThen(s)' <=> ServedThen(s)) /\ Judged(s)' = Judged(s)
      BY <2>1, <3>2 DEF ServedThen, Judged
    <3>4. ASSUME NEW s \in ScopeVersions PROVE ScopeInv(s)'
      <4>1. ScopeInv(s)
        BY <2>3 DEF RunningFacts
      <4> QED  BY <4>1, <2>1, <3>2, <3>3 DEF ScopeInv
    <3> QED  BY <2>1, <2>3, <3>1, <3>4 DEF RunningFacts
  <2>4. ReportIsHonest'
    <3>1. ReportIsHonest
      BY DEF ReportInv
    <3>2. report' = report /\ seen' = seen /\ ready' = ready /\ Now' = Now
      BY <2>1 DEF Now
    <3>3. (\A v \in StalePendingScopes(report.verdicts, Now) :
             "pending_registry" \in seen[v.scope] /\ OldestStateAge(report.verdicts, Now) > StalePending)
          <=> (\A v \in StalePendingScopes(report.verdicts, Now) :
             "pending_registry" \in seen[v.scope] /\ OldestStateAge(report.verdicts, Now) > StalePending)'
      BY <3>2
    <3>4. ASSUME NEW s \in ScopeVersions
          PROVE  VerdictsOn(s)' = VerdictsOn(s) /\ Published(Len(ready))' = Published(Len(ready))
      BY <3>2 DEF VerdictsOn, Published
    <3> DEFINE On(s) ==
          /\ Cardinality(VerdictsOn(s)) <= 1
          /\ \A v \in VerdictsOn(s) : v.state = "reachable" => seen[s] \cap {"reachable", "broken"} # {}
          /\ s \notin report.grown =>
               \A state \in States \ {"pending_registry"} :
                  seen[s] = {state} => /\ {v.state : v \in VerdictsOn(s)} = {state}
                                       /\ state \in {"broken", "orphaned"} => state \in report.gate
          /\ (report.cursor # 0 /\ seen[s] = {"pending_registry"} /\ s \in Published(Len(ready)))
               => {v.state : v \in VerdictsOn(s)} = {"pending_registry"}
    <3>5. ASSUME NEW s \in ScopeVersions, On(s) PROVE On(s)'
      <4>1. {v.state : v \in VerdictsOn(s)'} = {v.state : v \in VerdictsOn(s)}
        BY <3>4
      <4>2. Cardinality(VerdictsOn(s)') = Cardinality(VerdictsOn(s))
        BY <3>4
      <4>3. \A v \in VerdictsOn(s)' : v.state = "reachable" => seen'[s] \cap {"reachable", "broken"} # {}
        BY <3>2, <3>4, <3>5
      <4>4. s \notin report'.grown =>
               \A state \in States \ {"pending_registry"} :
                  seen'[s] = {state} => /\ {v.state : v \in VerdictsOn(s)'} = {state}
                                        /\ state \in {"broken", "orphaned"} => state \in report'.gate
        BY <3>2, <3>5, <4>1
      <4>5. (report'.cursor # 0 /\ seen'[s] = {"pending_registry"} /\ s \in Published(Len(ready))')
               => {v.state : v \in VerdictsOn(s)'} = {"pending_registry"}
        BY <3>2, <3>4, <3>5, <4>1
      <4>6. Cardinality(VerdictsOn(s)') <= 1
        BY <3>5, <4>2
      <4> QED  BY <4>3, <4>4, <4>5, <4>6
    <3> QED  BY <3>1, <3>2, <3>3, <3>5 DEF ReportIsHonest
  <2> QED  BY <2>1, <2>2, <2>3, <2>4 DEF ReportInv, Running
<1> QED  BY <1>1, PublishReadyStep, ConsumeReadyStep, OperatorDecidesStep, ListScopeSightingsStep, ReadStep,
            SummarizeStep DEF ReachNext

\* The invariant of a report that reads while others commit.
THEOREM ReportInvariant == ReachSpec => []ReportInv
<1>1. ReachInit => ReportInv
  BY ReportInit
<1>2. ReportInv /\ [ReachNext]_reachVars => ReportInv'
  BY ReportStep
<1> QED  BY <1>1, <1>2, PTL DEF ReachSpec

\* buildReachabilityReport: whatever intakes and operators commit between its
\* reads, a report gives one verdict on a scope, calls a scope reachable only if
\* it was served while the report ran, and reports a scope that stayed in one
\* state in that state.
THEOREM ReportTellsTheTruth == ReachSpec => []ReportIsHonest
<1>1. ReportInv => ReportIsHonest
  BY DEF ReportInv
<1> QED  BY <1>1, ReportInvariant, PTL
=============================================================================
