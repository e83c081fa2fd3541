------------------------- MODULE AssetInstallation -------------------------
(***************************************************************************)
(* Installing the assets of the local embedding model:                     *)
(* runAssetInstallation and HuggingFaceLocalEmbeddingAssetSource           *)
(* (apps/contextctl-daemon/src/cli/asset-installation.ts) over             *)
(* installLocalEmbeddingAssets                                             *)
(* (packages/ingestion-indexing/src/infrastructure/                        *)
(* local-embedding-asset-installation.ts), and how the runtime finds what  *)
(* is installed (cli/asset-directory.ts).                                  *)
(*                                                                         *)
(* Several installers share the managed directory; any of them may stop    *)
(* after any step.  A directory maps its files to what is in them.         *)
(***************************************************************************)
EXTENDS Integers, FiniteSets

CONSTANTS
    Installers,         \* runs of `contextctl assets install` and of the installer
    Revisions,          \* model revisions, each pinned by some profile
    AssetFiles,         \* files of a revision
    DownloadAttempts,   \* attempts per file
    FirstRoots          \* the managed directories the runs may find

VARIABLES
    revisions,   \* revision -> its directory, or NoDirectory
    pointer,     \* active.json: the revision it names, or NoRevision
    inst,        \* installer -> its progress
    serving      \* the revision a runtime resolved and reads, or NoRevision

assetVars == <<revisions, pointer, inst, serving>>

NoRevision == "none"
NoDirectory == [there |-> FALSE]
Complete == [there |-> TRUE, files |-> AssetFiles, manifest |-> TRUE]
Started == [there |-> TRUE, files |-> {}, manifest |-> FALSE]

\* verifyLocalEmbeddingAssets: every file of the manifest with its size and digest.
Verified(directory) == directory = Complete

\* Only an installer has written a managed directory: its pointer is empty or
\* leads to a revision that was verified.
ASSUME AssetAssumption ==
    /\ DownloadAttempts \in Nat \ {0} /\ AssetFiles # {}
    /\ NoRevision \notin Revisions
    /\ \A root \in FirstRoots :
         /\ root.revisions = [r \in Revisions |-> root.revisions[r]]
         /\ root.pointer # NoRevision =>
              root.pointer \in Revisions /\ Verified(root.revisions[root.pointer])

AtRest == [st |-> "new", revision |-> NoRevision, staging |-> NoDirectory, attempt |-> 1,
           why |-> "none"]
Ends(i, why) == [inst EXCEPT ![i] = [AtRest EXCEPT !.st = "ended", !.why = why]]

\* resolveActiveLocalEmbeddingAssets: only the pinned revision, and only verified.
ResolvesActive(r) == pointer = r /\ Verified(revisions[r])

\* findInstalledRevisionDirectory, the operator's consent, and the look at the
\* revision directory: one that is there but does not verify is never repaired.
BeginInstall(i) ==
    /\ inst[i].st = "new"
    /\ \E r \in Revisions :
         inst' = IF ResolvesActive(r) THEN Ends(i, "already_installed")
                 ELSE [inst EXCEPT ![i] = [AtRest EXCEPT !.st = "looking", !.revision = r]]
    /\ UNCHANGED <<revisions, pointer, serving>>

Decline(i) ==
    /\ inst[i].st = "looking"
    /\ inst' = Ends(i, "declined")
    /\ UNCHANGED <<revisions, pointer, serving>>

\* Mutation of LookAtRevision: a directory under the revision's name is taken
\* for the revision.
LookAtRevisionTrusting(i) ==
    /\ inst[i].st = "looking"
    /\ inst' = IF revisions[inst[i].revision].there THEN [inst EXCEPT ![i].st = "pointing"]
               ELSE [inst EXCEPT ![i].st = "staging", ![i].staging = Started]
    /\ UNCHANGED <<revisions, pointer, serving>>

LookAtRevision(i) ==
    /\ inst[i].st = "looking"
    /\ LET directory == revisions[inst[i].revision]
       IN  inst' = IF Verified(directory) THEN [inst EXCEPT ![i].st = "pointing"]
                   ELSE IF directory.there THEN Ends(i, "artifact_unavailable")
                   ELSE [inst EXCEPT ![i].st = "staging", ![i].staging = Started]
    /\ UNCHANGED <<revisions, pointer, serving>>

\* A download that fails is tried again, as long as attempts are left.
RetryDownload(i) ==
    inst' = IF inst[i].attempt < DownloadAttempts THEN [inst EXCEPT ![i].attempt = @ + 1]
            ELSE Ends(i, "artifact_unavailable")

\* writeVerifiedAsset: bytes that do not fit end the install.
WriteAsset(i) ==
    /\ inst[i].st = "staging"
    /\ \E f \in AssetFiles \ inst[i].staging.files :
         \/ inst' = [inst EXCEPT ![i].staging.files = @ \cup {f}, ![i].attempt = 1]
         \/ RetryDownload(i)
         \/ inst' = Ends(i, "artifact_unavailable")
    /\ UNCHANGED <<revisions, pointer, serving>>

\* The manifest is written last, and the staged directory is verified as a whole.
FinishStaging(i) ==
    /\ inst[i].st = "staging" /\ AssetFiles \subseteq inst[i].staging.files
    /\ inst' = [inst EXCEPT ![i].st = "verifying", ![i].staging.manifest = TRUE]
    /\ UNCHANGED <<revisions, pointer, serving>>

VerifyStaging(i) ==
    /\ inst[i].st = "verifying"
    /\ inst' = IF Verified(inst[i].staging) THEN [inst EXCEPT ![i].st = "moving"]
               ELSE Ends(i, "artifact_unavailable")
    /\ UNCHANGED <<revisions, pointer, serving>>

\* The staged directory takes the revision's name.  When another installer was
\* faster, its directory is verified and used.
MoveRevision(i) ==
    /\ inst[i].st = "moving"
    /\ LET r == inst[i].revision
       IN  IF ~revisions[r].there
           THEN /\ revisions' = [revisions EXCEPT ![r] = inst[i].staging]
                /\ inst' = [inst EXCEPT ![i].st = "pointing", ![i].staging = NoDirectory]
           ELSE /\ UNCHANGED revisions
                /\ inst' = IF Verified(revisions[r])
                           THEN [inst EXCEPT ![i].st = "pointing", ![i].staging = NoDirectory]
                           ELSE Ends(i, "artifact_unavailable")
    /\ UNCHANGED <<pointer, serving>>

\* The pointer is written beside and renamed over active.json.
MovePointer(i) ==
    /\ inst[i].st = "pointing"
    /\ pointer' = inst[i].revision
    /\ inst' = Ends(i, "installed")
    /\ UNCHANGED <<revisions, serving>>

\* An abort or a failing file system: the staged files are removed.
InstallFails(i) ==
    /\ inst[i].st \in {"staging", "verifying", "moving", "pointing"}
    /\ inst' = Ends(i, "artifact_unavailable")
    /\ UNCHANGED <<revisions, pointer, serving>>

\* The process stops and leaves its staging directory, which nobody looks at again.
InstallStops(i) ==
    /\ inst[i].st \notin {"new", "ended"}
    /\ inst' = Ends(i, "stopped")
    /\ UNCHANGED <<revisions, pointer, serving>>

\* A runtime that pins a revision starts: resolveActiveAssetDirectory, then the
\* adapter verifies what it loads.
StartServing(r) ==
    /\ serving = NoRevision /\ ResolvesActive(r)
    /\ serving' = r
    /\ UNCHANGED <<revisions, pointer, inst>>

AssetInit ==
    /\ \E root \in FirstRoots : revisions = root.revisions /\ pointer = root.pointer
    /\ inst = [i \in Installers |-> AtRest]
    /\ serving = NoRevision

AssetNext ==
    \/ \E i \in Installers :
         \/ BeginInstall(i) \/ Decline(i) \/ LookAtRevision(i) \/ WriteAsset(i) \/ FinishStaging(i)
         \/ VerifyStaging(i) \/ MoveRevision(i) \/ MovePointer(i) \/ InstallFails(i) \/ InstallStops(i)
    \/ \E r \in Revisions : StartServing(r)

AssetSpec == AssetInit /\ [][AssetNext]_assetVars

-----------------------------------------------------------------------------
\* Whatever installers run beside each other, fail or stop, the active pointer
\* leads to a revision that is there completely, and the files a runtime reads stay.
ActivePointerIsWhole ==
    /\ pointer # NoRevision => Verified(revisions[pointer])
    /\ serving # NoRevision => Verified(revisions[serving])
=============================================================================
