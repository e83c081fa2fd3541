--------------------------- MODULE MCIndexStaging ---------------------------
(***************************************************************************)
(* Finite instances of IndexStaging for TLC. The one for safety holds      *)
(* two, chosen by what the publishers ask at the start: with different     *)
(* scopes every request ends with its answer, and a resumed publication    *)
(* repeats its stamp; with the same scopes requests may be late. In the    *)
(* one for liveness publications end by LastPublish and sweepers stop      *)
(* crashing at LastFault: that leaves the bounded clock enough room for    *)
(* every grace period and lease to run out.                                *)
(***************************************************************************)
EXTENDS IndexStaging, TLC

CONSTANTS LateClock,    \* where requests may be late, time ends there
          LastPublish,  \* every publish() has returned by then
          LastFault     \* no cleanup execution is cut short after that

ASSUME RoomAssumption ==
    /\ LastPublish + Grace <= MaxClock
    /\ LastFault + CleanupLease <= MaxClock

\* Publishers that may start are interchangeable, as are sweepers, chunks and
\* versions: nothing but the clock orders them.
Symmetry == Permutations(Publishers) \cup Permutations(Sweepers)
              \cup Permutations(Chunks) \cup Permutations(Versions)

Alike == \A p, q \in Publishers : pub[p].scopes = pub[q].scopes

StampsNow(p) == At(p, "acquire") /\ pub'[p].pc = "retain" => pub'[p].publishedAt = now

SafeInit ==
    /\ Init
    /\ Alike => \A p \in Publishers : pub[p].scopes = CHOOSE s \in ScopeShapes : TRUE

SafeNext ==
    /\ Next
    /\ Alike => now' <= LateClock /\ \A p \in Publishers : StampsNow(p)
    /\ ~Alike => late' = {}

SafeSpec == SafeInit /\ [][SafeNext]_vars

LiveTick ==
    /\ now >= LastPublish => \A p \in Publishers : At(p, "done")
    /\ Tick

\* A release that fails silently is a fault like a crash.
LiveRelease(c) ==
    /\ SweepRelease(c)
    /\ now >= LastFault => ReleaseCleanup(sweep[c].version, c)

LiveSweep(c) ==
    \/ SweepClaim(c) \/ SweepRenew(c) \/ SweepCheck(c) \/ SweepCount(c)
    \/ SweepDelete(c) \/ SweepFail(c) \/ SweepComplete(c) \/ LiveRelease(c)

LiveNext ==
    \/ \E p \in Publishers : PublisherStep(p) \/ PublishCrash(p)
    \/ \E c \in Sweepers : LiveSweep(c)
    \/ \E c \in Sweepers : now < LastFault /\ SweepCrash(c)
    \/ \E r \in late : Server(r)
    \/ LiveTick

\* A late request has an end.
LateEnds == \E r \in late : LateEnd(r) /\ Server(r)

\* A started call goes on, time passes, the maintenance worker calls
\* execute() again and again, a request that is sent again and again does
\* not fail for ever, and the server is done with every request some day.
Fairness ==
    /\ WF_vars(LiveTick) /\ WF_vars(LateEnds)
    /\ \A p \in Publishers : WF_vars(PublisherStep(p))
    /\ \A c \in Sweepers :
         /\ WF_vars(LiveSweep(c))
         /\ SF_vars(SweepCheck(c)) /\ SF_vars(SweepCount(c)) /\ SF_vars(SweepDelete(c))

LiveSpec == Init /\ [][LiveNext]_vars /\ Fairness

\* Whatever failed publications leave behind is collected: in the end every
\* version is published or has neither records nor a row, and no row of a
\* published version stays behind.
RemainsCollected ==
    <>[](\A v \in Versions : ~Tracked(v) /\ (Catalogued(v) \/ stored[v] = {}))
=============================================================================
