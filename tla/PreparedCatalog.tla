-------------------------- MODULE PreparedCatalog --------------------------
(***************************************************************************)
(* The catalog the daemon answers queries from                             *)
(* (apps/contextctl-daemon/src/runtime/prepared-card-catalog.ts): the      *)
(* approved cards and the candidate index built from them move together,   *)
(* prepared in the background, while queries are served from the last      *)
(* generation that is complete.                                            *)
(*                                                                         *)
(* Everything runs on one event loop.  A step is what runs between two     *)
(* awaits.  The promise of refresh() settles in two steps: the loop        *)
(* returns, and a later microtask (finally) clears #pending and resumes    *)
(* the callers; another callback may call refresh() in between.            *)
(*                                                                         *)
(* The candidate index of a generation is kept in a cache of two           *)
(* generations in the order they were built.  Building one takes a call of *)
(* the embedding model and a place in the selection_assets lane, and may   *)
(* fail.  A query reads the activeCards cards and acquires their index without  *)
(* waiting for I/O in between.                                             *)
(***************************************************************************)
EXTENDS Integers, SequencesExt, FiniteSets

CONSTANTS Contents,     \* what the approved catalog of Registry may hold
          Callers,      \* intakes that call refresh() after a change
          MaxWrites,    \* bound on changes of the catalog
          MaxFailures     \* bound on passes that fail

ASSUME PreparedAssumption ==
    /\ MaxWrites \in Nat /\ MaxFailures \in Nat

VARIABLES upstream,     \* content of Registry's approved catalog
          seen,         \* contents it has had
          written,      \* changes made to it so far
          activeCards,  \* #active, #activeVersion
          cache,        \* candidate indexes kept, oldest first
          pass,         \* #pending and the refresh loop
          requested,    \* #refreshRequested
          waiting,      \* caller -> changes made when it called, or none
          failures

preparedVars == <<upstream, seen, written, activeCards, cache, pass, requested, waiting, failures>>

NotWaiting == -1

\* pc is where the refresh loop stands: not running, cards listed, index being
\* built, index acquired, pass ended, loop returned.  `read` is the number of
\* changes the running pass has seen, `fresh` the number the last pass that
\* succeeded had seen.
PreparedInit ==
    /\ upstream \in Contents /\ seen = {upstream} /\ written = 0
    /\ activeCards = upstream /\ cache = <<upstream>>
    /\ pass = [pc |-> "none", content |-> upstream, read |-> 0, fresh |-> 0, ok |-> TRUE]
    /\ requested = FALSE
    /\ waiting = [k \in Callers |-> NotWaiting]
    /\ failures = 0

\* An intake or an operator, in this or another process, changes the catalog.
Write ==
    /\ written < MaxWrites
    /\ \E content \in Contents \ {upstream} :
         /\ upstream' = content /\ seen' = seen \cup {content}
    /\ written' = written + 1
    /\ UNCHANGED <<activeCards, cache, pass, requested, waiting, failures>>

-----------------------------------------------------------------------------
\* The loop begins a pass: the request is taken and the cards are listed.
BeginPass ==
    /\ requested' = FALSE
    /\ pass' = [pass EXCEPT !.pc = "listed", !.content = upstream, !.read = written,
                            !.ok = TRUE]

\* refresh(): ask for a pass, and start the loop unless it is running.
Request ==
    IF pass.pc = "none" THEN BeginPass ELSE requested' = TRUE /\ UNCHANGED pass

\* afterCatalogChange: an intake waits until refresh() settles.
Refresh(k) ==
    /\ waiting[k] = NotWaiting
    /\ waiting' = [waiting EXCEPT ![k] = written]
    /\ Request
    /\ UNCHANGED <<upstream, seen, written, activeCards, cache, failures>>

\* listApprovedCards for a query: when the interval is over a refresh is
\* started that nobody waits for.
PassiveRefresh ==
    /\ pass.pc = "none"
    /\ Request
    /\ UNCHANGED <<upstream, seen, written, activeCards, cache, waiting, failures>>

\* Mutation of Insert: room for one generation.
InsertSingle(c) == <<c>>

\* RetainingCardCandidateIndexStore: a new index goes to the end and the
\* oldest beyond two is dropped.
Insert(c) ==
    LET all == Append(RemoveFirst(cache, c), c)
    IN  IF Len(all) > 2 THEN Tail(all) ELSE all

\* A query acquires the index of the active cards; it is built again when the
\* cache does not hold it.
Query ==
    /\ ~Contains(cache, activeCards)
    /\ cache' = Insert(activeCards)
    /\ UNCHANGED <<upstream, seen, written, activeCards, pass, requested, waiting, failures>>

\* #refresh after the listing: nothing to do, an index that is kept, or a build.
Compare ==
    /\ pass.pc = "listed"
    /\ pass' = CASE pass.content = activeCards ->
                      [pass EXCEPT !.pc = "ended", !.fresh = pass.read]
                 [] pass.content # activeCards /\ Contains(cache, pass.content) ->
                      [pass EXCEPT !.pc = "acquired"]
                 [] OTHER -> [pass EXCEPT !.pc = "building"]
    /\ UNCHANGED <<upstream, seen, written, activeCards, cache, requested, waiting, failures>>

Build ==
    /\ pass.pc = "building"
    /\ cache' = Insert(pass.content)
    /\ pass' = [pass EXCEPT !.pc = "acquired"]
    /\ UNCHANGED <<upstream, seen, written, activeCards, requested, waiting, failures>>

\* Cards and index become active together.
Activate ==
    /\ pass.pc = "acquired"
    /\ activeCards' = pass.content
    /\ pass' = [pass EXCEPT !.pc = "ended", !.fresh = pass.read]
    /\ UNCHANGED <<upstream, seen, written, cache, requested, waiting, failures>>

\* The loop returns; its promise settles in a later microtask.
EndLoop(p) == pass' = [p EXCEPT !.pc = "returned"]

\* Listing or building fails: the error ends the loop.
Fail ==
    /\ pass.pc \in {"listed", "building"}
    /\ failures < MaxFailures
    /\ failures' = failures + 1
    /\ EndLoop([pass EXCEPT !.ok = FALSE])
    /\ UNCHANGED <<upstream, seen, written, activeCards, cache, requested, waiting>>

\* #runRefreshLoop: another pass if one was asked for.
Loop ==
    /\ pass.pc = "ended"
    /\ \/ requested /\ BeginPass
       \/ ~requested /\ EndLoop(pass) /\ UNCHANGED requested
    /\ UNCHANGED <<upstream, seen, written, activeCards, cache, waiting, failures>>

\* finally: #pending is cleared and the callers resume.
Settle ==
    /\ pass.pc = "returned"
    /\ pass' = [pass EXCEPT !.pc = "none"]
    /\ waiting' = [k \in Callers |-> NotWaiting]
    /\ UNCHANGED <<upstream, seen, written, activeCards, cache, requested, failures>>

-----------------------------------------------------------------------------
LoopStep == Compare \/ Build \/ Activate \/ Fail \/ Loop \/ Settle

PreparedNext == Write \/ PassiveRefresh \/ Query \/ LoopStep \/ \E k \in Callers : Refresh(k)

PreparedSpec == PreparedInit /\ [][PreparedNext]_preparedVars

\* The event loop goes on, and queries keep arriving.
PreparedFairness == WF_preparedVars(LoopStep) /\ WF_preparedVars(PassiveRefresh)

-----------------------------------------------------------------------------
(* Properties                                                              *)

\* Types, and a cache of one or two different generations.
PreparedTypeOK ==
    /\ upstream \in Contents /\ activeCards \in Contents
    /\ seen \subseteq Contents /\ upstream \in seen
    /\ written \in 0..MaxWrites /\ failures \in 0..MaxFailures
    /\ cache \in Seq(Contents) /\ Len(cache) \in 1..2 /\ IsInjective(cache)
    /\ pass.pc \in {"none", "listed", "building", "acquired", "ended", "returned"}
    /\ pass.content \in Contents /\ pass.ok \in BOOLEAN
    /\ pass.read \in 0..written /\ pass.fresh \in 0..pass.read
    /\ requested \in BOOLEAN
    /\ waiting \in [Callers -> NotWaiting..written]

\* refresh() resolves for a caller: the promise it waits for settles.
Resolves(k) == waiting[k] # NotWaiting /\ waiting'[k] = NotWaiting /\ pass'.ok

\* When refresh() resolves, a pass that began after the call has succeeded, so
\* that a change the caller made before is served (refresh(): "The upstream
\* catalog may have changed after that cycle took its snapshot, so one more
\* coalesced pass is required before the caller's refresh is done").  It does
\* not hold: a caller that comes between the return of the loop and the
\* microtask that clears #pending joins a promise whose last pass is over.
RefreshCoversCaller ==
    [][\A k \in Callers : Resolves(k) => waiting[k] <= pass'.fresh]_preparedVars

\* What is left of it: a caller no pass has covered leaves its request on
\* record, for the pass that the next call or query starts ("A request arriving
\* while one refresh is settling is not discarded").
UncoveredIsOnRecord ==
    [][\A k \in Callers : Resolves(k) /\ waiting[k] > pass'.fresh => requested']_preparedVars

\* While every catalog is a new one, a query finds the index of the cards it is
\* served, also during the build of the next and after builds that failed: no
\* request waits for a build (RetainingCardCandidateIndexStore: "Two immutable
\* generations are sufficient").
ActiveIndexKept == Cardinality(seen) = written + 1 => Contains(cache, activeCards)

\* What is served is what Registry holds.
CaughtUp == activeCards = upstream
=============================================================================
