--------------------------- MODULE DaemonRuntime ---------------------------
(***************************************************************************)
(* The daemon's bounded lanes (runtime/admission.ts), its maintenance      *)
(* worker (runtime/ingestion-maintenance-worker.ts) and its shutdown       *)
(* (runtime/lifecycle.ts, main.ts), under apps/contextctl-daemon/src.      *)
(*                                                                         *)
(* A task holds the lanes it has entered while it asks for the next one:   *)
(* a maintenance cycle runs in `ingestion`, takes a ready publication to   *)
(* Registry through `registry_consume`, and has the catalog prepared in    *)
(* `selection_assets`, where builds that queries asked for compete for the *)
(* same slot.  A query only holds `resolve`: what it waits for inside is   *)
(* bounded by its deadline, and the build goes on without it.              *)
(* One notification stands for the batch a cycle takes to Registry.  The   *)
(* lane `ingestion_embedding` is left out: only `ingest` fills it.         *)
(*                                                                         *)
(* Everything runs on one event loop; a step is one callback.              *)
(***************************************************************************)
EXTENDS Integers, SequencesExt, FiniteSets

CONSTANTS Requests,     \* queries
          Builds,       \* candidate index builds queries or refreshes ask for
          Cycle,        \* the maintenance worker's cycle
          Slots,  \* lane -> slots
          QueueDepth,   \* lane -> places in the queue
          MaxCycles     \* bound on maintenance cycles

Lanes == {"resolve", "registry_consume", "selection_assets", "ingestion"}
Tasks == Requests \cup Builds \cup {Cycle}

ASSUME RuntimeAssumption ==
    /\ Requests \cap Builds = {} /\ Cycle \notin Requests \cup Builds
    /\ Slots \in [Lanes -> Nat \ {0}] /\ QueueDepth \in [Lanes -> Nat]
    /\ MaxCycles \in Nat

VARIABLES active,       \* lane -> tasks that occupy a slot
          queue,        \* lane -> waiting tasks, oldest first
          open,         \* lanes that admit work
          task,         \* task -> where it stands
          worker,       \* phase of the maintenance worker, its timer, and the
                        \* step its cycle is in or ended with
          cycles,       \* cycles begun
          lifecycle,    \* state of DaemonLifecycle
          expired,      \* whether draining ended at its time limit
          closed        \* resources that were released

runtimeVars == <<active, queue, open, task, worker, cycles, lifecycle, expired, closed>>
laneVars == <<active, queue, open>>
shutdownVars == <<open, lifecycle, expired, closed>>

\* Mutation of Path: the catalog is prepared in the lane the cycle itself holds.
PathReentrant(t) == IF t = Cycle THEN <<"ingestion", "registry_consume", "ingestion">>
                    ELSE IF t \in Requests THEN <<"resolve">> ELSE <<"selection_assets">>

\* The lanes a task enters, from the outside in.
Path(t) == IF t = Cycle THEN <<"ingestion", "registry_consume", "selection_assets">>
           ELSE IF t \in Requests THEN <<"resolve">> ELSE <<"selection_assets">>

\* A task holds the first `depth` lanes of its path and may wait for the next;
\* `out` once it is on its way back.
NewTask == [pc |-> "new", depth |-> 0, out |-> FALSE]
Over == [pc |-> "over", depth |-> 0, out |-> FALSE]
NextLane(t) == Path(t)[task[t].depth + 1]
Innermost(t) == Path(t)[task[t].depth]

\* The resources that matter to the lanes, in the order in which they close.
Closeables == <<"http_server", "ingestion_maintenance_worker", "registry_database">>

RuntimeInit ==
    /\ active = [l \in Lanes |-> {}]
    /\ queue = [l \in Lanes |-> <<>>]
    /\ open = Lanes
    /\ task = [t \in Tasks |-> NewTask]
    /\ worker = [phase |-> "idle", timer |-> FALSE, step |-> 0]
    /\ cycles = 0
    /\ lifecycle = "accepting" /\ expired = FALSE /\ closed = {}

LaneIdle(l) == active[l] = {} /\ queue[l] = <<>>

-----------------------------------------------------------------------------
(* AdmissionLane                                                           *)

Holding(t) == [task[t] EXCEPT !.pc = "running", !.depth = @ + 1]

\* A submission that was turned down, or waited in vain: a nested one fails
\* and its task goes on; an outer one never runs.
TurnedDown(t) == IF task[t].depth = 0 THEN Over
                 ELSE [task[t] EXCEPT !.pc = "running", !.out = TRUE]

HasRoom(l) == Cardinality(active[l]) < Slots[l]

\* run: admitted, queued or refused.
Submit(t) ==
    LET l == NextLane(t)
        room == l \in open /\ HasRoom(l)
        waits == l \in open /\ ~room /\ Len(queue[l]) < QueueDepth[l]
    IN  /\ active' = IF room THEN [active EXCEPT ![l] = @ \cup {t}] ELSE active
        /\ queue' = IF waits THEN [queue EXCEPT ![l] = Append(@, t)] ELSE queue
        /\ task' = [task EXCEPT ![t] = IF room THEN Holding(t)
                                       ELSE IF waits THEN [@ EXCEPT !.pc = "queued"]
                                       ELSE TurnedDown(t)]

\* Where a task stands when it leaves its innermost lane.
Left(t) == IF task[t].depth = 1 THEN Over
           ELSE [task[t] EXCEPT !.depth = @ - 1, !.out = TRUE]

\* The end of a task in #start: the slot is free, and #drainOne gives it to the
\* oldest waiting task.
Leave(t) ==
    LET l == Innermost(t)
        promotes == l \in open /\ queue[l] # <<>>
    IN  /\ active' = [active EXCEPT ![l] =
                        (@ \ {t}) \cup (IF promotes THEN {Head(queue[l])} ELSE {})]
        /\ queue' = IF promotes THEN [queue EXCEPT ![l] = Tail(@)] ELSE queue
        /\ task' = [s \in Tasks |-> IF s = t THEN Left(t)
                                    ELSE IF promotes /\ s = Head(queue[l]) THEN Holding(s)
                                    ELSE task[s]]

-----------------------------------------------------------------------------
(* Queries and builds                                                      *)

\* A query arrives, or asks for a build.
Arrive(t) ==
    /\ t # Cycle /\ task[t].pc = "new"
    /\ Submit(t)
    /\ UNCHANGED <<worker, cycles, shutdownVars>>

\* The query's deadline passes, or its caller gives up, while it waits.
Abandon(t) ==
    /\ t \in Requests /\ task[t].pc = "queued"
    /\ queue' = [queue EXCEPT !["resolve"] = RemoveFirst(@, t)]
    /\ task' = [task EXCEPT ![t] = Over]
    /\ UNCHANGED <<active, worker, cycles, shutdownVars>>

FinishTask(t) ==
    /\ t # Cycle /\ task[t].pc = "running"
    /\ Leave(t)
    /\ UNCHANGED <<worker, cycles, shutdownVars>>

-----------------------------------------------------------------------------
(* IngestionMaintenanceWorker                                              *)

\* The steps of a cycle, in order: publication_ready_reconciliation,
\* failed_index_staging_cleanup and source_observation_retention.
Reconciliation == 1
LastStep == 3

Start ==
    /\ worker.phase = "idle" /\ lifecycle = "accepting"
    /\ worker' = [worker EXCEPT !.phase = "scheduled", !.timer = TRUE]
    /\ UNCHANGED <<laneVars, task, cycles, lifecycle, expired, closed>>

\* The timer: #runCycle enters the lane, which no other work of the daemon
\* uses, and runOnce begins with its first step.
RunCycle ==
    /\ worker.timer /\ cycles < MaxCycles
    /\ task[Cycle].pc \in {"new", "over"}
    /\ Submit(Cycle)
    /\ worker' = [phase |-> "running", timer |-> FALSE, step |-> Reconciliation]
    /\ cycles' = cycles + 1
    /\ UNCHANGED shutdownVars

\* notify, and afterCatalogChange inside it: reconciliation asks for the next
\* lane.
EnterNested ==
    /\ task[Cycle].pc = "running" /\ ~task[Cycle].out
    /\ worker.step = Reconciliation /\ task[Cycle].depth < Len(Path(Cycle))
    /\ Submit(Cycle)
    /\ UNCHANGED <<worker, cycles, shutdownVars>>

LeaveNested ==
    /\ task[Cycle].pc = "running" /\ task[Cycle].depth > 1
    /\ Leave(Cycle)
    /\ UNCHANGED <<worker, cycles, shutdownVars>>

\* A step has ended, well or not: a failure is only reported.  The next one
\* begins unless the worker was told to stop.
NextStep ==
    /\ task[Cycle].pc = "running" /\ task[Cycle].depth = 1
    /\ worker.step < LastStep /\ worker.phase = "running"
    /\ worker' = [worker EXCEPT !.step = @ + 1]
    /\ UNCHANGED <<laneVars, task, cycles, lifecycle, expired, closed>>

\* The cycle ends, and the next one is scheduled unless the daemon drains.
EndCycle ==
    /\ task[Cycle].pc = "running" /\ task[Cycle].depth = 1
    /\ worker.step = LastStep \/ worker.phase = "stopping"
    /\ Leave(Cycle)
    /\ worker' = IF worker.phase = "running"
                 THEN [worker EXCEPT !.phase = "scheduled", !.timer = TRUE] ELSE worker
    /\ UNCHANGED <<cycles, shutdownVars>>

-----------------------------------------------------------------------------
(* Shutdown                                                                *)

\* stopAccepting on every lane: what waits is refused.
StopLanes ==
    /\ open' = {}
    /\ queue' = [l \in Lanes |-> <<>>]
    /\ task' = [t \in Tasks |-> IF task[t].pc = "queued" THEN TurnedDown(t) ELSE task[t]]

\* beginDraining on a signal or at the end of stdin: the worker's hook cancels
\* its timer, and the lanes stop.
BeginDraining ==
    /\ lifecycle = "accepting"
    /\ lifecycle' = "draining"
    /\ worker' = [worker EXCEPT !.phase = "stopping", !.timer = FALSE]
    /\ StopLanes
    /\ UNCHANGED <<active, cycles, expired, closed>>

\* #awaitLanesIdle returns, because the lanes are idle or at its time limit.
Drained ==
    /\ lifecycle = "draining"
    /\ \/ \A l \in Lanes : LaneIdle(l) /\ UNCHANGED expired
       \/ \E l \in Lanes : ~LaneIdle(l) /\ expired' = TRUE
    /\ lifecycle' = "closing"
    /\ UNCHANGED <<laneVars, task, worker, cycles, closed>>

\* The next resource of #closeAll, in reverse order of registration.
NextCloseable == Closeables[Cardinality(closed) + 1]

\* Mutation of MayClose: the worker is told to stop and not waited for.
MayCloseAtOnce(resource) == TRUE

\* What its close waits for: the worker's stop for the cycle that runs.
MayClose(resource) ==
    resource = "ingestion_maintenance_worker" => task[Cycle].pc \in {"new", "over"}

Close ==
    /\ lifecycle = "closing" /\ Cardinality(closed) < Len(Closeables)
    /\ MayClose(NextCloseable)
    /\ closed' = closed \cup {NextCloseable}
    /\ worker' = IF NextCloseable = "ingestion_maintenance_worker"
                 THEN [worker EXCEPT !.phase = "stopped"] ELSE worker
    /\ UNCHANGED <<laneVars, task, cycles, lifecycle, expired>>

Closed ==
    /\ lifecycle = "closing" /\ Cardinality(closed) = Len(Closeables)
    /\ lifecycle' = "closed"
    /\ UNCHANGED <<laneVars, task, worker, cycles, expired, closed>>

-----------------------------------------------------------------------------
TaskEnds(t) == IF t = Cycle THEN LeaveNested \/ NextStep \/ EndCycle ELSE FinishTask(t)
ShutdownStep == Drained \/ Close \/ Closed

RuntimeNext ==
    \/ \E t \in Tasks : Arrive(t) \/ Abandon(t) \/ TaskEnds(t)
    \/ Start \/ RunCycle \/ EnterNested
    \/ BeginDraining \/ ShutdownStep

RuntimeSpec == RuntimeInit /\ [][RuntimeNext]_runtimeVars

\* A task that runs ends, and shutdown goes on.
RuntimeFairness == /\ \A t \in Tasks : WF_runtimeVars(TaskEnds(t))
                   /\ WF_runtimeVars(ShutdownStep)

-----------------------------------------------------------------------------
(* Properties                                                              *)

\* Types; no lane exceeds its capacity, and a task is exactly where its
\* state says.
RuntimeTypeOK ==
    /\ open \subseteq Lanes
    /\ \A t \in Tasks : /\ task[t].pc \in {"new", "queued", "running", "over"}
                        /\ task[t].depth \in 0..Len(Path(t))
    /\ \A l \in Lanes :
         /\ active[l] = {t \in Tasks : \E i \in 1..task[t].depth : Path(t)[i] = l}
         /\ ToSet(queue[l]) = {t \in Tasks : task[t].pc = "queued" /\ NextLane(t) = l}
         /\ IsInjective(queue[l])
         /\ Cardinality(active[l]) <= Slots[l] /\ Len(queue[l]) <= QueueDepth[l]
    /\ worker.phase \in {"idle", "scheduled", "running", "stopping", "stopped"}
    /\ worker.timer <=> worker.phase = "scheduled"
    /\ worker.step \in 0..LastStep
    /\ cycles \in 0..MaxCycles
    /\ lifecycle \in {"accepting", "draining", "closing", "closed"} /\ expired \in BOOLEAN
    /\ closed \subseteq ToSet(Closeables)

\* A cycle that nobody interrupted has given each of its steps a turn before the
\* next is scheduled (IngestionMaintenance: "without allowing one store outage to
\* starve the others").  It never runs over a closed database, also when draining
\* ended at its time limit: the worker is stopped, and waited for, before the
\* database is released (main.ts: "Registered from the inside out because shutdown
\* releases in reverse").  And once draining has ended with idle lanes no work
\* begins any more, in any lane, while resources are released (DaemonLifecycle:
\* "refuse first so nothing new arrives").
OrderlyCycles ==
    /\ worker.timer /\ cycles > 0 => worker.step = LastStep
    /\ task[Cycle].depth > 0 => "registry_database" \notin closed
    /\ lifecycle \in {"closing", "closed"} /\ ~expired => \A l \in Lanes : LaneIdle(l)

\* Whoever waited got a slot or an answer, although the cycle holds lanes while it
\* waits for others, and a daemon that began to drain is closed.
AllAnswered == /\ \A t \in Tasks : task[t].pc \notin {"queued", "running"}
               /\ lifecycle \notin {"draining", "closing"}
=============================================================================
