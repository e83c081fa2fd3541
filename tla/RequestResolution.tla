------------------------- MODULE RequestResolution -------------------------
(***************************************************************************)
(* One query from its arrival to its answer: runTransportRequest and       *)
(* AdmissionControlledResolve (runtime/runtime-control.ts), resolveWithin  *)
(* and #executeManagedTargets (context-application.ts), with the budget of *)
(* a query (class RequestBudget of runtime/deadline.ts, with the profile   *)
(* of runtime/profile.ts), the batch of ManagedSearch and the audit thread *)
(* behind its proxy (selection-audit/worker-thread-selection-audit-store.ts *)
(* and selection-audit-worker.ts).  Sources under                          *)
(* apps/contextctl-daemon/src.                                             *)
(*                                                                         *)
(* A step is one callback of the event loop.  A stage ends by its result,  *)
(* by its timer or by the caller's abort, whichever callback runs first;   *)
(* timers may fire late.  Nothing is assumed of the work a stage awaits:   *)
(* selection, the audit thread and the search ports may never answer, but  *)
(* the ports give up once their signal is aborted.                         *)
(***************************************************************************)
EXTENDS ManagedSearch, FiniteSetsExt

\* --- the budget: a record with the time it was opened at and whether its caller
\* has aborted; `now` is the clock.

CONSTANTS TotalMs, SelectionMs, AssemblyReserveMs, ManagedSearchCeilingMs

\* What assertDaemonRuntimeProfile demands of the deadlines of a profile.
DeadlinesValid ==
    /\ {TotalMs, SelectionMs, AssemblyReserveMs, ManagedSearchCeilingMs} \subseteq Nat \ {0}
    /\ SelectionMs + AssemblyReserveMs < TotalMs
    /\ ManagedSearchCeilingMs <= TotalMs - AssemblyReserveMs

ASSUME BudgetAssumption == DeadlinesValid

OrZero(n) == IF n < 0 THEN 0 ELSE n
elapsedMs(b, now) == OrZero(now - b.startedAt)
remainingMs(b, now) == OrZero(TotalMs - elapsedMs(b, now))
workableMs(b, now) == OrZero(remainingMs(b, now) - AssemblyReserveMs)
selectionMs(b, now) == Min({SelectionMs, workableMs(b, now)})
managedSearchMs(b, now) == Min({ManagedSearchCeilingMs, workableMs(b, now)})

\* The budget's total signal: aborted by the caller or by the end of the budget.
LifetimeOver(b, now) == b.cancelled \/ remainingMs(b, now) <= 0

\* Mutation of CanAssemble: the stage budgets are trusted to have been kept.
CanAssembleUnchecked(b, now) == ~b.cancelled

\* assertCanAssemble does not throw.
CanAssemble(b, now) == ~b.cancelled /\ remainingMs(b, now) > 0

\* assertWorkable does not throw.
IsWorkable(b, now) == ~b.cancelled /\ workableMs(b, now) > 0

\* raceStage and stageSignal refuse a stage whose limit is used up.
StageOpens(b, limit) == ~b.cancelled /\ limit > 0

\* --- the audit thread and its proxy, a record with
\*   ready     "pending", "ready" or "failed"
\*   alive     whether the thread runs
\*   waiting   appends that await the thread's first message
\*   pending   the proxy's table of calls without an answer
\*   inbox     messages the thread has not handled, oldest first
\*   replies   answers on their way back, oldest first
\*   rows      records in the database

AuditStart == [ready |-> "pending", alive |-> TRUE, waiting |-> {}, pending |-> {},
               inbox |-> <<>>, replies |-> <<>>, rows |-> {}]

\* A message posted to a thread that is gone is dropped without an error.
PostTo(a, r) ==
    [a EXCEPT !.pending = @ \cup {r}, !.inbox = IF a.alive THEN Append(@, r) ELSE @]

\* append before the first message only waits; once the start failed it throws.
AppendRefused(a) == a.ready = "failed"
PostAppend(a, r) ==
    IF a.ready = "pending" THEN [a EXCEPT !.waiting = @ \cup {r}] ELSE PostTo(a, r)

\* The first message of the thread releases the appends that waited for it.
BecomesReady(a, order) ==
    [a EXCEPT !.ready = "ready", !.waiting = {}, !.pending = a.waiting,
              !.inbox = order]

\* Mutation of HandleNext: the thread answers before the row is in the database.
HandleNextUnsaved(a, ok) ==
    [a EXCEPT !.inbox = Tail(@), !.replies = Append(@, [call |-> Head(a.inbox), ok |-> ok])]

\* The thread handles its messages one at a time, in the order they came in.
HandleNext(a, ok) ==
    [a EXCEPT !.inbox = Tail(@),
              !.replies = Append(@, [call |-> Head(a.inbox), ok |-> ok]),
              !.rows = IF ok THEN @ \cup {Head(a.inbox)} ELSE @]

\* An answer settles its call; an answer nobody waits for is dropped.
TakeReply(a) == [a EXCEPT !.replies = Tail(@), !.pending = @ \ {Head(a.replies).call}]

\* error and exit: the start, if still awaited, and every call in the table fail.
\* The table is left empty, but the proxy keeps the dead thread.
Lost(a) == [a EXCEPT !.alive = FALSE, !.waiting = {}, !.pending = {}, !.inbox = <<>>,
                     !.replies = <<>>, !.ready = IF @ = "pending" THEN "failed" ELSE @]
LostCalls(a) == a.waiting \cup a.pending

\* --- the queries

CONSTANTS Requests,        \* queries
          Targets,         \* managed targets a plan may name (numbers)
          Slots,           \* slots of the lane `resolve`
          CharacterCeiling,\* the configured maxTotalCharacters
          Asked,           \* values callers give for maxContextCharacters
          Unset,           \* the field is absent
          Failing,         \* sets of checks a searched target may fail
          Plans,           \* what selection may answer: targets, and whether they fit
          MaxNow           \* bound on the clock

ASSUME ResolutionAssumption == MaxNow \in Nat

VARIABLES now, req, audit

resolutionVars == <<now, req, audit>>

Idle == [st |-> "unsent", startedAt |-> 0, cancelled |-> FALSE, asked |-> Unset,
         until |-> 0, plan |-> [targets |-> {}, fits |-> TRUE], signal |-> "open",
         items |-> <<>>, outcome |-> "none", took |-> 0]

\* narrowContextBudget: a caller may lower the ceiling, never raise it.
NarrowRefused(asked) == asked # Unset /\ (asked <= 0 \/ asked > CharacterCeiling)

\* RESOLVE_CONTEXT_ERROR_TABLE, for the codes a query of this model can end with.
ErrorTable == [
    invalid_context_budget |-> [status |-> 400, retriable |-> FALSE],
    selection_plan_limit_exceeded |-> [status |-> 422, retriable |-> FALSE],
    selection_catalog_unavailable |-> [status |-> 503, retriable |-> TRUE],
    unexpected_failure |-> [status |-> 500, retriable |-> FALSE],
    deadline_exceeded |-> [status |-> 504, retriable |-> TRUE]]

\* The query is over; a caller that has gone gets no answer.  Of an answered query
\* only how it ended and the time it took is kept.
Answer(r, code) ==
    LET outcome == IF req[r].cancelled THEN "silent" ELSE code
    IN  [Idle EXCEPT !.st = "closed", !.outcome = outcome,
                     !.took = IF outcome = "resolved" THEN elapsedMs(req[r], now) ELSE 0]

\* --- arrival and admission ------------------------------------------------

Arrive(r) ==
    /\ req[r].st = "unsent" /\ now + TotalMs < MaxNow
    /\ \E asked \in Asked : req' = [req EXCEPT ![r].st = "queued", ![r].startedAt = now,
                                               ![r].asked = asked]
    /\ UNCHANGED <<now, audit>>

InLane == {r \in Requests : req[r].st \in {"selecting", "auditing", "searching", "committing"}}

\* The lane runs the query: the budget is checked, the character ceiling narrowed,
\* and selection is raced against its share of the budget.
Admit(r) ==
    /\ req[r].st = "queued" /\ Cardinality(InLane) < Slots
    /\ LET limit == selectionMs(req[r], now)
       IN  req' = [req EXCEPT ![r] =
              IF ~CanAssemble(req[r], now) THEN Answer(r, "deadline_exceeded")
              ELSE IF NarrowRefused(req[r].asked) THEN Answer(r, "invalid_context_budget")
              ELSE IF ~StageOpens(req[r], limit) THEN Answer(r, "deadline_exceeded")
              ELSE [req[r] EXCEPT !.st = "selecting", !.until = now + limit]]
    /\ UNCHANGED <<now, audit>>

\* A query that still waits for the lane leaves it when its lifetime ends.
LeaveQueue(r) ==
    /\ req[r].st = "queued" /\ LifetimeOver(req[r], now)
    /\ req' = [req EXCEPT ![r] = Answer(r, "deadline_exceeded")]
    /\ UNCHANGED <<now, audit>>

\* --- selection and its audit ----------------------------------------------

\* Selection answers in time: the audit record is written before anything is read.
Selected(r) ==
    /\ req[r].st = "selecting"
    /\ \E plan \in Plans :
         IF ~IsWorkable(req[r], now)
         THEN req' = [req EXCEPT ![r] = Answer(r, "deadline_exceeded")] /\ UNCHANGED audit
         ELSE IF AppendRefused(audit)
         THEN req' = [req EXCEPT ![r] = Answer(r, "unexpected_failure")] /\ UNCHANGED audit
         ELSE /\ req' = [req EXCEPT ![r].st = "auditing", ![r].plan = plan,
                                    ![r].until = now + workableMs(req[r], now)]
              /\ audit' = PostAppend(audit, r)
    /\ UNCHANGED now

SelectionFails(r) ==
    /\ req[r].st = "selecting"
    /\ req' = [req EXCEPT ![r] = Answer(r, "selection_catalog_unavailable")]
    /\ UNCHANGED <<now, audit>>

\* raceStage: the timer wins, and what the stage delivers later is dropped.
StageExpires(r) ==
    /\ req[r].st \in {"selecting", "auditing"} /\ now >= req[r].until
    /\ req' = [req EXCEPT ![r] = Answer(r, "deadline_exceeded")]
    /\ UNCHANGED <<now, audit>>

\* --- the audit thread -----------------------------------------------------

\* Which managed reads follow a recorded selection.
AfterAudit(r) ==
    LET q == req[r]
        limit == managedSearchMs(q, now)
    IN  IF ~IsWorkable(q, now) THEN Answer(r, "deadline_exceeded")
        ELSE IF ~q.plan.fits THEN Answer(r, "selection_plan_limit_exceeded")
        ELSE IF q.plan.targets = {} THEN [q EXCEPT !.st = "committing"]
        ELSE [q EXCEPT !.st = "searching", !.until = now + limit,
                       !.items = [t \in q.plan.targets |-> Todo]]

AuditReady ==
    /\ audit.ready = "pending" /\ audit.alive
    /\ \E order \in SetToSeqs(audit.waiting) : audit' = BecomesReady(audit, order)
    /\ UNCHANGED <<now, req>>

AuditHandles ==
    /\ audit.alive /\ audit.inbox # <<>>
    /\ \E ok \in BOOLEAN : audit' = HandleNext(audit, ok)
    /\ UNCHANGED <<now, req>>

\* The answer of an append: a query that stopped waiting for it takes no notice.
AuditAnswers ==
    /\ audit.replies # <<>>
    /\ LET reply == Head(audit.replies)
           r == reply.call
       IN  IF req[r].st # "auditing" \/ r \notin audit.pending THEN UNCHANGED req
           ELSE req' = [req EXCEPT ![r] = IF reply.ok THEN AfterAudit(r)
                                          ELSE Answer(r, "unexpected_failure")]
    /\ audit' = TakeReply(audit)
    /\ UNCHANGED now

AuditDies ==
    /\ audit.alive
    /\ audit' = Lost(audit)
    /\ req' = [r \in Requests |->
                 IF r \in LostCalls(audit) /\ req[r].st = "auditing"
                 THEN Answer(r, "unexpected_failure") ELSE req[r]]
    /\ UNCHANGED now

\* --- managed reads --------------------------------------------------------

\* The stage's signal: aborted by its timer or by the caller, whichever is first.
SearchExpires(r) ==
    /\ req[r].st = "searching" /\ now >= req[r].until /\ req[r].signal = "open"
    /\ req' = [req EXCEPT ![r].signal = "stage"]
    /\ UNCHANGED <<now, audit>>

StartTarget(r) ==
    /\ req[r].st = "searching"
    /\ \E t \in NextTargets(req[r].items) :
         req' = [req EXCEPT ![r].items[t] =
                    IF req[r].signal = "open" THEN Running ELSE CancelledItem]
    /\ UNCHANGED <<now, audit>>

FinishTarget(r) ==
    /\ req[r].st = "searching"
    /\ \E t \in TargetsIn(req[r].items, "running") :
         \E item \in FoundItems \cup
                     UNION {FailedItems(f, req[r].signal # "open") : f \in Failing} :
            req' = [req EXCEPT ![r].items[t] = item]
    /\ UNCHANGED <<now, audit>>

\* A read whose signal is aborted gives up.
TargetGivesUp(r) == req[r].signal # "open" /\ FinishTarget(r)

\* The batch is over: assembly begins only while an answer can still be sent.
SearchReturns(r) ==
    /\ req[r].st = "searching" /\ BatchOver(req[r].items)
    /\ req' = [req EXCEPT ![r] = IF CanAssemble(req[r], now)
                                 THEN [req[r] EXCEPT !.st = "committing"]
                                 ELSE Answer(r, "deadline_exceeded")]
    /\ UNCHANGED <<now, audit>>

\* --- the answer -----------------------------------------------------------

\* After assembly, on leaving the lane and before the answer is written the
\* budget is checked again.
Commit(r) ==
    /\ req[r].st = "committing"
    /\ req' = [req EXCEPT ![r] = IF CanAssemble(req[r], now) THEN Answer(r, "resolved")
                                 ELSE Answer(r, "deadline_exceeded")]
    /\ UNCHANGED <<now, audit>>

\* The caller cancels or disconnects.  Races end at once, a batch is told to stop.
CallerAborts(r) ==
    /\ req[r].st \in {"queued", "selecting", "auditing", "searching"}
    /\ ~req[r].cancelled
    /\ LET gone == [req[r] EXCEPT !.cancelled = TRUE]
       IN  req' = [req EXCEPT ![r] =
              IF req[r].st \in {"selecting", "auditing"}
              THEN [Idle EXCEPT !.st = "closed", !.outcome = "silent"]
              ELSE IF req[r].st = "searching" /\ req[r].signal = "open"
              THEN [gone EXCEPT !.signal = "request"] ELSE gone]
    /\ UNCHANGED <<now, audit>>

Tick == now < MaxNow /\ now' = now + 1 /\ UNCHANGED <<req, audit>>

ResolutionInit ==
    /\ now = 0
    /\ req = [r \in Requests |-> Idle]
    /\ audit = AuditStart

ResolutionNext ==
    \/ Tick \/ AuditReady \/ AuditHandles \/ AuditAnswers \/ AuditDies
    \/ \E r \in Requests :
         \/ Arrive(r) \/ Admit(r) \/ LeaveQueue(r) \/ Selected(r) \/ SelectionFails(r)
         \/ StageExpires(r) \/ SearchExpires(r) \/ StartTarget(r) \/ FinishTarget(r)
         \/ SearchReturns(r) \/ Commit(r) \/ CallerAborts(r)

ResolutionSpec == ResolutionInit /\ [][ResolutionNext]_resolutionVars

\* What the event loop owes a query: timers that are due fire, callbacks run, and
\* ports whose signal is aborted settle.  No stage is assumed to deliver.
Due(r) ==
    \/ Admit(r) \/ LeaveQueue(r) \/ StageExpires(r) \/ SearchExpires(r) \/ StartTarget(r)
    \/ TargetGivesUp(r) \/ SearchReturns(r) \/ Commit(r)

ResolutionFairness ==
    WF_resolutionVars(Tick) /\ \A r \in Requests : WF_resolutionVars(Due(r))

ResolutionFairSpec == ResolutionSpec /\ ResolutionFairness

-----------------------------------------------------------------------------
\* Every value is one the code can hold.
ResolutionTypeOK ==
    /\ now \in 0 .. MaxNow
    /\ \A r \in Requests :
         /\ req[r].st \in {"unsent", "queued", "selecting", "auditing", "searching",
                           "committing", "closed"}
         /\ req[r].outcome \in {"none", "silent", "resolved"} \cup DOMAIN ErrorTable
         /\ req[r].outcome = "none" <=> req[r].st # "closed"
    /\ audit.rows \subseteq Requests /\ audit.pending \subseteq Requests

\* A query is answered from its cards only once the selection behind the answer
\* is in the audit database, whatever the audit thread goes through.
AnsweredIsAudited ==
    \A r \in Requests : req[r].outcome = "resolved" => r \in audit.rows

\* An answer is written before the budget of the request is used up, counted from
\* the arrival of the request, so that a caller never gets a late answer as a success.
AnsweredInTime ==
    \A r \in Requests : req[r].outcome = "resolved" => req[r].took < TotalMs

\* Every query that arrived is answered or was given up by its caller, although
\* selection, the audit thread and the search ports may never answer.
EveryQueryEnds == \A r \in Requests : req[r].st = "queued" ~> req[r].st = "closed"
=============================================================================
