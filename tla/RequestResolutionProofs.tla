---------------------- MODULE RequestResolutionProofs ----------------------
(***************************************************************************)
(* Proofs about RequestResolution, for any requests, profile, plans and    *)
(* clock: a query is answered from its cards only in time and once its     *)
(* selection is in the audit database.  And about Transports: every call a *)
(* peer sends is answered once, for any input and any cut into chunks.     *)
(***************************************************************************)
EXTENDS RequestResolution, Transports, FiniteSetTheorems, SequenceTheorems,
        WellFoundedInduction, TLAPS

States == {"unsent", "queued", "selecting", "auditing", "searching", "committing", "closed"}
Outcomes == {"none", "silent", "resolved", "invalid_context_budget",
             "selection_plan_limit_exceeded", "selection_catalog_unavailable",
             "unexpected_failure", "deadline_exceeded"}
Fields == {"st", "startedAt", "cancelled", "asked", "until", "plan", "signal", "items",
           "outcome", "took"}

QueryOK(q) ==
    /\ q.st \in States /\ q.outcome \in Outcomes
    /\ q.outcome = "none" <=> q.st # "closed"
    /\ q.cancelled \in BOOLEAN /\ q.startedAt \in Nat
    /\ q = [f \in Fields |-> q[f]]
    /\ q.outcome = "resolved" => q.took < TotalMs

\* A query past its audit.
Recorded(q) == q.st \in {"searching", "committing"} \/ q.outcome = "resolved"

Replies == [call : Requests, ok : BOOLEAN]

\* The audit thread: what it answers well is in the database.
AuditRecords ==
    [ready : {"pending", "ready", "failed"}, alive : BOOLEAN, waiting : SUBSET Requests,
     pending : SUBSET Requests, inbox : Seq(Requests), replies : Seq(Replies),
     rows : SUBSET Requests]

AuditOK ==
    /\ audit \in AuditRecords
    /\ IsFiniteSet(audit.waiting)
    /\ \A i \in 1 .. Len(audit.replies) :
          audit.replies[i].ok => audit.replies[i].call \in audit.rows

QueriesOK ==
    /\ req = [r \in Requests |-> req[r]]
    /\ \A r \in Requests : QueryOK(req[r]) /\ (Recorded(req[r]) => r \in audit.rows)

ResolutionInv == now \in 0 .. MaxNow /\ AuditOK /\ QueriesOK

-----------------------------------------------------------------------------
(* One query                                                               *)

LEMMA IdleQuery ==
    QueryOK(Idle) /\ ~Recorded(Idle)
BY DEF Idle, QueryOK, Recorded, States, Outcomes, Fields

LEMMA Answered ==
    ASSUME ResolutionInv, NEW r \in Requests, NEW code \in Outcomes \ {"none"},
           code = "resolved" => CanAssemble(req[r], now)
    PROVE  QueryOK(Answer(r, code)) /\ (Recorded(Answer(r, code)) => code = "resolved")
<1> DEFINE outcome == IF req[r].cancelled THEN "silent" ELSE code
           took == IF outcome = "resolved" THEN elapsedMs(req[r], now) ELSE 0
           answer == [Idle EXCEPT !.st = "closed", !.outcome = outcome, !.took = took]
<1>1. outcome \in Outcomes \ {"none"} /\ (outcome = "resolved" => code = "resolved")
  BY DEF Outcomes
<1>2. outcome = "resolved" => took < TotalMs
  <2> SUFFICES ASSUME outcome = "resolved" PROVE took < TotalMs
    OBVIOUS
  <2>1. now \in Nat /\ req[r].startedAt \in Nat /\ TotalMs \in Nat
    BY BudgetAssumption, ResolutionAssumption DEF DeadlinesValid, ResolutionInv, QueriesOK, QueryOK
  <2>2. OrZero(TotalMs - elapsedMs(req[r], now)) > 0
    BY <1>1 DEF CanAssemble, remainingMs
  <2>3. elapsedMs(req[r], now) \in Int
    BY <2>1 DEF elapsedMs, OrZero
  <2> QED  BY <2>1, <2>2, <2>3 DEF OrZero
<1>3. answer = Answer(r, code)
  BY DEF Answer
<1> HIDE DEF outcome, took
<1>4. answer.st = "closed" /\ answer.outcome = outcome /\ answer.took = took
  BY DEF Idle
<1>5. answer.cancelled \in BOOLEAN /\ answer.startedAt = 0 /\ answer = [f \in Fields |-> answer[f]]
  BY DEF Idle, Fields
<1> HIDE DEF answer
<1>6. QueryOK(answer)
  BY <1>1, <1>2, <1>4, <1>5 DEF QueryOK, States
<1>7. Recorded(answer) => code = "resolved"
  BY <1>1, <1>4 DEF Recorded
<1> QED  BY <1>3, <1>6, <1>7

\* One query goes on; what is in the database stays there.
LEMMA QueryStep ==
    ASSUME ResolutionInv, NEW r \in Requests, NEW q, QueryOK(q), req' = [req EXCEPT ![r] = q],
           now' = now, AuditOK', audit.rows \subseteq audit'.rows,
           Recorded(q) => r \in audit'.rows
    PROVE  ResolutionInv'
<1>1. req' = [s \in Requests |-> IF s = r THEN q ELSE req[s]]
  BY DEF ResolutionInv, QueriesOK
<1>2. QueriesOK'
  BY <1>1 DEF ResolutionInv, QueriesOK
<1> QED  BY <1>2 DEF ResolutionInv

LEMMA SameAudit ==
    ASSUME ResolutionInv, audit' = audit
    PROVE  AuditOK'
BY DEF ResolutionInv, AuditOK, AuditRecords

\* A step of one query alone.
LEMMA AloneStep ==
    ASSUME ResolutionInv, NEW r \in Requests, NEW q, QueryOK(q), req' = [req EXCEPT ![r] = q],
           UNCHANGED <<now, audit>>, Recorded(q) => r \in audit.rows
    PROVE  ResolutionInv'
BY QueryStep, SameAudit

\* A query is answered otherwise than from its cards.
LEMMA RefusalStep ==
    ASSUME ResolutionInv, NEW r \in Requests, NEW code \in Outcomes \ {"none", "resolved"},
           req' = [req EXCEPT ![r] = Answer(r, code)], UNCHANGED <<now, audit>>
    PROVE  ResolutionInv'
<1>1. QueryOK(Answer(r, code)) /\ ~Recorded(Answer(r, code))
  BY Answered
<1> QED  BY <1>1, AloneStep

LEMMA ArriveStep ==
    ASSUME ResolutionInv, NEW r \in Requests, Arrive(r)
    PROVE  ResolutionInv'
<1>1. PICK asked : req' = [req EXCEPT ![r].st = "queued", ![r].startedAt = now, ![r].asked = asked]
  BY DEF Arrive
<1> DEFINE q == [req[r] EXCEPT !.st = "queued", !.startedAt = now, !.asked = asked]
<1>2. QueryOK(req[r]) /\ req[r].st = "unsent" /\ now \in Nat
  BY DEF Arrive, ResolutionInv, QueriesOK
<1>3. QueryOK(q) /\ ~Recorded(q)
  BY <1>2 DEF QueryOK, Recorded, Fields, States, Outcomes
<1>4. req' = [req EXCEPT ![r] = q]
  BY <1>1
<1> HIDE DEF q
<1> QED  BY <1>3, <1>4, AloneStep DEF Arrive

\* A query that is not answered moves on to another stage.
LEMMA MovedOn ==
    ASSUME NEW q, NEW p, QueryOK(q), q.st # "closed", NEW st \in States \ {"closed"},
           p.st = st, p.outcome = q.outcome, p.cancelled \in BOOLEAN, p.startedAt \in Nat,
           p = [f \in Fields |-> p[f]]
    PROVE  /\ QueryOK(p)
           /\ Recorded(p) => st \in {"searching", "committing"}
BY DEF QueryOK, Recorded

LEMMA OpenQuery ==
    ASSUME ResolutionInv, NEW r \in Requests
    PROVE  /\ QueryOK(req[r]) /\ (Recorded(req[r]) => r \in audit.rows)
           /\ req[r].cancelled \in BOOLEAN /\ req[r].startedAt \in Nat
           /\ req[r] = [f \in Fields |-> req[r][f]]
BY DEF ResolutionInv, QueriesOK, QueryOK

LEMMA AdmitStep ==
    ASSUME ResolutionInv, NEW r \in Requests, Admit(r)
    PROVE  ResolutionInv'
<1> DEFINE limit == selectionMs(req[r], now)
           q == [req[r] EXCEPT !.st = "selecting", !.until = now + limit]
<1>1. UNCHANGED <<now, audit>> /\ req[r].st = "queued"
  BY DEF Admit
<1>2. \/ req' = [req EXCEPT ![r] = Answer(r, "deadline_exceeded")]
      \/ req' = [req EXCEPT ![r] = Answer(r, "invalid_context_budget")]
      \/ req' = [req EXCEPT ![r] = q]
  BY DEF Admit
<1>3. QueryOK(q) /\ ~Recorded(q)
  <2> HIDE DEF limit
  <2>1. /\ q.st = "selecting" /\ q.outcome = req[r].outcome /\ q.cancelled = req[r].cancelled
        /\ q.startedAt = req[r].startedAt /\ q = [f \in Fields |-> q[f]]
    BY OpenQuery DEF Fields
  <2> HIDE DEF q
  <2> QED  BY <1>1, <2>1, OpenQuery, MovedOn DEF States
<1> HIDE DEF q
<1> QED  BY <1>1, <1>2, <1>3, RefusalStep, AloneStep DEF Outcomes

LEMMA ExpiryStep ==
    ASSUME ResolutionInv, NEW r \in Requests,
           LeaveQueue(r) \/ SelectionFails(r) \/ StageExpires(r)
    PROVE  ResolutionInv'
BY RefusalStep DEF LeaveQueue, SelectionFails, StageExpires, Outcomes

-----------------------------------------------------------------------------
(* The audit                                                               *)

LEMMA PostKeepsAudit ==
    ASSUME ResolutionInv, NEW r \in Requests, audit' = PostAppend(audit, r)
    PROVE  AuditOK' /\ audit'.rows = audit.rows
<1>1. AuditOK
  BY DEF ResolutionInv
<1>2. CASE audit.ready = "pending"
  <2> DEFINE waiting == audit.waiting \cup {r}
  <2>1. audit' = [audit EXCEPT !.waiting = waiting]
    BY <1>2 DEF PostAppend
  <2>2. IsFiniteSet(waiting) /\ waiting \in SUBSET Requests
    BY <1>1, FS_AddElement DEF AuditOK, AuditRecords
  <2> HIDE DEF waiting
  <2>3. /\ audit' \in AuditRecords /\ audit'.waiting = waiting
        /\ audit'.replies = audit.replies /\ audit'.rows = audit.rows
    BY <1>1, <2>1, <2>2 DEF AuditOK, AuditRecords
  <2> QED  BY <1>1, <2>2, <2>3 DEF AuditOK, AuditRecords
<1>3. CASE audit.ready # "pending"
  <2> DEFINE inbox == IF audit.alive THEN Append(audit.inbox, r) ELSE audit.inbox
             pending == audit.pending \cup {r}
  <2>1. audit' = [audit EXCEPT !.pending = pending, !.inbox = inbox]
    BY <1>3 DEF PostAppend, PostTo
  <2>2. inbox \in Seq(Requests) /\ pending \in SUBSET Requests
    BY <1>1 DEF AuditOK, AuditRecords
  <2> HIDE DEF inbox, pending
  <2>3. /\ audit' \in AuditRecords /\ audit'.waiting = audit.waiting
        /\ audit'.replies = audit.replies /\ audit'.rows = audit.rows
    BY <1>1, <2>1, <2>2 DEF AuditOK, AuditRecords
  <2> QED  BY <1>1, <2>3 DEF AuditOK, AuditRecords
<1> QED  BY <1>2, <1>3

LEMMA SelectedStep ==
    ASSUME ResolutionInv, NEW r \in Requests, Selected(r)
    PROVE  ResolutionInv'
<1>1. now' = now /\ req[r].st = "selecting"
  BY DEF Selected
<1>2. CASE /\ \/ req' = [req EXCEPT ![r] = Answer(r, "deadline_exceeded")]
              \/ req' = [req EXCEPT ![r] = Answer(r, "unexpected_failure")]
           /\ UNCHANGED audit
  BY <1>1, <1>2, RefusalStep DEF Outcomes
<1>3. ASSUME NEW plan \in Plans, audit' = PostAppend(audit, r),
             req' = [req EXCEPT ![r].st = "auditing", ![r].plan = plan,
                                ![r].until = now + workableMs(req[r], now)]
      PROVE  ResolutionInv'
  <2> DEFINE until == now + workableMs(req[r], now)
             q == [req[r] EXCEPT !.st = "auditing", !.plan = plan, !.until = until]
  <2>1. req' = [req EXCEPT ![r] = q]
    BY <1>3
  <2> HIDE DEF until
  <2>2. /\ q.st = "auditing" /\ q.outcome = req[r].outcome /\ q.cancelled = req[r].cancelled
        /\ q.startedAt = req[r].startedAt /\ q = [f \in Fields |-> q[f]]
    BY OpenQuery DEF Fields
  <2> HIDE DEF q
  <2>3. QueryOK(q) /\ ~Recorded(q)
    BY <1>1, <2>2, OpenQuery, MovedOn DEF States
  <2> QED  BY <1>1, <1>3, <2>1, <2>3, PostKeepsAudit, QueryStep
<1> QED  BY <1>2, <1>3 DEF Selected

\* A step of the thread that no query notices.
LEMMA ThreadStep ==
    ASSUME ResolutionInv, UNCHANGED <<now, req>>, AuditOK', audit.rows \subseteq audit'.rows
    PROVE  ResolutionInv'
BY DEF ResolutionInv, QueriesOK

LEMMA AuditReadyStep ==
    ASSUME ResolutionInv, AuditReady
    PROVE  ResolutionInv'
<1>1. PICK order \in SetToSeqs(audit.waiting) : audit' = BecomesReady(audit, order)
  BY DEF AuditReady
<1>2. AuditOK /\ Cardinality(audit.waiting) \in Nat
  BY FS_CardinalityType DEF ResolutionInv, AuditOK, AuditRecords
<1>3. order \in Seq(audit.waiting)
  BY <1>2 DEF SetToSeqs
<1>4. order \in Seq(Requests)
  BY <1>2, <1>3 DEF AuditOK, AuditRecords
<1>5. audit' = [audit EXCEPT !.ready = "ready", !.waiting = {}, !.pending = audit.waiting,
                             !.inbox = order]
  BY <1>1 DEF BecomesReady
<1>6. AuditOK' /\ audit'.rows = audit.rows
  BY <1>2, <1>4, <1>5, FS_EmptySet DEF AuditOK, AuditRecords
<1> QED  BY <1>6, ThreadStep DEF AuditReady

LEMMA AuditHandlesStep ==
    ASSUME ResolutionInv, AuditHandles
    PROVE  ResolutionInv'
<1>1. PICK ok \in BOOLEAN : audit' = HandleNext(audit, ok)
  BY DEF AuditHandles
<1> DEFINE call == Head(audit.inbox)
           reply == [call |-> call, ok |-> ok]
           rows == IF ok THEN audit.rows \cup {call} ELSE audit.rows
           replies == Append(audit.replies, reply)
<1>2. AuditOK /\ audit.inbox # <<>> /\ audit.inbox \in Seq(Requests) /\ audit.replies \in Seq(Replies)
  BY DEF AuditHandles, ResolutionInv, AuditOK, AuditRecords
<1>3. call \in Requests /\ Tail(audit.inbox) \in Seq(Requests)
  BY <1>2
<1>4. audit' = [audit EXCEPT !.inbox = Tail(audit.inbox), !.replies = replies, !.rows = rows]
  BY <1>1 DEF HandleNext
<1> HIDE DEF call
<1>5. reply \in Replies /\ reply.call = call /\ (reply.ok => ok)
  BY <1>3 DEF Replies
<1>6. rows \subseteq Requests /\ audit.rows \subseteq rows /\ (ok => call \in rows)
  BY <1>2, <1>3 DEF AuditOK, AuditRecords
<1> HIDE DEF reply, rows
<1>7. replies \in Seq(Replies)
  BY <1>2, <1>5
<1>8. \A i \in 1 .. Len(replies) : replies[i].ok => replies[i].call \in rows
  <2> SUFFICES ASSUME NEW i \in 1 .. Len(replies), replies[i].ok
               PROVE  replies[i].call \in rows
    OBVIOUS
  <2>1. Len(audit.replies) \in Nat /\ Len(replies) = Len(audit.replies) + 1
    BY <1>2, <1>5
  <2>2. CASE i = Len(audit.replies) + 1
    BY <1>2, <1>5, <1>6, <2>1, <2>2
  <2>3. CASE i # Len(audit.replies) + 1
    <3>1. i \in 1 .. Len(audit.replies)
      BY <2>1, <2>3
    <3>2. replies[i] = audit.replies[i]
      BY <1>2, <1>5, <3>1
    <3> QED  BY <1>2, <1>6, <3>1, <3>2 DEF AuditOK, AuditRecords
  <2> QED  BY <2>2, <2>3
<1> HIDE DEF replies
<1>9. AuditOK' /\ audit.rows \subseteq audit'.rows
  BY <1>2, <1>3, <1>4, <1>6, <1>7, <1>8 DEF AuditOK, AuditRecords
<1> QED  BY <1>9, ThreadStep DEF AuditHandles

LEMMA TakeKeepsAudit ==
    ASSUME ResolutionInv, audit.replies # <<>>, audit' = TakeReply(audit)
    PROVE  AuditOK' /\ audit'.rows = audit.rows
<1> DEFINE rest == Tail(audit.replies)
           pending == audit.pending \ {Head(audit.replies).call}
<1>1. AuditOK /\ audit.replies \in Seq(Replies)
  BY DEF ResolutionInv, AuditOK, AuditRecords
<1>2. audit' = [audit EXCEPT !.replies = rest, !.pending = pending]
  BY DEF TakeReply
<1>3. pending \in SUBSET Requests
  BY <1>1 DEF AuditOK, AuditRecords
<1>4. /\ rest \in Seq(Replies) /\ Len(rest) = Len(audit.replies) - 1
      /\ \A i \in 1 .. Len(rest) : rest[i] = audit.replies[i + 1]
  BY <1>1
<1>5. \A i \in 1 .. Len(rest) : rest[i].ok => rest[i].call \in audit.rows
  <2> SUFFICES ASSUME NEW i \in 1 .. Len(rest), rest[i].ok PROVE rest[i].call \in audit.rows
    OBVIOUS
  <2>1. i + 1 \in 1 .. Len(audit.replies)
    BY <1>1, <1>4
  <2> QED  BY <1>1, <1>4, <2>1 DEF AuditOK
<1> HIDE DEF rest, pending
<1>6. /\ audit' \in AuditRecords /\ audit'.waiting = audit.waiting
      /\ audit'.replies = rest /\ audit'.rows = audit.rows
  BY <1>1, <1>2, <1>3, <1>4 DEF AuditOK, AuditRecords
<1> QED  BY <1>1, <1>5, <1>6 DEF AuditOK

\* After its audit a query is about to read, or it is answered.
LEMMA AfterAuditShape ==
    ASSUME ResolutionInv, NEW r \in Requests, req[r].st = "auditing"
    PROVE  QueryOK(AfterAudit(r))
<1>1. CASE AfterAudit(r) \in {Answer(r, "deadline_exceeded"), Answer(r, "selection_plan_limit_exceeded")}
  BY <1>1, Answered DEF Outcomes
<1>2. CASE AfterAudit(r) = [req[r] EXCEPT !.st = "committing"]
  <2> DEFINE q == [req[r] EXCEPT !.st = "committing"]
  <2>1. /\ q.st = "committing" /\ q.outcome = req[r].outcome /\ q.cancelled = req[r].cancelled
        /\ q.startedAt = req[r].startedAt /\ q = [f \in Fields |-> q[f]]
    BY OpenQuery DEF Fields
  <2> HIDE DEF q
  <2>2. QueryOK(q)
    BY <2>1, OpenQuery, MovedOn DEF States
  <2> QED  BY <1>2, <2>2 DEF q
<1>3. CASE \E until, items : AfterAudit(r) =
             [req[r] EXCEPT !.st = "searching", !.until = until, !.items = items]
  <2>1. PICK until, items : AfterAudit(r) =
               [req[r] EXCEPT !.st = "searching", !.until = until, !.items = items]
    BY <1>3
  <2> DEFINE q == [req[r] EXCEPT !.st = "searching", !.until = until, !.items = items]
  <2>2. /\ q.st = "searching" /\ q.outcome = req[r].outcome /\ q.cancelled = req[r].cancelled
        /\ q.startedAt = req[r].startedAt /\ q = [f \in Fields |-> q[f]]
    BY OpenQuery DEF Fields
  <2>3. AfterAudit(r) = q
    BY <2>1
  <2> HIDE DEF q
  <2>4. QueryOK(q)
    BY <2>2, OpenQuery, MovedOn DEF States
  <2> QED  BY <2>3, <2>4
<1> QED  BY <1>1, <1>2, <1>3 DEF AfterAudit

LEMMA AuditAnswersStep ==
    ASSUME ResolutionInv, AuditAnswers
    PROVE  ResolutionInv'
<1> DEFINE reply == Head(audit.replies)
           r == reply.call
<1>1. audit.replies # <<>> /\ audit' = TakeReply(audit) /\ now' = now
  BY DEF AuditAnswers
<1>2. AuditOK' /\ audit'.rows = audit.rows
  BY <1>1, TakeKeepsAudit
<1>3. CASE UNCHANGED req
  BY <1>1, <1>2, <1>3, ThreadStep
<1>4. CASE ~UNCHANGED req
  <2>1. /\ req[r].st = "auditing"
        /\ req' = [req EXCEPT ![r] = IF reply.ok THEN AfterAudit(r)
                                     ELSE Answer(r, "unexpected_failure")]
    BY <1>4 DEF AuditAnswers
  <2>2. audit.replies \in Seq(Replies) /\ Len(audit.replies) \in Nat \ {0}
    BY <1>1 DEF ResolutionInv, AuditOK, AuditRecords
  <2>3. reply = audit.replies[1] /\ 1 \in 1 .. Len(audit.replies) /\ reply \in Replies
    BY <1>1, <2>2
  <2>4. reply.ok => r \in audit.rows
    BY <2>3 DEF ResolutionInv, AuditOK
  <2>5. r \in Requests
    BY <2>3 DEF Replies
  <2> HIDE DEF reply
  <2>6. CASE reply.ok
    BY <1>1, <1>2, <2>1, <2>4, <2>5, <2>6, AfterAuditShape, QueryStep
  <2>7. CASE ~reply.ok
    <3>1. QueryOK(Answer(r, "unexpected_failure")) /\ ~Recorded(Answer(r, "unexpected_failure"))
      BY <2>5, Answered DEF Outcomes
    <3> QED  BY <1>1, <1>2, <2>1, <2>5, <2>7, <3>1, QueryStep
  <2> QED  BY <2>6, <2>7
<1> QED  BY <1>3, <1>4

LEMMA AuditDiesStep ==
    ASSUME ResolutionInv, AuditDies
    PROVE  ResolutionInv'
<1>1. AuditOK
  BY DEF ResolutionInv
<1> DEFINE ready == IF audit.ready = "pending" THEN "failed" ELSE audit.ready
<1>2. audit' = [audit EXCEPT !.alive = FALSE, !.waiting = {}, !.pending = {}, !.inbox = <<>>,
                             !.replies = <<>>, !.ready = ready]
  BY DEF AuditDies, Lost
<1>3. ready \in {"pending", "ready", "failed"}
  BY <1>1 DEF AuditOK, AuditRecords
<1> HIDE DEF ready
<1>4. <<>> \in Seq(Requests) /\ <<>> \in Seq(Replies) /\ Len(<<>>) = 0
  OBVIOUS
<1>5. /\ audit' \in AuditRecords /\ audit'.waiting = {}
      /\ audit'.replies = <<>> /\ audit'.rows = audit.rows
  BY <1>1, <1>2, <1>3, <1>4 DEF AuditOK, AuditRecords
<1>6. AuditOK'
  BY <1>4, <1>5, FS_EmptySet DEF AuditOK
<1>7. \A r \in Requests : /\ QueryOK(Answer(r, "unexpected_failure"))
                          /\ ~Recorded(Answer(r, "unexpected_failure"))
  BY Answered DEF Outcomes
<1>8. QueriesOK'
  <2>1. req' = [r \in Requests |-> req'[r]]
    BY DEF AuditDies
  <2>2. \A r \in Requests : req'[r] \in {req[r], Answer(r, "unexpected_failure")}
    BY DEF AuditDies
  <2> QED  BY <1>5, <1>7, <2>1, <2>2 DEF QueriesOK, ResolutionInv
<1> QED  BY <1>6, <1>8 DEF AuditDies, ResolutionInv

-----------------------------------------------------------------------------
(* Managed reads and the answer                                            *)

\* While it reads, only the items and the signal of a query change.
LEMMA ReadingStep ==
    ASSUME ResolutionInv, NEW r \in Requests, req[r].st = "searching", NEW signal, NEW items,
           req' = [req EXCEPT ![r] = [req[r] EXCEPT !.signal = signal, !.items = items]],
           UNCHANGED <<now, audit>>
    PROVE  ResolutionInv'
<1> DEFINE q == [req[r] EXCEPT !.signal = signal, !.items = items]
<1>1. /\ q.st = "searching" /\ q.outcome = req[r].outcome /\ q.cancelled = req[r].cancelled
      /\ q.startedAt = req[r].startedAt /\ q = [f \in Fields |-> q[f]]
  BY OpenQuery DEF Fields
<1>2. req' = [req EXCEPT ![r] = q]
  OBVIOUS
<1> HIDE DEF q
<1>3. QueryOK(q)
  BY <1>1, OpenQuery, MovedOn DEF States
<1>4. r \in audit.rows
  BY OpenQuery DEF Recorded
<1> QED  BY <1>2, <1>3, <1>4, AloneStep

LEMMA SearchExpiresStep ==
    ASSUME ResolutionInv, NEW r \in Requests, SearchExpires(r)
    PROVE  ResolutionInv'
<1> DEFINE items == req[r].items
<1>1. [req[r] EXCEPT !.signal = "stage"] = [req[r] EXCEPT !.signal = "stage", !.items = items]
  BY OpenQuery DEF Fields
<1>2. /\ req' = [req EXCEPT ![r] = [req[r] EXCEPT !.signal = "stage", !.items = items]]
      /\ UNCHANGED <<now, audit>> /\ req[r].st = "searching"
  BY <1>1 DEF SearchExpires
<1> HIDE DEF items
<1> QED  BY <1>2, ReadingStep

LEMMA TargetStep ==
    ASSUME ResolutionInv, NEW r \in Requests, StartTarget(r) \/ FinishTarget(r)
    PROVE  ResolutionInv'
<1>1. PICK t, item : req' = [req EXCEPT ![r].items[t] = item]
  BY DEF StartTarget, FinishTarget
<1> DEFINE items == [req[r].items EXCEPT ![t] = item]
<1>2. req' = [req EXCEPT ![r] = [req[r] EXCEPT !.items = items]]
  BY <1>1
<1> HIDE DEF items
<1>3. [req[r] EXCEPT !.items = items] = [req[r] EXCEPT !.signal = req[r].signal, !.items = items]
  BY OpenQuery DEF Fields
<1> QED  BY <1>2, <1>3, ReadingStep DEF StartTarget, FinishTarget

LEMMA SearchReturnsStep ==
    ASSUME ResolutionInv, NEW r \in Requests, SearchReturns(r)
    PROVE  ResolutionInv'
<1> DEFINE q == [req[r] EXCEPT !.st = "committing"]
<1>1. /\ q.st = "committing" /\ q.outcome = req[r].outcome /\ q.cancelled = req[r].cancelled
      /\ q.startedAt = req[r].startedAt /\ q = [f \in Fields |-> q[f]]
  BY OpenQuery DEF Fields
<1>2. /\ req' = [req EXCEPT ![r] = q] \/ req' = [req EXCEPT ![r] = Answer(r, "deadline_exceeded")]
      /\ UNCHANGED <<now, audit>> /\ req[r].st = "searching"
  BY DEF SearchReturns
<1> HIDE DEF q
<1>3. QueryOK(q) /\ r \in audit.rows
  BY <1>1, <1>2, OpenQuery, MovedOn DEF States, Recorded
<1> QED  BY <1>2, <1>3, AloneStep, RefusalStep DEF Outcomes

LEMMA CommitStep ==
    ASSUME ResolutionInv, NEW r \in Requests, Commit(r)
    PROVE  ResolutionInv'
<1>1. r \in audit.rows
  BY OpenQuery DEF Commit, Recorded
<1>2. CASE CanAssemble(req[r], now)
  <2>1. QueryOK(Answer(r, "resolved"))
    BY <1>2, Answered DEF Outcomes
  <2> QED  BY <1>1, <1>2, <2>1, AloneStep DEF Commit
<1>3. CASE ~CanAssemble(req[r], now)
  BY <1>3, RefusalStep DEF Commit, Outcomes
<1> QED  BY <1>2, <1>3

LEMMA CallerAbortsStep ==
    ASSUME ResolutionInv, NEW r \in Requests, CallerAborts(r)
    PROVE  ResolutionInv'
<1> DEFINE silent == [Idle EXCEPT !.st = "closed", !.outcome = "silent"]
           gone == [req[r] EXCEPT !.cancelled = TRUE]
           told == [gone EXCEPT !.signal = "request"]
<1>1. /\ \/ req' = [req EXCEPT ![r] = silent] \/ req' = [req EXCEPT ![r] = gone]
         \/ req' = [req EXCEPT ![r] = told]
      /\ UNCHANGED <<now, audit>> /\ req[r].st # "closed"
  BY DEF CallerAborts
<1>2. QueryOK(silent) /\ ~Recorded(silent)
  BY DEF Idle, QueryOK, Recorded, States, Outcomes, Fields
<1>3. /\ gone.st = req[r].st /\ gone.outcome = req[r].outcome /\ gone.cancelled \in BOOLEAN
      /\ gone.startedAt = req[r].startedAt /\ gone = [f \in Fields |-> gone[f]]
  BY OpenQuery DEF Fields
<1>4. /\ told.st = req[r].st /\ told.outcome = req[r].outcome /\ told.cancelled \in BOOLEAN
      /\ told.startedAt = req[r].startedAt /\ told = [f \in Fields |-> told[f]]
  BY OpenQuery DEF Fields
<1> HIDE DEF silent, gone, told
<1>5. /\ QueryOK(gone) /\ QueryOK(told)
      /\ Recorded(gone) \/ Recorded(told) => r \in audit.rows
  <2>1. req[r].st \in States
    BY OpenQuery DEF QueryOK
  <2>2. QueryOK(gone) /\ (Recorded(gone) => req[r].st \in {"searching", "committing"})
    BY <1>1, <1>3, <2>1, OpenQuery, MovedOn
  <2>3. QueryOK(told) /\ (Recorded(told) => req[r].st \in {"searching", "committing"})
    BY <1>1, <1>4, <2>1, OpenQuery, MovedOn
  <2> QED  BY <2>2, <2>3, OpenQuery DEF Recorded
<1> QED  BY <1>1, <1>2, <1>5, AloneStep

-----------------------------------------------------------------------------
(* The theorems                                                            *)

LEMMA InitResolution ==
    ResolutionInit => ResolutionInv
<1> SUFFICES ASSUME ResolutionInit PROVE ResolutionInv
  OBVIOUS
<1>1. now \in 0 .. MaxNow
  BY ResolutionAssumption DEF ResolutionInit
<1>2. audit \in AuditRecords /\ audit.waiting = {} /\ audit.replies = <<>>
  <2>1. <<>> \in Seq(Requests) /\ <<>> \in Seq(Replies)
    OBVIOUS
  <2> QED  BY <2>1 DEF ResolutionInit, AuditStart, AuditRecords
<1>3. AuditOK
  BY <1>2, FS_EmptySet DEF AuditOK
<1>4. QueriesOK
  BY IdleQuery DEF ResolutionInit, QueriesOK
<1> QED  BY <1>1, <1>3, <1>4 DEF ResolutionInv

LEMMA TickStep ==
    ASSUME ResolutionInv, Tick
    PROVE  ResolutionInv'
<1>1. now' \in 0 .. MaxNow
  BY ResolutionAssumption DEF Tick, ResolutionInv
<1>2. QueriesOK'
  BY DEF Tick, ResolutionInv, QueriesOK
<1> QED  BY <1>1, <1>2, SameAudit DEF Tick, ResolutionInv

\* What a query, the audit thread and the clock keep true of each other.
THEOREM ResolutionInvariant ==
    ResolutionSpec => []ResolutionInv
<1>1. ResolutionInv /\ [ResolutionNext]_resolutionVars => ResolutionInv'
  <2> SUFFICES ASSUME ResolutionInv, [ResolutionNext]_resolutionVars PROVE ResolutionInv'
    OBVIOUS
  <2>1. CASE UNCHANGED resolutionVars
    <3>1. audit' = audit /\ UNCHANGED <<now, req>>
      BY <2>1 DEF resolutionVars
    <3> QED  BY <3>1, SameAudit, ThreadStep
  <2>2. CASE Tick \/ AuditReady \/ AuditHandles \/ AuditAnswers \/ AuditDies
    BY <2>2, TickStep, AuditReadyStep, AuditHandlesStep, AuditAnswersStep, AuditDiesStep
  <2>3. ASSUME NEW r \in Requests,
               \/ Arrive(r) \/ Admit(r) \/ LeaveQueue(r) \/ Selected(r) \/ SelectionFails(r)
               \/ StageExpires(r) \/ SearchExpires(r) \/ StartTarget(r) \/ FinishTarget(r)
               \/ SearchReturns(r) \/ Commit(r) \/ CallerAborts(r)
        PROVE  ResolutionInv'
    BY <2>3, ArriveStep, AdmitStep, ExpiryStep, SelectedStep, SearchExpiresStep, TargetStep,
       SearchReturnsStep, CommitStep, CallerAbortsStep
  <2> QED  BY <2>1, <2>2, <2>3 DEF ResolutionNext
<1> QED  BY InitResolution, <1>1, PTL DEF ResolutionSpec

\* Every value is one the code can hold.
THEOREM ResolutionTypes ==
    ResolutionSpec => []ResolutionTypeOK
<1>1. ResolutionInv => ResolutionTypeOK
  <2> SUFFICES ASSUME ResolutionInv PROVE ResolutionTypeOK
    OBVIOUS
  <2>1. Outcomes = {"none", "silent", "resolved"} \cup DOMAIN ErrorTable
    BY DEF Outcomes, ErrorTable
  <2>2. audit.rows \subseteq Requests /\ audit.pending \subseteq Requests
    BY DEF ResolutionInv, AuditOK, AuditRecords
  <2> QED  BY <2>1, <2>2 DEF ResolutionInv, QueriesOK, QueryOK, States, ResolutionTypeOK
<1> QED  BY <1>1, ResolutionInvariant, PTL

\* resolveWithin answers from the selected cards only once the audit thread has the
\* selection in its database, whatever becomes of the thread, its messages and its
\* answers, and of the query's timers.
THEOREM ResolvedIsAudited ==
    ResolutionSpec => []AnsweredIsAudited
<1>1. ResolutionInv => AnsweredIsAudited
  BY DEF ResolutionInv, QueriesOK, Recorded, AnsweredIsAudited
<1> QED  BY <1>1, ResolutionInvariant, PTL

\* assertCanAssemble before the answer is written: no success after the total budget,
\* for every valid profile and however late the timers fire.
THEOREM ResolvedInTime ==
    ResolutionSpec => []AnsweredInTime
<1>1. ResolutionInv => AnsweredInTime
  BY DEF ResolutionInv, QueriesOK, QueryOK, AnsweredInTime
<1> QED  BY <1>1, ResolutionInvariant, PTL

-----------------------------------------------------------------------------
(* The transports.  Over HTTP: one answer, and an honest one.              *)

HttpPhases == {"reading", "resolving", "committing", "over"}

HttpRecords ==
    [phase : HttpPhases, path : Paths, body : Bodies, declared : Int, size : Nat,
     ended : BOOLEAN, gone : BOOLEAN, timely : BOOLEAN, ran : BOOLEAN, status : Nat, writes : Nat]

\* Nothing is written before the request is over, and the query that ran had a body
\* within the limit and asks of it no more.
HttpInv ==
    /\ http \in HttpRecords
    /\ http.phase # "over" => http.writes = 0 /\ http.status = 0
    /\ http.phase = "reading" => http.size <= BodyLimit /\ ~http.ran /\ ~http.gone /\ http.timely
    /\ http.phase \in {"resolving", "committing"} => http.ran
    /\ OneHonestAnswer

LEMMA HttpInitInv == HttpInit => HttpInv
BY HttpAssumption DEF HttpInit, Connected, HttpInv, HttpRecords, HttpPhases, OneHonestAnswer

\* What an assignment to a record leaves of it.
LEMMA PhaseFields ==
    ASSUME NEW h \in HttpRecords, NEW p \in HttpPhases, NEW w, w = [h EXCEPT !.phase = p]
    PROVE  /\ w \in HttpRecords /\ w.phase = p /\ w.status = h.status /\ w.writes = h.writes
           /\ w.size = h.size /\ w.gone = h.gone /\ w.timely = h.timely /\ w.ran = h.ran
BY DEF HttpRecords, HttpPhases

LEMMA HttpWrites ==
    ASSUME NEW h \in HttpRecords, NEW s \in Nat, h.writes = 0, ~h.gone, h.ran => h.size <= BodyLimit,
           s = 200 => h.ran /\ h.timely, http' = Write(h, s)
    PROVE  HttpInv'
<1> DEFINE w == http'
<1>1. w = [h EXCEPT !.phase = "over", !.status = s, !.writes = 1]
  BY DEF HttpRecords, Write
<1> HIDE DEF w
<1>2. /\ w \in HttpRecords /\ w.phase = "over" /\ w.status = s /\ w.writes = 1
      /\ w.size = h.size /\ w.gone = h.gone /\ w.timely = h.timely /\ w.ran = h.ran
  BY <1>1 DEF HttpRecords, HttpPhases
<1> QED  BY <1>2 DEF w, HttpInv, OneHonestAnswer

LEMMA HttpFails ==
    ASSUME NEW h \in HttpRecords, NEW s \in Nat, s # 200, h.writes = 0, h.status = 0, h.ran => h.size <= BodyLimit,
           http' = FailWith(h, s)
    PROVE  HttpInv'
<1>1. CASE h.gone
  <2>1. http' = [h EXCEPT !.phase = "over"]
    BY <1>1 DEF FailWith
  <2>2. /\ http' \in HttpRecords /\ http'.phase = "over" /\ http'.status = h.status
        /\ http'.writes = h.writes /\ http'.size = h.size /\ http'.gone = h.gone /\ http'.ran = h.ran
    BY <2>1, PhaseFields DEF HttpPhases
  <2> QED  BY <2>2 DEF HttpInv, OneHonestAnswer
<1>2. CASE ~h.gone
  <2>1. http' = Write(h, s)
    BY <1>2 DEF FailWith
  <2> QED  BY <1>2, <2>1, HttpWrites
<1> QED  BY <1>1, <1>2

LEMMA HttpNextInv ==
    ASSUME HttpInv, [HttpNext]_httpVars
    PROVE  HttpInv'
<1> BodyLimit \in Nat
  BY HttpAssumption
<1>0. /\ http \in HttpRecords /\ http.writes \in Nat
      /\ http.phase # "over" => http.writes = 0 /\ http.status = 0 /\ (http.ran => http.size <= BodyLimit)
      /\ http.phase = "reading" => http.size <= BodyLimit /\ ~http.ran /\ ~http.gone /\ http.timely
      /\ http.phase \in {"resolving", "committing"} => http.ran
  BY DEF HttpInv, OneHonestAnswer, HttpRecords
<1>1. CASE RefuseDeclared
  BY <1>0, <1>1, HttpFails DEF RefuseDeclared, InvalidRequest
<1>2. CASE BodyChunk
  <2> DEFINE grown == [http EXCEPT !.size = @ + 1]
  <2>1. /\ grown \in HttpRecords /\ grown.writes = http.writes /\ grown.status = http.status /\ grown.ran = http.ran
        /\ grown.phase = http.phase /\ grown.gone = http.gone /\ grown.timely = http.timely
        /\ grown.size = http.size + 1
    BY <1>0 DEF HttpRecords
  <2>2. http.phase = "reading" /\ http' = IF grown.size > BodyLimit THEN FailWith(grown, 400) ELSE grown
    BY <1>2 DEF BodyChunk, InvalidRequest
  <2> HIDE DEF grown
  <2>3. CASE grown.size > BodyLimit
    BY <1>0, <2>1, <2>2, <2>3, HttpFails
  <2>4. CASE ~(grown.size > BodyLimit)
    <3>1. http' = grown /\ http.size \in Nat
      BY <1>0, <2>2, <2>4 DEF HttpRecords
    <3> QED  BY <1>0, <2>1, <2>2, <2>4, <3>1 DEF HttpInv, OneHonestAnswer
  <2> QED  BY <2>3, <2>4
<1>3. CASE BodyEnds
  <2>1. http.phase = "reading" /\ ~http.gone
    BY <1>3 DEF BodyEnds
  <2>2. CASE http' = [http EXCEPT !.phase = "resolving", !.ran = TRUE]
    <3>1. /\ http' \in HttpRecords /\ http'.writes = http.writes /\ http'.status = http.status /\ http'.ran
          /\ http'.phase = "resolving" /\ http'.gone = http.gone /\ http'.size = http.size
      BY <1>0, <2>2 DEF HttpRecords, HttpPhases
    <3> QED  BY <1>0, <2>1, <3>1 DEF HttpInv, OneHonestAnswer
  <2>3. CASE \E s \in {404, 405, 400} : http' = Write(http, s)
    <3>1. PICK s \in {404, 405, 400} : http' = FailWith(http, s)
      BY <2>1, <2>3 DEF FailWith
    <3> QED  BY <1>0, <2>1, <3>1, HttpFails
  <2>4. \/ \E s \in {404, 405, 400} : http' = Write(http, s)
        \/ http' = [http EXCEPT !.phase = "resolving", !.ran = TRUE]
    BY <1>3 DEF BodyEnds, InvalidRequest
  <2> QED  BY <2>2, <2>3, <2>4
<1>4. CASE CommitAnswer
  <2>1. /\ http.phase = "committing"
        /\ http' = IF ~http.timely THEN FailWith(http, 504)
                   ELSE IF http.gone THEN [http EXCEPT !.phase = "over"] ELSE Write(http, 200)
    BY <1>4 DEF CommitAnswer, DeadlineExceeded
  <2>2. CASE ~http.timely
    BY <1>0, <2>1, <2>2, HttpFails
  <2>3. CASE http.timely /\ http.gone
    <3>1. http' = FailWith(http, 504)
      BY <2>1, <2>3 DEF FailWith
    <3> QED  BY <1>0, <2>1, <3>1, HttpFails
  <2>4. CASE http.timely /\ ~http.gone
    <3>1. http' = Write(http, 200)
      BY <2>1, <2>4
    <3> QED  BY <1>0, <2>1, <2>4, <3>1, HttpWrites
  <2> QED  BY <2>2, <2>3, <2>4
<1>5. CASE Disconnect \/ LifetimeEnds
  <2>1. PICK gone \in {TRUE, http.gone} : LET h == [http EXCEPT !.gone = gone, !.timely = FALSE] IN
          http.phase # "over" /\ http' = IF http.phase = "reading" THEN FailWith(h, 504) ELSE h
    <3>1. CASE Disconnect
      BY <3>1 DEF Disconnect, DeadlineExceeded
    <3>2. CASE LifetimeEnds
      <4>1. [http EXCEPT !.gone = http.gone, !.timely = FALSE] = [http EXCEPT !.timely = FALSE]
        BY <1>0 DEF HttpRecords
      <4> QED  BY <3>2, <4>1 DEF LifetimeEnds, DeadlineExceeded
    <3> QED  BY <1>5, <3>1, <3>2
  <2> DEFINE h == [http EXCEPT !.gone = gone, !.timely = FALSE]
  <2>2. /\ h \in HttpRecords /\ h.writes = http.writes /\ h.status = http.status /\ h.ran = http.ran
        /\ h.phase = http.phase /\ h.size = http.size
    BY <1>0 DEF HttpRecords
  <2>3. http.phase # "over" /\ http' = IF http.phase = "reading" THEN FailWith(h, 504) ELSE h
    BY <2>1
  <2> HIDE DEF h
  <2>4. CASE http.phase = "reading"
    BY <1>0, <2>2, <2>3, <2>4, HttpFails
  <2>5. CASE http.phase # "reading"
    BY <1>0, <2>2, <2>3, <2>5 DEF HttpInv, OneHonestAnswer
  <2> QED  BY <2>4, <2>5
<1>6. CASE \E status \in {200, 400, 422, 429, 500, 503, 504} : Resolved(status)
  <2>1. PICK status \in {200, 400, 422, 429, 500, 503, 504} :
           /\ http.phase = "resolving"
           /\ http' = IF status = 200 THEN [http EXCEPT !.phase = "committing"] ELSE FailWith(http, status)
    BY <1>6 DEF Resolved
  <2>2. CASE status = 200
    <3>1. http' = [http EXCEPT !.phase = "committing"]
      BY <2>1, <2>2
    <3>2. /\ http' \in HttpRecords /\ http'.phase = "committing" /\ http'.status = http.status
          /\ http'.writes = http.writes /\ http'.size = http.size /\ http'.gone = http.gone
          /\ http'.timely = http.timely /\ http'.ran = http.ran
      BY <1>0, <3>1, PhaseFields DEF HttpPhases
    <3> QED  BY <1>0, <2>1, <3>2 DEF HttpInv, OneHonestAnswer
  <2>3. CASE status # 200
    BY <1>0, <2>1, <2>3, HttpFails
  <2> QED  BY <2>2, <2>3
<1>7. CASE UNCHANGED httpVars
  BY <1>7 DEF httpVars, HttpInv, OneHonestAnswer
<1> QED  BY <1>1, <1>2, <1>3, <1>4, <1>5, <1>6, <1>7 DEF HttpNext

\* For every limit, kind of request and of body: one answer for a connection, none
\* after its caller has gone, and no success but of a query that ran and was in time
\* (node-http-server.ts).
THEOREM HttpAnswersOnce == HttpInit /\ [][HttpNext]_httpVars => []OneHonestAnswer
<1>1. HttpInv => OneHonestAnswer
  BY DEF HttpInv
<1> QED  BY <1>1, HttpInitInv, HttpNextInv, PTL

-----------------------------------------------------------------------------
(* Over stdio: every line of the input is accounted for once.              *)

LEMMA LeastOf ==
    ASSUME NEW T \in SUBSET Nat, T # {}
    PROVE  \E x \in T : \A y \in T : x <= y
<1>1. PICK x \in T : \A y \in T : ~ (<<y, x>> \in OpToRel(<, Nat))
  BY NatLessThanWellFounded, WFMin
<1>2. ASSUME NEW y \in T PROVE x <= y
  <2>1. ~ (<<y, x>> \in {ss \in Nat \X Nat : ss[1] < ss[2]})
    BY <1>1 DEF OpToRel
  <2> QED  BY <2>1
<1> QED  BY <1>2

LEMMA InductionOnNat ==
    ASSUME NEW G \in SUBSET Nat, 0 \in G, \A n \in Nat : n \in G => n + 1 \in G
    PROVE  G = Nat
<1> SUFFICES ASSUME Nat \ G # {} PROVE FALSE
  OBVIOUS
<1>1. PICK x \in Nat \ G : \A y \in Nat \ G : x <= y
  BY LeastOf
<1>2. x # 0 /\ x - 1 \in Nat /\ x - 1 \notin Nat \ G
  BY <1>1
<1> QED  BY <1>2, <1>1

-----------------------------------------------------------------------------
(* Frames.                                                                 *)

\* The rest of a sequence after its first n elements.
LEMMA RestAfter ==
    ASSUME NEW S, NEW s \in Seq(S), NEW n \in 0 .. Len(s), NEW r, r = SubSeq(s, n + 1, Len(s))
    PROVE  /\ r \in Seq(S) /\ Len(r) = Len(s) - n
           /\ \A i \in 1 .. (Len(s) - n) : r[i] = s[n + i]
<1>1. n + 1 \in Int /\ Len(s) \in Nat /\ n \in Nat
  OBVIOUS
<1>2. \A i \in (n + 1) .. Len(s) : s[i] \in S
  OBVIOUS
<1>3. /\ r \in Seq(S)
      /\ Len(r) = IF n + 1 <= Len(s) THEN Len(s) - (n + 1) + 1 ELSE 0
      /\ \A i \in 1 .. (Len(s) - (n + 1) + 1) : r[i] = s[n + 1 + i - 1]
  BY <1>1, <1>2, SubSeqProperties
<1>4. Len(r) = Len(s) - n
  BY <1>1, <1>3
<1>5. ASSUME NEW i \in 1 .. (Len(s) - n) PROVE r[i] = s[n + i]
  <2>1. i \in 1 .. (Len(s) - (n + 1) + 1) /\ n + 1 + i - 1 = n + i
    BY <1>1
  <2> QED  BY <1>3, <2>1
<1> QED  BY <1>3, <1>4, <1>5

LEMMA FirstPart ==
    ASSUME NEW S, NEW s \in Seq(S), NEW n \in 0 .. Len(s), NEW r, r = SubSeq(s, 1, n)
    PROVE  r \in Seq(S) /\ Len(r) = n /\ \A i \in 1 .. n : r[i] = s[i]
<1>1. n \in Int /\ 1 \in Int /\ Len(s) \in Nat /\ \A i \in 1 .. n : s[i] \in S
  OBVIOUS
<1>2. /\ r \in Seq(S)
      /\ Len(r) = IF 1 <= n THEN n - 1 + 1 ELSE 0
      /\ \A i \in 1 .. (n - 1 + 1) : r[i] = s[1 + i - 1]
  BY <1>1, SubSeqProperties
<1>3. Len(r) = n
  BY <1>1, <1>2
<1>4. ASSUME NEW i \in 1 .. n PROVE r[i] = s[i]
  <2>1. i \in 1 .. (n - 1 + 1) /\ 1 + i - 1 = i
    BY <1>1
  <2> QED  BY <1>2, <2>1
<1> QED  BY <1>2, <1>3, <1>4

LEMMA FirstIs ==
    ASSUME NEW S, NEW b \in Seq(S), NEW f \in 1 .. Len(b), b[f] = NL, \A i \in 1 .. (f - 1) : b[i] # NL
    PROVE  HasLine(b) /\ FirstNewline(b) = f
<1>1. DOMAIN b = 1 .. Len(b) /\ Len(b) \in Nat
  BY LenProperties
<1>2. f \in DOMAIN b /\ b[f] = NL /\ \A j \in 1 .. (f - 1) : b[j] # NL
  BY <1>1
<1>3. ASSUME NEW i \in DOMAIN b, b[i] = NL, \A j \in 1 .. (i - 1) : b[j] # NL PROVE i = f
  <2>1. i \in Nat /\ f \in Nat /\ i >= 1 /\ f >= 1
    BY <1>1
  <2>2. ~(i < f) /\ ~(f < i)
    BY <2>1, <1>2, <1>3
  <2> QED  BY <2>1, <2>2
<1> QED  BY <1>2, <1>3 DEF FirstNewline, HasLine

\* The first line of a buffer, and what comes after it.
Framed(S, b, f, line, rest) ==
    /\ f \in 1 .. Len(b) /\ b[f] = NL /\ \A i \in 1 .. (f - 1) : b[i] # NL
    /\ line \in Seq(S) /\ Len(line) = f - 1 /\ \A i \in 1 .. (f - 1) : line[i] = b[i]
    /\ rest \in Seq(S) /\ Len(rest) = Len(b) - f /\ \A i \in 1 .. (Len(b) - f) : rest[i] = b[f + i]

LEMMA FirstLine ==
    ASSUME NEW S, NEW b \in Seq(S), HasLine(b)
    PROVE  Framed(S, b, FirstNewline(b), LineOf(b), RestOf(b))
<1> DEFINE f == FirstNewline(b)
<1>1. DOMAIN b = 1 .. Len(b) /\ Len(b) \in Nat
  BY LenProperties
<1> DEFINE T == {i \in 1 .. Len(b) : b[i] = NL}
<1>2. T \in SUBSET Nat /\ T # {}
  BY <1>1 DEF HasLine
<1>3. PICK g \in T : \A y \in T : g <= y
  BY <1>2, LeastOf
<1>4. g \in 1 .. Len(b) /\ b[g] = NL /\ \A i \in 1 .. (g - 1) : b[i] # NL
  BY <1>1, <1>3
<1>5. f = g
  BY <1>4, FirstIs
<1> HIDE DEF f
<1>6. f \in 1 .. Len(b) /\ f \in 0 .. Len(b) /\ f - 1 \in 0 .. Len(b)
  BY <1>1, <1>4, <1>5
<1>7. LineOf(b) = SubSeq(b, 1, f - 1) /\ RestOf(b) = SubSeq(b, f + 1, Len(b))
  BY DEF f, LineOf, RestOf
<1>8. LineOf(b) \in Seq(S) /\ Len(LineOf(b)) = f - 1 /\ \A i \in 1 .. (f - 1) : LineOf(b)[i] = b[i]
  BY <1>6, <1>7, FirstPart
<1>9. RestOf(b) \in Seq(S) /\ Len(RestOf(b)) = Len(b) - f /\ \A i \in 1 .. (Len(b) - f) : RestOf(b)[i] = b[f + i]
  BY <1>6, <1>7, RestAfter
<1> QED  BY <1>4, <1>5, <1>8, <1>9 DEF f, Framed

\* What follows a buffer with a whole line leaves that line alone.
LEMMA PrefixLine ==
    ASSUME NEW S, NEW b \in Seq(S), NEW r \in Seq(S), HasLine(b)
    PROVE  /\ HasLine(b \o r) /\ FirstNewline(b \o r) = FirstNewline(b)
           /\ LineOf(b \o r) = LineOf(b) /\ RestOf(b \o r) = RestOf(b) \o r
<1> DEFINE f == FirstNewline(b)
           w == b \o r
           line == LineOf(b)
           rest == RestOf(b)
           longLine == LineOf(w)
           longRest == RestOf(w)
           c == rest \o r
<1>1. /\ w \in Seq(S) /\ Len(w) = Len(b) + Len(r)
      /\ \A i \in 1 .. Len(b) + Len(r) : w[i] = IF i <= Len(b) THEN b[i] ELSE r[i - Len(b)]
  BY ConcatProperties
<1>2. Len(b) \in Nat /\ Len(r) \in Nat
  OBVIOUS
<1>3. Framed(S, b, f, line, rest)
  BY FirstLine
<1> HIDE DEF f, w, line, rest
<1>4. f \in 1 .. Len(w) /\ w[f] = NL /\ \A i \in 1 .. (f - 1) : w[i] # NL
  BY <1>1, <1>2, <1>3 DEF Framed
<1>5. HasLine(w) /\ FirstNewline(w) = f
  BY <1>1, <1>4, FirstIs
<1>6. Framed(S, w, f, longLine, longRest)
  BY <1>1, <1>5, FirstLine
<1> HIDE DEF longLine, longRest
<1>7. longLine = line
  <2>1. Len(longLine) = Len(line) /\ \A i \in 1 .. Len(longLine) : longLine[i] = line[i]
    BY <1>1, <1>2, <1>3, <1>6 DEF Framed
  <2>2. longLine \in Seq(S) /\ line \in Seq(S)
    BY <1>3, <1>6 DEF Framed
  <2> QED  BY <2>1, <2>2, SeqEqual
<1>8. longRest = c
  <2>0. rest \in Seq(S) /\ longRest \in Seq(S) /\ Len(rest) = Len(b) - f /\ f \in 1 .. Len(b)
    BY <1>3, <1>6 DEF Framed
  <2>1. /\ c \in Seq(S) /\ Len(c) = Len(rest) + Len(r)
        /\ \A i \in 1 .. Len(rest) + Len(r) : c[i] = IF i <= Len(rest) THEN rest[i] ELSE r[i - Len(rest)]
    BY <2>0, ConcatProperties
  <2> HIDE DEF c
  <2>2. Len(c) = Len(longRest) /\ Len(longRest) = Len(b) + Len(r) - f
    BY <1>1, <1>2, <1>6, <2>0, <2>1 DEF Framed
  <2>3. ASSUME NEW i \in 1 .. Len(longRest) PROVE longRest[i] = c[i]
    <3>1. longRest[i] = w[f + i] /\ f + i \in 1 .. Len(b) + Len(r)
      <4>1. Len(w) = Len(b) + Len(r) /\ Len(longRest) = Len(w) - f /\ i \in 1 .. (Len(w) - f)
        BY <1>1, <1>2, <1>6, <2>0, <2>2 DEF Framed
      <4>2. \A k \in 1 .. (Len(w) - f) : longRest[k] = w[f + k]
        BY <1>6 DEF Framed
      <4>3. Len(b) \in Nat /\ Len(r) \in Nat /\ f \in 1 .. Len(b)
        BY <1>1, <1>2, <2>0
      <4> QED  BY ONLY <4>1, <4>2, <4>3
    <3>2. c[i] = IF i <= Len(b) - f THEN rest[i] ELSE r[i - (Len(b) - f)]
      BY <1>2, <2>0, <2>1, <2>2
    <3>3. CASE i <= Len(b) - f
      <4>1. rest[i] = b[f + i] /\ f + i <= Len(b)
        BY <1>2, <1>3, <2>0, <3>3 DEF Framed
      <4> QED  BY <1>1, <3>1, <3>2, <3>3, <4>1
    <3>4. CASE ~(i <= Len(b) - f)
      <4>1. f + i - Len(b) = i - (Len(b) - f) /\ ~(f + i <= Len(b))
        BY <1>2, <2>0, <3>4
      <4> DEFINE k == f + i
      <4>2. k \in 1 .. Len(b) + Len(r) /\ ~(k <= Len(b)) /\ longRest[i] = w[k] /\ k - Len(b) = i - (Len(b) - f)
        BY <1>2, <2>0, <3>1, <4>1
      <4> HIDE DEF k
      <4>3. w[k] = r[k - Len(b)]
        BY <1>1, <4>2
      <4> QED  BY <3>2, <3>4, <4>2, <4>3
    <3> QED  BY <3>3, <3>4
  <2> QED  BY <2>0, <2>1, <2>2, <2>3, SeqEqual
<1> QED  BY <1>5, <1>7, <1>8 DEF f, w, line, rest, longLine, longRest, c

\* A buffer without a whole line is the beginning of the next one.
LEMMA SkipLine ==
    ASSUME NEW S, NEW b \in Seq(S), NEW r \in Seq(S), ~HasLine(b)
    PROVE  /\ HasLine(b \o r) <=> HasLine(r)
           /\ HasLine(r) => LineOf(b \o r) = b \o LineOf(r) /\ RestOf(b \o r) = RestOf(r)
<1> DEFINE w == b \o r
<1>1. /\ w \in Seq(S) /\ Len(w) = Len(b) + Len(r)
      /\ \A i \in 1 .. Len(b) + Len(r) : w[i] = IF i <= Len(b) THEN b[i] ELSE r[i - Len(b)]
  BY ConcatProperties
<1>2. Len(b) \in Nat /\ Len(r) \in Nat /\ DOMAIN b = 1 .. Len(b) /\ DOMAIN r = 1 .. Len(r) /\ DOMAIN w = 1 .. Len(w)
  BY <1>1, LenProperties
<1>3. \A i \in 1 .. Len(b) : b[i] # NL
  BY <1>2 DEF HasLine
<1> HIDE DEF w
<1>4. ASSUME HasLine(w) PROVE HasLine(r)
  <2>1. PICK i \in 1 .. Len(w) : w[i] = NL
    BY <1>2, <1>4 DEF HasLine
  <2>2. ~(i <= Len(b)) /\ i - Len(b) \in 1 .. Len(r)
    BY <1>1, <1>2, <1>3, <2>1
  <2>3. r[i - Len(b)] = NL
    BY <1>1, <2>1, <2>2
  <2> QED  BY <1>2, <2>2, <2>3 DEF HasLine
<1>5. ASSUME HasLine(r) PROVE HasLine(w) /\ LineOf(w) = b \o LineOf(r) /\ RestOf(w) = RestOf(r)
  <2> DEFINE f == FirstNewline(r)
             line == LineOf(r)
             rest == RestOf(r)
             longLine == LineOf(w)
             longRest == RestOf(w)
             c == b \o line
             g == Len(b) + f
  <2>1. Framed(S, r, f, line, rest)
    BY <1>5, FirstLine
  <2> HIDE DEF f, line, rest
  <2>2. f \in 1 .. Len(r) /\ r[f] = NL /\ line \in Seq(S) /\ Len(line) = f - 1 /\ rest \in Seq(S) /\ Len(rest) = Len(r) - f
    BY <2>1 DEF Framed
  <2>3. g \in 1 .. Len(w) /\ g - Len(b) = f /\ ~(g <= Len(b)) /\ g - 1 = Len(b) + (f - 1)
    BY <1>1, <1>2, <2>2
  <2> HIDE DEF g
  <2>4. w[g] = NL
    BY <1>1, <2>2, <2>3
  <2>5. ASSUME NEW i \in 1 .. (g - 1) PROVE w[i] # NL
    <3>1. CASE i <= Len(b)
      BY <1>1, <1>2, <1>3, <2>3, <3>1
    <3>2. CASE ~(i <= Len(b))
      <4>1. i - Len(b) \in 1 .. (f - 1) /\ i \in 1 .. Len(b) + Len(r)
        BY <1>2, <2>2, <2>3, <3>2
      <4> QED  BY <1>1, <2>1, <3>2, <4>1 DEF Framed
    <3> QED  BY <3>1, <3>2
  <2>6. HasLine(w) /\ FirstNewline(w) = g
    BY <1>1, <2>3, <2>4, <2>5, FirstIs
  <2>7. Framed(S, w, g, longLine, longRest)
    BY <1>1, <2>6, FirstLine
  <2> HIDE DEF longLine, longRest
  <2>8. longLine \in Seq(S) /\ Len(longLine) = g - 1 /\ longRest \in Seq(S) /\ Len(longRest) = Len(w) - g
    BY <2>7 DEF Framed
  <2>9. longLine = c
    <3>0. /\ c \in Seq(S) /\ Len(c) = Len(b) + Len(line)
          /\ \A i \in 1 .. Len(b) + Len(line) : c[i] = IF i <= Len(b) THEN b[i] ELSE line[i - Len(b)]
      BY <2>2, ConcatProperties
    <3>1. /\ c \in Seq(S) /\ Len(c) = Len(b) + (f - 1)
          /\ \A i \in 1 .. Len(b) + (f - 1) : c[i] = IF i <= Len(b) THEN b[i] ELSE line[i - Len(b)]
      BY <2>2, <3>0
    <3> HIDE DEF c
    <3>2. ASSUME NEW i \in 1 .. (g - 1) PROVE longLine[i] = c[i]
      <4>1. longLine[i] = w[i]
        BY <2>7 DEF Framed
      <4>2. i \in 1 .. Len(b) + (f - 1) /\ i \in 1 .. Len(b) + Len(r)
        BY <1>2, <2>2, <2>3
      <4>3. CASE i <= Len(b)
        BY <1>1, <3>1, <4>1, <4>2, <4>3
      <4>4. CASE ~(i <= Len(b))
        <5>1. i - Len(b) \in 1 .. (f - 1)
          BY <1>2, <2>2, <4>2, <4>4
        <5>2. line[i - Len(b)] = r[i - Len(b)]
          BY <2>1, <5>1 DEF Framed
        <5> QED  BY <1>1, <3>1, <4>1, <4>2, <4>4, <5>2
      <4> QED  BY <4>3, <4>4
    <3> QED  BY <2>3, <2>8, <3>1, <3>2, SeqEqual
  <2>10. longRest = rest
    <3>1. Len(w) - g = Len(r) - f
      BY <1>1, <1>2, <2>2, <2>3
    <3>2. ASSUME NEW i \in 1 .. (Len(w) - g) PROVE longRest[i] = rest[i]
      <4>1. g + i \in 1 .. Len(b) + Len(r) /\ ~(g + i <= Len(b)) /\ g + i - Len(b) = f + i /\ i \in 1 .. (Len(r) - f)
        BY <1>1, <1>2, <2>2, <2>3, <3>1
      <4>2. longRest[i] = w[g + i] /\ rest[i] = r[f + i]
        BY <2>1, <2>7, <4>1 DEF Framed
      <4> DEFINE k == g + i
      <4>3. k \in 1 .. Len(b) + Len(r) /\ ~(k <= Len(b)) /\ k - Len(b) = f + i /\ longRest[i] = w[k]
        BY <1>2, <2>2, <2>3, <4>1, <4>2
      <4> HIDE DEF k
      <4>4. w[k] = r[k - Len(b)]
        BY <1>1, <4>3
      <4> QED  BY <4>2, <4>3, <4>4
    <3> QED  BY <2>2, <2>8, <3>1, <3>2, SeqEqual
  <2> QED  BY <2>6, <2>9, <2>10 DEF longLine, longRest, c, line, rest
<1> QED  BY <1>4, <1>5 DEF w

-----------------------------------------------------------------------------
(* Counting.                                                               *)

MovedUp(A, B, f) == A = {f + b : b \in B}

\* A set of numbers that is moved up keeps its size.
LEMMA Shifted ==
    ASSUME NEW B \in SUBSET Nat, IsFiniteSet(B), NEW f \in Nat, NEW A, MovedUp(A, B, f)
    PROVE  IsFiniteSet(A) /\ Cardinality(A) = Cardinality(B)
<1> DEFINE g == [b \in B |-> f + b]
<1>1. g \in Bijection(B, A)
  BY DEF MovedUp, Bijection, Injection, Surjection, IsInjective
<1>2. ExistsBijection(B, A)
  BY <1>1 DEF ExistsBijection
<1> QED  BY <1>2, FS_Bijection

\* A truth value as a number.
Bit(b) == IF b THEN 1 ELSE 0

\* The lines of an input that are in K, and the elements of a sequence that are in T.
LinesIn(s, K) == {a \in LineStarts(s) : LineAt(s, a) \in K}
Lines(s, K) == Cardinality(LinesIn(s, K))

\* How many of the first n elements of a sequence are in T, and how many of all.
UpTo(s, n, T) == Cardinality({k \in 1 .. n : s[k] \in T})
Among(s, T) == UpTo(s, Len(s), T)

LEMMA LinesFinite ==
    ASSUME NEW S, NEW s \in Seq(S), NEW K
    PROVE  LinesIn(s, K) \in SUBSET (1 .. Len(s)) /\ IsFiniteSet(LinesIn(s, K)) /\ Lines(s, K) \in Nat
<1>1. DOMAIN s = 1 .. Len(s) /\ Len(s) \in Int /\ 1 \in Int
  BY LenProperties
<1>2. LinesIn(s, K) \in SUBSET (1 .. Len(s))
  BY <1>1 DEF LinesIn, LineStarts
<1>3. IsFiniteSet(1 .. Len(s))
  BY <1>1, FS_Interval
<1>4. IsFiniteSet(LinesIn(s, K))
  BY <1>2, <1>3, FS_Subset
<1> QED  BY <1>2, <1>4, FS_CardinalityType DEF Lines

\* Taking the first line off an input takes it off the count.
LEMMA NextLine ==
    ASSUME NEW S, NEW s \in Seq(S), HasLine(s), NEW K
    PROVE  Lines(s, K) = Bit(LineOf(s) \in K) + Lines(RestOf(s), K)
<1> DEFINE f == FirstNewline(s)
           rest == RestOf(s)
           A == LinesIn(s, K)
           B == LinesIn(rest, K)
           M == {f + b : b \in B}
<1>1. Framed(S, s, f, LineOf(s), rest)
  BY FirstLine
<1>2. rest = SubSeq(s, f + 1, Len(s))
  BY DEF RestOf
<1> HIDE DEF f, rest
<1>3. /\ f \in 1 .. Len(s) /\ s[f] = NL /\ rest \in Seq(S) /\ Len(rest) = Len(s) - f
      /\ \A i \in 1 .. (f - 1) : s[i] # NL
      /\ \A i \in 1 .. (Len(s) - f) : rest[i] = s[f + i]
  BY <1>1 DEF Framed
<1>4. DOMAIN s = 1 .. Len(s) /\ DOMAIN rest = 1 .. Len(rest) /\ Len(s) \in Nat /\ f \in Nat
  BY <1>3, LenProperties
<1>5. LineAt(s, 1) = LineOf(s)
  BY SubSeqFull DEF LineAt, UpToNewline
<1>6. ASSUME NEW b \in 1 .. Len(rest) PROVE LineAt(s, f + b) = LineAt(rest, b)
  <2>1. /\ f + 1 \in 1 .. Len(s) /\ Len(s) \in 1 .. Len(s) /\ Len(rest) = Len(s) - (f + 1) + 1
        /\ b \in 1 .. Len(s) - (f + 1) + 1 /\ Len(rest) \in 1 .. Len(s) - (f + 1) + 1
        /\ f + 1 + b - 1 = f + b /\ f + 1 + Len(rest) - 1 = Len(s)
    BY <1>3, <1>4
  <2> DEFINE i == f + 1
             j == Len(s)
             n == Len(rest)
  <2>2. i \in 1 .. Len(s) /\ j \in 1 .. Len(s) /\ b \in 1 .. j - i + 1 /\ n \in 1 .. j - i + 1
    BY <2>1
  <2>3. rest = SubSeq(s, i, j) /\ i + b - 1 = f + b /\ i + n - 1 = j
    BY <1>2, <2>1
  <2> HIDE DEF i, j, n
  <2>4. SubSeq(SubSeq(s, i, j), b, n) = SubSeq(s, i + b - 1, i + n - 1)
    BY <2>2, SubSeqOfSubSeq
  <2>5. SubSeq(rest, b, n) = SubSeq(s, f + b, j)
    BY <2>3, <2>4
  <2> QED  BY <2>5 DEF LineAt, j, n
<1>7. ASSUME NEW b \in 1 .. Len(rest) PROVE f + b \in LineStarts(s) <=> b \in LineStarts(rest)
  <2>1. f + b \in DOMAIN s /\ f + b # 1 /\ f + b - 1 = f + (b - 1)
    BY <1>3, <1>4
  <2>2. CASE b = 1
    BY <1>3, <1>4, <2>1, <2>2 DEF LineStarts
  <2>3. CASE b # 1
    <3> DEFINE k == b - 1
    <3>1. k \in 1 .. (Len(s) - f) /\ f + b - 1 = f + k /\ b - 1 = k
      BY <1>3, <1>4, <2>1, <2>3
    <3> HIDE DEF k
    <3>2. rest[k] = s[f + k]
      BY <1>3, <3>1
    <3> QED  BY <1>4, <2>1, <2>3, <3>1, <3>2 DEF LineStarts
  <2> QED  BY <2>2, <2>3
<1>8. ASSUME NEW a \in LineStarts(s), a # 1 PROVE a - f \in 1 .. Len(rest)
  <2>1. a \in 1 .. Len(s) /\ s[a - 1] = NL /\ a - 1 \in 1 .. Len(s)
    BY <1>4, <1>8 DEF LineStarts
  <2>2. ~(a - 1 \in 1 .. (f - 1))
    BY <1>3, <2>1
  <2> QED  BY <1>3, <1>4, <2>1, <2>2
<1>9. 1 \in LineStarts(s)
  BY <1>3, <1>4 DEF LineStarts
<1>10. B \in SUBSET (1 .. Len(rest)) /\ IsFiniteSet(B) /\ Cardinality(B) = Lines(rest, K) /\ Lines(rest, K) \in Nat
  BY <1>3, LinesFinite DEF Lines
<1>11. ASSUME NEW b \in B PROVE b \in Nat
  <2>1. b \in 1 .. Len(rest)
    BY <1>10
  <2> QED  BY <2>1
<1>12. IsFiniteSet(M) /\ Cardinality(M) = Cardinality(B)
  <2>1. B \in SUBSET Nat /\ IsFiniteSet(B) /\ f \in Nat
    BY <1>4, <1>10, <1>11
  <2>2. MovedUp(M, B, f)
    BY DEF MovedUp
  <2> HIDE DEF M
  <2> QED  BY ONLY <2>1, <2>2, Shifted
<1>13. A = IF LineOf(s) \in K THEN M \cup {1} ELSE M
  <2>1. ASSUME NEW a \in A, a # 1 PROVE a \in M
    <3>1. a \in LineStarts(s) /\ LineAt(s, a) \in K
      BY DEF LinesIn
    <3> DEFINE b == a - f
    <3>2. b \in 1 .. Len(rest)
      BY <1>8, <2>1, <3>1
    <3>3. a = f + b
      BY <1>4, <3>1 DEF LineStarts
    <3> HIDE DEF b
    <3>4. b \in LineStarts(rest) /\ LineAt(rest, b) \in K
      BY <1>6, <1>7, <3>1, <3>2, <3>3
    <3>5. b \in B
      BY <3>4 DEF LinesIn
    <3> QED  BY <3>3, <3>5
  <2>2. ASSUME NEW b \in B PROVE f + b \in A /\ f + b # 1
    <3>1. b \in 1 .. Len(rest) /\ b \in LineStarts(rest) /\ LineAt(rest, b) \in K
      BY <1>10 DEF LinesIn
    <3> QED  BY <1>3, <1>4, <1>6, <1>7, <3>1 DEF LinesIn
  <2>3. 1 \in A <=> LineOf(s) \in K
    BY <1>5, <1>9 DEF LinesIn
  <2> HIDE DEF A, B
  <2> QED  BY <2>1, <2>2, <2>3
<1>14. 1 \notin M
  BY <1>3, <1>4, <1>10
<1>15. Cardinality(M \cup {1}) = Cardinality(M) + 1
  BY <1>12, <1>14, FS_AddElement
<1> HIDE DEF A, B, M
<1>16. Cardinality(A) = Bit(LineOf(s) \in K) + Cardinality(M)
  BY <1>10, <1>12, <1>13, <1>15 DEF Bit
<1>17. Lines(s, K) = Cardinality(A)
  BY DEF Lines, A
<1> QED  BY <1>10, <1>12, <1>16, <1>17 DEF rest

\* An input without a newline is one line, or none when it is empty.
LEMMA LastLine ==
    ASSUME NEW S, NEW s \in Seq(S), ~HasLine(s), NEW K, <<>> \notin K
    PROVE  Lines(s, K) = Bit(s \in K)
<1>1. DOMAIN s = 1 .. Len(s) /\ Len(s) \in Nat
  BY LenProperties
<1>2. LineStarts(s) = {a \in 1 .. Len(s) : a = 1}
  BY <1>1 DEF LineStarts, HasLine
<1>3. LineAt(s, 1) = s
  BY SubSeqFull DEF LineAt, UpToNewline
<1>4. s \in K => 1 \in 1 .. Len(s)
  BY <1>1, EmptySeq
<1>5. LinesIn(s, K) = IF s \in K THEN {1} ELSE {}
  BY <1>2, <1>3, <1>4 DEF LinesIn
<1> QED  BY <1>5, FS_EmptySet, FS_Singleton DEF Lines, Bit

LEMMA UpToNext ==
    ASSUME NEW s, NEW n \in Nat, NEW T
    PROVE  /\ UpTo(s, n, T) \in Nat /\ UpTo(s, 0, T) = 0
           /\ UpTo(s, n + 1, T) = UpTo(s, n, T) + Bit(s[n + 1] \in T)
<1> DEFINE A == {k \in 1 .. n : s[k] \in T}
           B == {k \in 1 .. (n + 1) : s[k] \in T}
<1>1. IsFiniteSet(1 .. n)
  BY FS_Interval
<1>2. IsFiniteSet(A)
  BY <1>1, FS_Subset
<1>3. B = IF s[n + 1] \in T THEN A \cup {n + 1} ELSE A
  OBVIOUS
<1>4. n + 1 \notin A
  OBVIOUS
<1>5. Cardinality(A) \in Nat
  BY <1>2, FS_CardinalityType
<1>6. Cardinality(A \cup {n + 1}) = Cardinality(A) + 1
  BY <1>2, <1>4, FS_AddElement
<1>7. UpTo(s, 0, T) = 0
  BY FS_EmptySet DEF UpTo
<1> HIDE DEF A, B
<1>8. Cardinality(B) = Cardinality(A) + Bit(s[n + 1] \in T)
  BY <1>3, <1>5, <1>6 DEF Bit
<1> QED  BY <1>5, <1>7, <1>8 DEF UpTo, A, B

LEMMA UpToSame ==
    ASSUME NEW s, NEW r, NEW n \in Nat, \A k \in 1 .. n : s[k] = r[k], NEW T
    PROVE  UpTo(s, n, T) = UpTo(r, n, T)
<1>1. {k \in 1 .. n : s[k] \in T} = {k \in 1 .. n : r[k] \in T}
  OBVIOUS
<1> QED  BY <1>1 DEF UpTo

LEMMA AmongEmpty ==
    ASSUME NEW T
    PROVE  Among(<<>>, T) = 0
<1>1. Len(<<>>) = 0
  BY EmptySeq
<1> QED  BY <1>1, UpToNext DEF Among

LEMMA AmongAppend ==
    ASSUME NEW S, NEW s \in Seq(S), NEW x \in S, NEW T
    PROVE  /\ Append(s, x) \in Seq(S)
           /\ Among(s, T) \in Nat
           /\ Among(Append(s, x), T) = Among(s, T) + Bit(x \in T)
<1> DEFINE r == Append(s, x)
<1>1. Len(s) \in Nat
  BY LenProperties
<1>2. r \in Seq(S) /\ Len(r) = Len(s) + 1 /\ r[Len(s) + 1] = x /\ \A k \in 1 .. Len(s) : s[k] = r[k]
  BY <1>1
<1> HIDE DEF r
<1>3. UpTo(s, Len(s), T) = UpTo(r, Len(s), T)
  BY <1>1, <1>2, UpToSame
<1>4. UpTo(s, Len(s), T) \in Nat
  BY <1>1, UpToNext
<1>5. UpTo(r, Len(s) + 1, T) = UpTo(r, Len(s), T) + Bit(r[Len(s) + 1] \in T)
  BY <1>1, UpToNext
<1>6. Among(r, T) = Among(s, T) + Bit(x \in T)
  BY <1>2, <1>3, <1>5 DEF Among
<1> QED  BY <1>2, <1>4, <1>6 DEF Among, r

\* What is counted in a sequence is counted in its first n elements or in the rest.
Splits(s, n, r, T) == Among(s, T) = UpTo(s, n, T) + Among(r, T)

LEMMA AmongSplit ==
    ASSUME NEW S, NEW s \in Seq(S), NEW n \in 0 .. Len(s), NEW r, r = SubSeq(s, n + 1, Len(s)), NEW T
    PROVE  Splits(s, n, r, T)
<1> DEFINE A == {k \in 1 .. n : s[k] \in T}
           B == {k \in 1 .. Len(r) : r[k] \in T}
           M == {n + b : b \in B}
           W == {k \in 1 .. Len(s) : s[k] \in T}
<1>1. n \in Nat /\ Len(s) \in Nat
  BY LenProperties
<1>2. Len(r) = Len(s) - n /\ \A i \in 1 .. (Len(s) - n) : r[i] = s[n + i]
  BY RestAfter
<1>3. IsFiniteSet(1 .. n) /\ IsFiniteSet(1 .. Len(r))
  <2>1. 1 \in Int /\ n \in Int /\ Len(r) \in Int
    BY <1>1, <1>2
  <2> QED  BY <2>1, FS_Interval
<1>4. IsFiniteSet(A) /\ IsFiniteSet(B)
  BY <1>3, FS_Subset
<1>5. B \in SUBSET Nat
  BY <1>1, <1>2
<1>6. IsFiniteSet(M) /\ Cardinality(M) = Cardinality(B)
  <2>1. MovedUp(M, B, n)
    BY DEF MovedUp
  <2> HIDE DEF B, M
  <2> QED  BY ONLY <1>1, <1>4, <1>5, <2>1, Shifted
<1>7. W = A \cup M
  <2>1. ASSUME NEW k \in W, ~(k \in 1 .. n) PROVE k \in M
    <3> DEFINE b == k - n
    <3>1. k \in 1 .. Len(s) /\ s[k] \in T
      OBVIOUS
    <3>2. b \in 1 .. (Len(s) - n) /\ k = n + b
      BY <1>1, <2>1, <3>1
    <3> HIDE DEF b
    <3>3. r[b] = s[k]
      BY <1>2, <3>2
    <3>4. b \in B
      BY <1>2, <3>1, <3>2, <3>3
    <3> QED  BY <3>2, <3>4
  <2>2. ASSUME NEW b \in B PROVE n + b \in W
    <3>1. b \in 1 .. (Len(s) - n) /\ r[b] \in T
      BY <1>2
    <3>2. r[b] = s[n + b] /\ n + b \in 1 .. Len(s)
      BY <1>1, <1>2, <3>1
    <3> QED  BY <3>1, <3>2
  <2>3. A \subseteq W /\ \A k \in W : k \in 1 .. n => k \in A
    BY <1>1
  <2> HIDE DEF A, B, W
  <2> QED  BY <2>1, <2>2, <2>3
<1>8. A \cap M = {}
  <2>1. ASSUME NEW b \in B PROVE n + b \notin A
    <3>1. b \in 1 .. (Len(s) - n)
      BY <1>2
    <3> QED  BY <1>1, <3>1
  <2> HIDE DEF A, B
  <2> QED  BY <2>1
<1>9. Cardinality(A) \in Nat /\ Cardinality(M) \in Nat
  BY <1>4, <1>6, FS_CardinalityType
<1> HIDE DEF A, B, M, W
<1>10. Cardinality(A \cup M) = Cardinality(A) + Cardinality(M) - Cardinality(A \cap M)
  BY <1>4, <1>6, FS_Union
<1>11. Cardinality(A \cap M) = 0
  BY <1>8, FS_EmptySet
<1>12. Cardinality(W) = Cardinality(A) + Cardinality(B)
  BY <1>6, <1>7, <1>9, <1>10, <1>11
<1> QED  BY <1>12 DEF Splits, Among, UpTo, A, B, W

-----------------------------------------------------------------------------
(* Lines and what they say.                                                *)

\* Text in which only the requests in C are cancelled.
Symbols(C) == {x \in Piece \cup {NL} : x.kind = "cancel" => x.id \in C}

\* The lines that ask for an answer of one kind: the oversized frames for 0, the calls
\* of an identity for the others; and those answers.
Class(j) == {line \in Seq(Piece \cup {NL}) : IF j = 0 THEN Oversized(line) ELSE IsCall(line, j)}
Outs == [id : 0 .. 2, answer : {"too_large", "invalid", "result", "error"}]
AnswersOf(j) == {o \in Outs : IF j = 0 THEN o = TooLarge ELSE o.id = j}

\* The lines that may wait for their turn.
Waiting(C, controlled) ==
    {line \in Seq(Symbols(C)) : IF Oversized(line) THEN ~controlled ELSE ~Blank(line)}

LEMMA SymbolTypes ==
    ASSUME NEW C
    PROVE  /\ Symbols(C) \subseteq Piece \cup {NL}
           /\ \A x \in Symbols(C) : x.id \in 0 .. 2 /\ (x.kind = "cancel" => x.id \in C)
           /\ Seq(Symbols(C)) \subseteq Seq(Piece \cup {NL})
<1>1. Symbols(C) \subseteq Piece \cup {NL}
  BY DEF Symbols
<1>2. ASSUME NEW x \in Symbols(C) PROVE x.id \in 0 .. 2 /\ (x.kind = "cancel" => x.id \in C)
  BY DEF Symbols, Piece, NL
<1> HIDE DEF Symbols
<1>3. ASSUME NEW s \in Seq(Symbols(C)) PROVE s \in Seq(Piece \cup {NL})
  BY <1>1, SeqMonotonic
<1> QED  BY <1>1, <1>2, <1>3

LEMMA EnvelopeIsRead ==
    ASSUME NEW C, NEW line \in Seq(Symbols(C)), ~Blank(line)
    PROVE  Envelope(line) \in Symbols(C) /\ Envelope(line).kind # "blank"
<1>1. DOMAIN line = 1 .. Len(line) /\ Len(line) \in Nat /\ \A i \in 1 .. Len(line) : line[i] \in Symbols(C)
  BY LenProperties, ElementOfSeq
<1> DEFINE T == {i \in 1 .. Len(line) : line[i].kind # "blank"}
<1>2. T \in SUBSET Nat /\ T # {}
  BY <1>1 DEF Blank
<1>3. PICK x \in T : \A y \in T : x <= y
  BY <1>2, LeastOf
<1>4. x \in DOMAIN line /\ line[x].kind # "blank" /\ \A j \in 1 .. (x - 1) : line[j].kind = "blank"
  BY <1>1, <1>3
<1> DEFINE e == CHOOSE i \in DOMAIN line : line[i].kind # "blank" /\ \A j \in 1 .. (i - 1) : line[j].kind = "blank"
<1>5. e \in DOMAIN line /\ line[e].kind # "blank"
  BY <1>4
<1> HIDE DEF e
<1>6. line[e] \in Symbols(C)
  BY <1>1, <1>5
<1> QED  BY <1>5, <1>6 DEF Envelope, e

\* An empty line asks for nothing.
LEMMA EmptyAsksNothing ==
    ASSUME NEW j \in 0 .. 2
    PROVE  <<>> \notin Class(j)
<1>1. Len(<<>>) = 0 /\ DOMAIN <<>> = {}
  BY EmptySeq
<1>2. RequestLimit \in Nat /\ ~(0 > RequestLimit)
  BY StdioAssumption
<1>3. ~Oversized(<<>>) /\ Blank(<<>>)
  BY <1>1, <1>2 DEF Oversized, Blank
<1> QED  BY <1>3 DEF Class, IsCall

\* A line asks for an answer when it waits for one of that kind.
LEMMA ClassOfLine ==
    ASSUME NEW C, NEW line \in Seq(Symbols(C)), NEW j \in 0 .. 2
    PROVE  /\ line \in Class(j) <=> IF j = 0 THEN Oversized(line) ELSE IsCall(line, j)
           /\ Oversized(line) => (line \in Class(j) <=> j = 0)
           /\ Blank(line) /\ ~Oversized(line) => line \notin Class(j)
<1>1. line \in Seq(Piece \cup {NL})
  BY SymbolTypes
<1> QED  BY <1>1 DEF Class, IsCall

\* Keeping part of the queue in its order: the first k lines leave f[k].
Keeps(pending, id, n, f) ==
    f = [k \in 0 .. n |-> IF k = 0 THEN <<>>
                          ELSE IF CallOf(pending[k], id) THEN f[k - 1] ELSE Append(f[k - 1], pending[k])]

LEMMA KeepsExists ==
    ASSUME NEW pending, NEW id, NEW n \in Nat
    PROVE  \E f : Keeps(pending, id, n, f)
<1> DEFINE G == {m \in Nat : \E f : Keeps(pending, id, m, f)}
<1>1. 0 \in G
  <2> DEFINE f == [k \in 0 .. 0 |-> <<>>]
  <2>1. \A k \in 0 .. 0 : k = 0
    OBVIOUS
  <2>2. Keeps(pending, id, 0, f)
    BY <2>1 DEF Keeps
  <2> QED  BY <2>2
<1>2. ASSUME NEW m \in Nat, m \in G PROVE m + 1 \in G
  <2>1. PICK f : Keeps(pending, id, m, f)
    BY <1>2
  <2> DEFINE last == IF CallOf(pending[m + 1], id) THEN f[m] ELSE Append(f[m], pending[m + 1])
             g == [k \in 0 .. (m + 1) |-> IF k = m + 1 THEN last ELSE f[k]]
             h == [k \in 0 .. (m + 1) |-> IF k = 0 THEN <<>>
                          ELSE IF CallOf(pending[k], id) THEN g[k - 1] ELSE Append(g[k - 1], pending[k])]
  <2>2. ASSUME NEW k \in 0 .. (m + 1) PROVE g[k] = h[k]
    <3>1. CASE k = m + 1
      <4>1. k # 0 /\ k - 1 = m /\ m \in 0 .. (m + 1) /\ m # m + 1
        BY <3>1
      <4>2. g[m] = f[m] /\ g[k] = last
        BY <3>1, <4>1
      <4> HIDE DEF g
      <4> QED  BY <3>1, <4>1, <4>2
    <3>2. CASE k = 0
      <4>1. f[0] = <<>> /\ k # m + 1
        BY <2>1, <3>2 DEF Keeps
      <4> QED  BY <3>2, <4>1
    <3>3. CASE k # m + 1 /\ k # 0
      <4>1. k \in 0 .. m /\ k - 1 \in 0 .. (m + 1) /\ k - 1 # m + 1
        BY <3>3
      <4>2. g[k] = f[k] /\ g[k - 1] = f[k - 1]
        BY <3>3, <4>1
      <4>3. f[k] = IF CallOf(pending[k], id) THEN f[k - 1] ELSE Append(f[k - 1], pending[k])
        BY <2>1, <3>3, <4>1 DEF Keeps
      <4> HIDE DEF g
      <4> QED  BY <3>3, <4>2, <4>3
    <3> QED  BY <3>1, <3>2, <3>3
  <2> HIDE DEF last
  <2>3. g = h
    BY <2>2
  <2>4. Keeps(pending, id, m + 1, g)
    BY <2>3 DEF Keeps
  <2> QED  BY <2>4
<1> HIDE DEF G
<1>3. G = Nat
  <2>1. G \in SUBSET Nat
    BY DEF G
  <2> QED  BY <1>1, <1>2, <2>1, InductionOnNat
<1> QED  BY <1>3 DEF G

LEMMA WithoutCallsKeeps ==
    ASSUME NEW S, NEW pending \in Seq(S), NEW id, NEW T
    PROVE  /\ WithoutCalls(pending, id) \in Seq(S)
           /\ Len(WithoutCalls(pending, id)) <= Len(pending)
           /\ Among(WithoutCalls(pending, id), T) <= Among(pending, T)
           /\ (\A line \in S : CallOf(line, id) => line \notin T)
                => Among(WithoutCalls(pending, id), T) = Among(pending, T)
<1> DEFINE L == Len(pending)
           f == CHOOSE kept : Keeps(pending, id, L, kept)
           Sound == \A line \in S : CallOf(line, id) => line \notin T
           Good(k) == /\ f[k] \in Seq(S) /\ Len(f[k]) <= k
                      /\ Among(f[k], T) <= UpTo(pending, k, T)
                      /\ Sound => Among(f[k], T) = UpTo(pending, k, T)
           G == {k \in Nat : k <= L => Good(k)}
<1>1. L \in Nat
  BY LenProperties
<1>2. Keeps(pending, id, L, f)
  BY <1>1, KeepsExists
<1>3. WithoutCalls(pending, id) = f[L]
  BY DEF WithoutCalls, Keeps
<1> HIDE DEF f
<1>4. 0 \in G
  <2>1. f[0] = <<>>
    BY <1>1, <1>2 DEF Keeps
  <2>2. <<>> \in Seq(S) /\ Len(<<>>) = 0 /\ Among(<<>>, T) = 0 /\ UpTo(pending, 0, T) = 0
    BY EmptySeq, AmongEmpty, UpToNext
  <2>3. Good(0)
    BY <2>1, <2>2
  <2> QED  BY <2>3
<1> HIDE DEF Sound
<1>5. ASSUME NEW k \in Nat, k \in G PROVE k + 1 \in G
  <2> SUFFICES ASSUME k + 1 <= L PROVE Good(k + 1)
    OBVIOUS
  <2> DEFINE line == pending[k + 1]
  <2>1. Good(k) /\ k + 1 \in 0 .. L /\ k + 1 # 0 /\ k + 1 - 1 = k
    BY <1>1, <1>5
  <2>2. f[k + 1] = IF CallOf(line, id) THEN f[k] ELSE Append(f[k], line)
    <3> DEFINE m == k + 1
    <3>1. m \in 0 .. L /\ m # 0 /\ m - 1 = k /\ pending[m] = line
      BY <2>1
    <3> HIDE DEF line, m, L
    <3>2. f[m] = IF CallOf(pending[m], id) THEN f[m - 1] ELSE Append(f[m - 1], pending[m])
      BY <1>2, <3>1 DEF Keeps
    <3>3. f[m] = IF CallOf(line, id) THEN f[k] ELSE Append(f[k], line)
      BY <3>1, <3>2
    <3> QED  BY <3>3 DEF m
  <2>3. line \in S
    BY <1>1, <2>1, ElementOfSeq
  <2>4. UpTo(pending, k + 1, T) = UpTo(pending, k, T) + Bit(line \in T) /\ UpTo(pending, k, T) \in Nat
    BY UpToNext
  <2>5. Bit(line \in T) = IF line \in T THEN 1 ELSE 0
    BY DEF Bit
  <2> HIDE DEF line
  <2>6. CASE CallOf(line, id)
    <3>1. Sound => line \notin T
      BY <2>3, <2>6 DEF Sound
    <3> HIDE DEF Sound
    <3>2. f[k + 1] = f[k] /\ Len(f[k]) \in Nat /\ Among(f[k], T) \in Nat
      BY <2>1, <2>2, <2>3, <2>6, LenProperties, AmongAppend
    <3> QED  BY <2>1, <2>4, <2>5, <3>1, <3>2
  <2>7. CASE ~CallOf(line, id)
    <3>1. f[k + 1] = Append(f[k], line)
      BY <2>2, <2>7
    <3>2. /\ Append(f[k], line) \in Seq(S) /\ Among(f[k], T) \in Nat
          /\ Among(Append(f[k], line), T) = Among(f[k], T) + Bit(line \in T)
      BY <2>1, <2>3, AmongAppend
    <3>3. Len(Append(f[k], line)) = Len(f[k]) + 1 /\ Len(f[k]) \in Nat
      BY <2>1, LenProperties
    <3> QED  BY <2>1, <2>4, <2>5, <3>1, <3>2, <3>3
  <2> QED  BY <2>6, <2>7
<1>6. G = Nat
  <2>1. G \in SUBSET Nat
    OBVIOUS
  <2> HIDE DEF G
  <2> QED  BY <1>4, <1>5, <2>1, InductionOnNat
<1>7. Good(L)
  <2>1. L \in G
    BY <1>1, <1>6
  <2> QED  BY <1>1, <2>1
<1> QED  BY <1>3, <1>7 DEF Among, Sound

-----------------------------------------------------------------------------
(* A transport and what it still owes.                                     *)

Flight(C, controlled) == [n : Nat, line : Waiting(C, controlled), aborted : BOOLEAN]

\* A transport as the input leaves it when only the requests in C are cancelled.
Fits(t, C) ==
    /\ t \in [controlled : BOOLEAN, buffer : Seq(Symbols(C)), discarding : BOOLEAN,
              pending : Seq(Waiting(C, t.controlled)), live : SUBSET Flight(C, t.controlled),
              next : Nat, out : Seq(Outs), ended : BOOLEAN, settled : BOOLEAN]
    /\ IsFiniteSet(t.live) /\ Cardinality(t.live) <= Capacity(t) /\ \A q \in t.live : q.n < t.next
    /\ t.discarding => t.buffer = <<>>

\* What was answered, and what is on its way to an answer; what is yet to be read.
Awaited(t, j) == {q \in t.live : ~q.aborted /\ q.line \in Class(j)}
Held(t, j) == Among(t.out, AnswersOf(j)) + Among(t.pending, Class(j)) + Cardinality(Awaited(t, j))
Unread(t, rest, j) == Lines(t.buffer \o Kept(t, rest), Class(j))
Owed(t, rest, j) == Held(t, j) + Unread(t, rest, j)

\* Only a request that is cancelled may be owed no answer.
Exact(t, C, j) == j = 0 \/ ~t.controlled \/ j \notin C
Within(a, b, exact) == a \in Nat /\ b \in Nat /\ a <= b /\ (exact => a = b)
SameServer(t, u) == u.controlled = t.controlled /\ u.ended = t.ended /\ u.settled = t.settled

LEMMA HeldTypes ==
    ASSUME NEW C, NEW t, Fits(t, C), NEW j
    PROVE  /\ Among(t.out, AnswersOf(j)) \in Nat /\ Among(t.pending, Class(j)) \in Nat
           /\ IsFiniteSet(Awaited(t, j)) /\ Cardinality(Awaited(t, j)) \in Nat
           /\ Held(t, j) \in Nat
<1>1. Len(t.out) \in Nat /\ Len(t.pending) \in Nat
  BY LenProperties DEF Fits
<1>2. Among(t.out, AnswersOf(j)) \in Nat /\ Among(t.pending, Class(j)) \in Nat
  BY <1>1, UpToNext DEF Among
<1>3. IsFiniteSet(t.live) /\ Awaited(t, j) \in SUBSET t.live
  BY DEF Fits, Awaited
<1>4. IsFiniteSet(Awaited(t, j))
  BY <1>3, FS_Subset
<1>5. Cardinality(Awaited(t, j)) \in Nat
  BY <1>4, FS_CardinalityType
<1> QED  BY <1>2, <1>4, <1>5 DEF Held

Queued(t, u, line) == u = [t EXCEPT !.pending = Append(@, line)]

LEMMA PendingGrows ==
    ASSUME NEW C, NEW t, Fits(t, C), NEW line \in Waiting(C, t.controlled), NEW j,
           NEW u, Queued(t, u, line)
    PROVE  /\ Fits(u, C) /\ SameServer(t, u) /\ u.buffer = t.buffer /\ u.discarding = t.discarding
           /\ Held(u, j) = Held(t, j) + Bit(line \in Class(j))
<1>1. /\ u.controlled = t.controlled /\ u.buffer = t.buffer /\ u.discarding = t.discarding
      /\ u.pending = Append(t.pending, line) /\ u.live = t.live /\ u.next = t.next /\ u.out = t.out
      /\ u.ended = t.ended /\ u.settled = t.settled
  BY DEF Fits, Queued
<1>2. t.pending \in Seq(Waiting(C, t.controlled))
  BY DEF Fits
<1>3. /\ Append(t.pending, line) \in Seq(Waiting(C, t.controlled))
      /\ Among(Append(t.pending, line), Class(j)) = Among(t.pending, Class(j)) + Bit(line \in Class(j))
  BY <1>2, AmongAppend
<1>4. Fits(u, C)
  BY <1>1, <1>3 DEF Fits, Capacity, Queued
<1>5. Awaited(u, j) = Awaited(t, j)
  BY <1>1 DEF Awaited
<1>6. Bit(line \in Class(j)) \in Nat
  BY DEF Bit
<1>7. Held(u, j) = Held(t, j) + Bit(line \in Class(j))
  BY <1>1, <1>3, <1>5, <1>6, HeldTypes DEF Held
<1> QED  BY <1>1, <1>4, <1>7 DEF SameServer

Said(t, u, o) == u = [t EXCEPT !.out = Append(@, o)]

LEMMA OutGrows ==
    ASSUME NEW C, NEW t, Fits(t, C), NEW o \in Outs, NEW j, NEW u, Said(t, u, o)
    PROVE  /\ Fits(u, C) /\ SameServer(t, u) /\ u.buffer = t.buffer /\ u.discarding = t.discarding
           /\ Held(u, j) = Held(t, j) + Bit(o \in AnswersOf(j))
<1>1. /\ u.controlled = t.controlled /\ u.buffer = t.buffer /\ u.discarding = t.discarding
      /\ u.pending = t.pending /\ u.live = t.live /\ u.next = t.next /\ u.out = Append(t.out, o)
      /\ u.ended = t.ended /\ u.settled = t.settled
  BY DEF Fits, Said
<1>2. t.out \in Seq(Outs)
  BY DEF Fits
<1>3. /\ Append(t.out, o) \in Seq(Outs)
      /\ Among(Append(t.out, o), AnswersOf(j)) = Among(t.out, AnswersOf(j)) + Bit(o \in AnswersOf(j))
  BY <1>2, AmongAppend
<1>4. Fits(u, C)
  <2> DEFINE S == Seq(Symbols(C))
             P == Seq(Waiting(C, t.controlled))
             F == SUBSET Flight(C, t.controlled)
             T == [controlled : BOOLEAN, buffer : S, discarding : BOOLEAN, pending : P, live : F,
                   next : Nat, out : Seq(Outs), ended : BOOLEAN, settled : BOOLEAN]
  <2>1. t \in T
    BY DEF Fits
  <2>2. u = [t EXCEPT !.out = Append(t.out, o)]
    BY DEF Said
  <2> HIDE DEF S, P, F
  <2>3. u \in T
    BY ONLY <1>3, <2>1, <2>2
  <2>4. /\ IsFiniteSet(u.live) /\ Cardinality(u.live) <= Capacity(u) /\ \A q \in u.live : q.n < u.next
        /\ u.discarding => u.buffer = <<>>
    BY <1>1 DEF Fits, Capacity
  <2> QED  BY <1>1, <2>3, <2>4 DEF Fits, S, P, F
<1>5. Awaited(u, j) = Awaited(t, j)
  BY <1>1 DEF Awaited
<1>6. Bit(o \in AnswersOf(j)) \in Nat
  BY DEF Bit
<1>7. Held(u, j) = Held(t, j) + Bit(o \in AnswersOf(j))
  BY <1>1, <1>3, <1>5, <1>6, HeldTypes DEF Held
<1> QED  BY <1>1, <1>4, <1>7 DEF SameServer

\* A cancellation: the calls it names are owed no answer any more, and no other is.
LEMMA OthersAreKept ==
    ASSUME NEW C, NEW line \in Waiting(C, TRUE), NEW id \in C, NEW j \in 0 .. 2, j = 0 \/ j \notin C,
           CallOf(line, id)
    PROVE  line \notin Class(j)
<1>1. line \in Seq(Symbols(C)) /\ ~Oversized(line)
  BY DEF Waiting
<1>2. Envelope(line).id = id
  BY DEF CallOf
<1>3. j # 0 => j # id
  OBVIOUS
<1> QED  BY <1>1, <1>2, <1>3, ClassOfLine DEF IsCall, CallOf

LEMMA CancelStep ==
    ASSUME NEW C, NEW t, Fits(t, C), t.controlled, NEW id \in C, NEW j \in 0 .. 2,
           NEW u, u = [t EXCEPT !.pending = WithoutCalls(@, id),
                                !.live = {[q EXCEPT !.aborted = @ \/ CallOf(q.line, id)] : q \in @}]
    PROVE  /\ Fits(u, C) /\ SameServer(t, u) /\ u.buffer = t.buffer /\ u.discarding = t.discarding
           /\ Within(Held(u, j), Held(t, j), Exact(t, C, j))
<1> DEFINE F == Flight(C, TRUE)
           after(q) == [q EXCEPT !.aborted = @ \/ CallOf(q.line, id)]
           A == Awaited(t, j)
           B == Awaited(u, j)
<1>1. t.controlled = TRUE
  BY DEF Fits
<1>2. t.live \subseteq F /\ IsFiniteSet(t.live) /\ t.pending \in Seq(Waiting(C, TRUE))
  BY <1>1 DEF Fits
<1>3. /\ u.controlled = t.controlled /\ u.buffer = t.buffer /\ u.discarding = t.discarding
      /\ u.pending = WithoutCalls(t.pending, id) /\ u.live = {after(q) : q \in t.live}
      /\ u.next = t.next /\ u.out = t.out /\ u.ended = t.ended /\ u.settled = t.settled
  BY DEF Fits
<1>4. ASSUME NEW q \in F
      PROVE  /\ after(q) \in F /\ after(q).n = q.n /\ after(q).line = q.line
             /\ after(q).aborted <=> q.aborted \/ CallOf(q.line, id)
             /\ ~after(q).aborted => after(q) = q
  <2> DEFINE c == CallOf(q.line, id)
             v == [q EXCEPT !.aborted = @ \/ c]
  <2>1. q \in [n : Nat, line : Waiting(C, TRUE), aborted : BOOLEAN] /\ c \in BOOLEAN
    BY DEF Flight, CallOf
  <2> HIDE DEF c
  <2>2. /\ v \in [n : Nat, line : Waiting(C, TRUE), aborted : BOOLEAN]
        /\ v.n = q.n /\ v.line = q.line /\ v.aborted = (q.aborted \/ c)
    BY <2>1
  <2>3. ~v.aborted => v = q
    BY <2>1
  <2> QED  BY <2>2, <2>3 DEF Flight, c
<1> HIDE DEF after
<1>5. IsFiniteSet(u.live) /\ Cardinality(u.live) <= Cardinality(t.live)
  <2> DEFINE g == [q \in t.live |-> after(q)]
  <2>1. g \in Surjection(t.live, u.live)
    BY <1>3 DEF Surjection
  <2> HIDE DEF g
  <2> QED  BY <1>2, <2>1, FS_Surjection
<1>6. u.live \subseteq F /\ \A q \in u.live : q.n < u.next
  <2>1. ASSUME NEW q \in t.live PROVE after(q) \in F /\ after(q).n < u.next
    <3>1. q \in F /\ q.n < t.next
      BY <1>2 DEF Fits
    <3> QED  BY <1>3, <1>4, <3>1
  <2> QED  BY <1>3, <2>1
<1>7. /\ u.pending \in Seq(Waiting(C, TRUE))
      /\ Among(u.pending, Class(j)) <= Among(t.pending, Class(j))
      /\ Exact(t, C, j) => Among(u.pending, Class(j)) = Among(t.pending, Class(j))
  <2>1. ASSUME Exact(t, C, j), NEW line \in Waiting(C, TRUE), CallOf(line, id) PROVE line \notin Class(j)
    BY <1>1, <2>1, OthersAreKept DEF Exact
  <2> DEFINE S == Waiting(C, TRUE)
             T == Class(j)
             p == t.pending
             w == WithoutCalls(p, id)
  <2>2. p \in Seq(S)
    BY <1>2
  <2> HIDE DEF S, T, p
  <2>3. /\ w \in Seq(S) /\ Among(w, T) <= Among(p, T)
        /\ (\A line \in S : CallOf(line, id) => line \notin T) => Among(w, T) = Among(p, T)
    BY <2>2, WithoutCallsKeeps
  <2>4. Exact(t, C, j) => \A line \in S : CallOf(line, id) => line \notin T
    BY <2>1 DEF S, T
  <2>5. u.pending = w
    BY <1>3 DEF p
  <2> HIDE DEF w
  <2>6. Exact(t, C, j) => Among(w, T) = Among(p, T)
    BY <2>3, <2>4
  <2> QED  BY <2>3, <2>5, <2>6 DEF S, T, p
<1>8. Fits(u, C)
  <2>1. Capacity(u) = Capacity(t) /\ Capacity(t) \in Nat
    BY <1>1, <1>3, StdioAssumption DEF Capacity
  <2>2. Cardinality(t.live) \in Nat /\ Cardinality(u.live) \in Nat
    BY <1>2, <1>5, FS_CardinalityType
  <2>3. Cardinality(u.live) <= Capacity(u)
    BY <1>5, <2>1, <2>2 DEF Fits
  <2>4. u \in [controlled : BOOLEAN, buffer : Seq(Symbols(C)), discarding : BOOLEAN,
              pending : Seq(Waiting(C, u.controlled)), live : SUBSET Flight(C, u.controlled),
              next : Nat, out : Seq(Outs), ended : BOOLEAN, settled : BOOLEAN]
    BY <1>1, <1>3, <1>6, <1>7 DEF Fits
  <2>5. u.discarding => u.buffer = <<>>
    BY <1>3 DEF Fits
  <2> QED  BY <1>5, <1>6, <2>3, <2>4, <2>5 DEF Fits
<1>9. B \subseteq A
  <2>1. ASSUME NEW q \in t.live, after(q) \in B PROVE after(q) \in A
    <3>1. ~after(q).aborted /\ after(q).line \in Class(j) /\ q \in F
      BY <1>2, <2>1 DEF Awaited
    <3>2. after(q) = q
      BY <1>4, <3>1
    <3> QED  BY <3>1, <3>2 DEF Awaited
  <2> QED  BY <1>3, <2>1 DEF Awaited
<1>10. ASSUME Exact(t, C, j) PROVE A = B
  <2>1. ASSUME NEW q \in A PROVE q \in B
    <3>1. q \in t.live /\ ~q.aborted /\ q.line \in Class(j) /\ q \in F
      BY <1>2 DEF Awaited
    <3>2. q.line \in Waiting(C, TRUE)
      BY <3>1 DEF Flight
    <3>3. ~CallOf(q.line, id)
      BY <1>1, <1>10, <3>1, <3>2, OthersAreKept DEF Exact
    <3>4. after(q) = q
      BY <1>4, <3>1, <3>3
    <3> QED  BY <1>3, <3>1, <3>4 DEF Awaited
  <2> QED  BY <1>9, <2>1
<1>11. Cardinality(B) <= Cardinality(A) /\ (Exact(t, C, j) => Cardinality(B) = Cardinality(A))
  <2>1. IsFiniteSet(A)
    BY HeldTypes
  <2> HIDE DEF A, B
  <2> QED  BY <1>9, <1>10, <2>1, FS_Subset
<1>12. Within(Held(u, j), Held(t, j), Exact(t, C, j))
  <2>1. /\ Among(t.out, AnswersOf(j)) \in Nat /\ Among(t.pending, Class(j)) \in Nat
        /\ Cardinality(Awaited(t, j)) \in Nat /\ Held(t, j) \in Nat
    BY HeldTypes
  <2>2. /\ Among(u.pending, Class(j)) \in Nat /\ Cardinality(Awaited(u, j)) \in Nat /\ Held(u, j) \in Nat
    BY <1>8, HeldTypes
  <2> QED  BY <1>3, <1>7, <1>11, <2>1, <2>2 DEF Held, Within
<1> QED  BY <1>3, <1>8, <1>12 DEF SameServer

LEMMA TakeLineStep ==
    ASSUME NEW C, NEW t, Fits(t, C), NEW line \in Seq(Symbols(C)), NEW j \in 0 .. 2,
           NEW u, u = TakeLine(t, line)
    PROVE  /\ Fits(u, C) /\ SameServer(t, u) /\ u.buffer = t.buffer /\ u.discarding = t.discarding
           /\ Within(Held(u, j), Held(t, j) + Bit(line \in Class(j)), Exact(t, C, j))
<1> DEFINE bit == Bit(line \in Class(j))
<1>1. /\ line \in Class(j) <=> IF j = 0 THEN Oversized(line) ELSE IsCall(line, j)
      /\ Oversized(line) => (line \in Class(j) <=> j = 0)
      /\ Blank(line) /\ ~Oversized(line) => line \notin Class(j)
  BY ClassOfLine
<1>2. Held(t, j) \in Nat /\ bit \in Nat /\ t.controlled \in BOOLEAN
  BY HeldTypes DEF Bit, Fits
<1>3. ASSUME line \in Waiting(C, t.controlled), Queued(t, u, line)
      PROVE  /\ Fits(u, C) /\ SameServer(t, u) /\ u.buffer = t.buffer /\ u.discarding = t.discarding
             /\ Within(Held(u, j), Held(t, j) + bit, Exact(t, C, j))
  <2>1. /\ Fits(u, C) /\ SameServer(t, u) /\ u.buffer = t.buffer /\ u.discarding = t.discarding
        /\ Held(u, j) = Held(t, j) + Bit(line \in Class(j))
    <3> HIDE DEF bit
    <3> QED  BY <1>3, PendingGrows
  <2>2. Held(u, j) = Held(t, j) + bit
    BY <2>1
  <2> HIDE DEF bit
  <2> QED  BY <1>2, <2>1, <2>2 DEF Within
<1>4. CASE Oversized(line) /\ t.controlled
  <2>1. Said(t, u, TooLarge)
    BY <1>4 DEF TakeLine, Said
  <2>2. TooLarge \in Outs /\ TooLarge.id = 0
    BY DEF TooLarge, Outs
  <2>3. TooLarge \in AnswersOf(j) <=> line \in Class(j)
    BY <1>1, <1>4, <2>2 DEF AnswersOf
  <2>4. /\ Fits(u, C) /\ SameServer(t, u) /\ u.buffer = t.buffer /\ u.discarding = t.discarding
        /\ Held(u, j) = Held(t, j) + Bit(TooLarge \in AnswersOf(j))
    <3>1. Fits(t, C)
      OBVIOUS
    <3> QED  BY ONLY <2>1, <2>2, <3>1, OutGrows
  <2>5. Bit(TooLarge \in AnswersOf(j)) = bit
    BY <2>3 DEF Bit
  <2>6. Within(Held(u, j), Held(t, j) + bit, Exact(t, C, j))
    <3> HIDE DEF bit
    <3> QED  BY <1>2, <2>4, <2>5 DEF Within
  <2> QED  BY <2>4, <2>6
<1>5. CASE Oversized(line) /\ ~t.controlled
  <2>1. Queued(t, u, line)
    BY <1>5 DEF TakeLine, Queued
  <2>2. line \in Waiting(C, t.controlled)
    BY <1>5 DEF Waiting
  <2> QED  BY <1>3, <2>1, <2>2
<1>6. CASE ~Oversized(line) /\ Blank(line)
  <2>1. u = t
    BY <1>6 DEF TakeLine
  <2>2. bit = 0
    BY <1>1, <1>6 DEF Bit
  <2> QED  BY <1>2, <2>1, <2>2 DEF Within, SameServer
<1>7. CASE ~Oversized(line) /\ ~Blank(line) /\ t.controlled /\ Cancels(line)
  <2> DEFINE id == Envelope(line).id
  <2>1. Envelope(line) \in Symbols(C) /\ Envelope(line).kind = "cancel"
    BY <1>7, EnvelopeIsRead DEF Cancels
  <2>2. id \in C
    BY <2>1, SymbolTypes
  <2>3. line \notin Class(j)
    BY <1>1, <1>7, <2>1 DEF IsCall, CallOf
  <2>4. u = [t EXCEPT !.pending = WithoutCalls(@, id),
                      !.live = {[q EXCEPT !.aborted = @ \/ CallOf(q.line, id)] : q \in @}]
    BY <1>7 DEF TakeLine, Accept
  <2> HIDE DEF id
  <2>5. /\ Fits(u, C) /\ SameServer(t, u) /\ u.buffer = t.buffer /\ u.discarding = t.discarding
        /\ Within(Held(u, j), Held(t, j), Exact(t, C, j))
    BY <1>7, <2>2, <2>4, CancelStep
  <2>6. Held(t, j) + bit = Held(t, j)
    BY <1>2, <2>3 DEF Bit
  <2> QED  BY <2>5, <2>6
<1>8. CASE ~Oversized(line) /\ ~Blank(line) /\ ~(t.controlled /\ Cancels(line))
  <2>1. Queued(t, u, line)
    BY <1>8 DEF TakeLine, Accept, Queued
  <2>2. line \in Waiting(C, t.controlled)
    BY <1>8 DEF Waiting
  <2> QED  BY <1>3, <2>1, <2>2
<1> QED  BY <1>4, <1>5, <1>6, <1>7, <1>8

\* The buffer alone changes.
Rebuffered(t, u, b, d) == u = [t EXCEPT !.buffer = b, !.discarding = d]

LEMMA BufferSet ==
    ASSUME NEW C, NEW t, Fits(t, C), NEW b \in Seq(Symbols(C)), NEW d \in BOOLEAN, d => b = <<>>,
           NEW u, Rebuffered(t, u, b, d), NEW j
    PROVE  /\ Fits(u, C) /\ SameServer(t, u) /\ u.buffer = b /\ u.discarding = d
           /\ Held(u, j) = Held(t, j)
<1>1. /\ u.controlled = t.controlled /\ u.buffer = b /\ u.discarding = d
      /\ u.pending = t.pending /\ u.live = t.live /\ u.next = t.next /\ u.out = t.out
      /\ u.ended = t.ended /\ u.settled = t.settled
  BY DEF Fits, Rebuffered
<1>2. u \in [controlled : BOOLEAN, buffer : Seq(Symbols(C)), discarding : BOOLEAN,
             pending : Seq(Waiting(C, u.controlled)), live : SUBSET Flight(C, u.controlled),
             next : Nat, out : Seq(Outs), ended : BOOLEAN, settled : BOOLEAN]
  BY <1>1 DEF Fits, Rebuffered
<1>3. Fits(u, C)
  BY <1>1, <1>2 DEF Fits, Capacity
<1>4. Awaited(u, j) = Awaited(t, j)
  BY <1>1 DEF Awaited
<1> QED  BY <1>1, <1>3, <1>4 DEF SameServer, Held

LEMMA KeptTypes ==
    ASSUME NEW C, NEW t, Fits(t, C), NEW rest \in Seq(Symbols(C)), NEW j
    PROVE  /\ Kept(t, rest) \in Seq(Symbols(C)) /\ t.buffer \o Kept(t, rest) \in Seq(Symbols(C))
           /\ Unread(t, rest, j) \in Nat /\ Owed(t, rest, j) \in Nat
<1>1. HasLine(rest) => RestOf(rest) \in Seq(Symbols(C))
  BY FirstLine DEF Framed
<1>2. <<>> \in Seq(Symbols(C))
  BY EmptySeq
<1>3. Kept(t, rest) \in Seq(Symbols(C)) /\ t.buffer \in Seq(Symbols(C))
  BY <1>1, <1>2 DEF Kept, Fits
<1>4. t.buffer \o Kept(t, rest) \in Seq(Symbols(C))
  BY <1>3, ConcatProperties
<1>5. Unread(t, rest, j) \in Nat
  BY <1>4, LinesFinite DEF Unread
<1> QED  BY <1>3, <1>4, <1>5, HeldTypes DEF Owed

\* A step of the server over what it has read: nothing more is owed, and no less
\* unless it was cancelled.
Carries(t, u, C, rest) ==
    /\ Fits(u, C) /\ SameServer(t, u)
    /\ \A j \in 0 .. 2 : Within(Owed(u, rest, j), Owed(t, rest, j), Exact(t, C, j))

LEMMA CarriesSame ==
    ASSUME NEW C, NEW t, Fits(t, C), NEW rest \in Seq(Symbols(C))
    PROVE  Carries(t, t, C, rest)
BY KeptTypes DEF Carries, SameServer, Within

LEMMA CarriesOn ==
    ASSUME NEW C, NEW t, NEW u, NEW v, NEW rest, Carries(t, u, C, rest), Carries(u, v, C, rest)
    PROVE  Carries(t, v, C, rest)
<1>1. SameServer(t, v) /\ \A j \in 0 .. 2 : Exact(t, C, j) <=> Exact(u, C, j)
  BY DEF Carries, SameServer, Exact
<1>2. ASSUME NEW j \in 0 .. 2 PROVE Within(Owed(v, rest, j), Owed(t, rest, j), Exact(t, C, j))
  BY <1>1 DEF Carries, Within
<1> QED  BY <1>1, <1>2 DEF Carries

LEMMA NoLineInNothing == ~HasLine(<<>>)
BY EmptySeq DEF HasLine

LEMMA TakeFirstLineStep ==
    ASSUME NEW C, NEW t, Fits(t, C), NEW rest \in Seq(Symbols(C))
    PROVE  Carries(t, TakeFirstLine(t), C, rest)
<1>1. CASE ~HasLine(t.buffer) \/ ~MayRead(t)
  BY <1>1, CarriesSame DEF TakeFirstLine
<1>2. CASE HasLine(t.buffer) /\ MayRead(t)
  <2> DEFINE b == t.buffer
             line == LineOf(b)
             v == [t EXCEPT !.buffer = RestOf(b), !.discarding = FALSE]
             u == TakeLine(v, line)
  <2>1. ~t.discarding /\ t.discarding \in BOOLEAN /\ b \in Seq(Symbols(C))
    BY <1>2, NoLineInNothing DEF Fits
  <2>2. v = [t EXCEPT !.buffer = RestOf(@)]
    BY <2>1 DEF Fits
  <2>3. TakeFirstLine(t) = u
    <3> HIDE DEF v
    <3> QED  BY <1>2, <2>2 DEF TakeFirstLine
  <2>4. line \in Seq(Symbols(C)) /\ RestOf(b) \in Seq(Symbols(C))
    BY <1>2, <2>1, FirstLine DEF Framed
  <2>5. v = [t EXCEPT !.buffer = RestOf(b), !.discarding = FALSE]
    OBVIOUS
  <2>6. /\ Fits(v, C) /\ SameServer(t, v) /\ v.buffer = RestOf(b) /\ v.discarding = FALSE
        /\ \A j : Held(v, j) = Held(t, j)
    <3> DEFINE r == RestOf(b)
               d == FALSE
    <3>1. r \in Seq(Symbols(C)) /\ d \in BOOLEAN /\ (d => r = <<>>) /\ Rebuffered(t, v, r, d)
      BY <2>4, <2>5 DEF Rebuffered
    <3> HIDE DEF v, r, d, b
    <3>2. ASSUME NEW j
          PROVE  Fits(v, C) /\ SameServer(t, v) /\ v.buffer = r /\ v.discarding = d /\ Held(v, j) = Held(t, j)
      BY <3>1, BufferSet
    <3> QED  BY <3>2 DEF r, d
  <2> HIDE DEF v
  <2>7. u = TakeLine(v, line)
    OBVIOUS
  <2> HIDE DEF u, line
  <2>8. ASSUME NEW j \in 0 .. 2
        PROVE  /\ Fits(u, C) /\ SameServer(t, u)
               /\ Within(Owed(u, rest, j), Owed(t, rest, j), Exact(t, C, j))
    <3> DEFINE bit == Bit(line \in Class(j))
    <3>1. /\ Fits(u, C) /\ SameServer(v, u) /\ u.buffer = v.buffer /\ u.discarding = v.discarding
          /\ Within(Held(u, j), Held(v, j) + bit, Exact(v, C, j))
      <4>1. Fits(v, C) /\ line \in Seq(Symbols(C)) /\ j \in 0 .. 2
        BY <2>4, <2>6
      <4> QED  BY ONLY <2>7, <4>1, TakeLineStep
    <3>2. Kept(t, rest) = rest /\ Kept(u, rest) = rest
      BY <2>1, <2>6, <3>1 DEF Kept
    <3>3. HasLine(b \o rest) /\ LineOf(b \o rest) = line /\ RestOf(b \o rest) = RestOf(b) \o rest
      BY <1>2, <2>1, PrefixLine DEF line
    <3>4. b \o rest \in Seq(Symbols(C))
      BY <2>1, ConcatProperties
    <3>5. Unread(t, rest, j) = bit + Unread(u, rest, j)
      <4>1. Lines(b \o rest, Class(j)) = Bit(LineOf(b \o rest) \in Class(j)) + Lines(RestOf(b \o rest), Class(j))
        BY <3>3, <3>4, NextLine
      <4>2. Unread(u, rest, j) = Lines(RestOf(b) \o rest, Class(j))
        BY <2>6, <3>1, <3>2 DEF Unread
      <4> QED  BY <3>2, <3>3, <4>1, <4>2 DEF Unread
    <3>6. SameServer(t, u) /\ Exact(v, C, j) = Exact(t, C, j) /\ Held(v, j) = Held(t, j)
      BY <2>6, <3>1 DEF SameServer, Exact
    <3>7. /\ Held(t, j) \in Nat /\ Held(u, j) \in Nat /\ bit \in Nat
          /\ Unread(u, rest, j) \in Nat /\ Owed(u, rest, j) \in Nat /\ Owed(t, rest, j) \in Nat
      BY <3>1, HeldTypes, KeptTypes DEF Bit
    <3> HIDE DEF bit
    <3> QED  BY <3>1, <3>5, <3>6, <3>7 DEF Within, Owed
  <2>9. Carries(t, u, C, rest)
    BY <2>8 DEF Carries
  <2> QED  BY <2>3, <2>9 DEF u, line
<1> QED  BY <1>1, <1>2

\* The turns of the loop.
Turns(t, n, f) ==
    f = [k \in 0 .. n |-> IF k = 0 THEN {t} ELSE {TakeFirstLine(u) : u \in f[k - 1]}]

LEMMA TurnsExist ==
    ASSUME NEW t, NEW n \in Nat
    PROVE  \E f : Turns(t, n, f)
<1> DEFINE G == {m \in Nat : \E f : Turns(t, m, f)}
<1>1. 0 \in G
  <2> DEFINE f == [k \in 0 .. 0 |-> {t}]
  <2>1. \A k \in 0 .. 0 : k = 0
    OBVIOUS
  <2>2. Turns(t, 0, f)
    BY <2>1 DEF Turns
  <2> QED  BY <2>2
<1>2. ASSUME NEW m \in Nat, m \in G PROVE m + 1 \in G
  <2>1. PICK f : Turns(t, m, f)
    BY <1>2
  <2> DEFINE last == {TakeFirstLine(u) : u \in f[m]}
             g == [k \in 0 .. (m + 1) |-> IF k = m + 1 THEN last ELSE f[k]]
             h == [k \in 0 .. (m + 1) |-> IF k = 0 THEN {t} ELSE {TakeFirstLine(u) : u \in g[k - 1]}]
  <2>2. ASSUME NEW k \in 0 .. (m + 1) PROVE g[k] = h[k]
    <3>1. CASE k = m + 1
      <4>1. k # 0 /\ k - 1 = m /\ m \in 0 .. (m + 1) /\ m # m + 1
        BY <3>1
      <4>2. g[m] = f[m] /\ g[k] = last
        BY <3>1, <4>1
      <4> HIDE DEF g
      <4> QED  BY <3>1, <4>1, <4>2
    <3>2. CASE k = 0
      <4>1. f[0] = {t} /\ k # m + 1
        BY <2>1, <3>2 DEF Turns
      <4> QED  BY <3>2, <4>1
    <3>3. CASE k # m + 1 /\ k # 0
      <4>1. k \in 0 .. m /\ k - 1 \in 0 .. (m + 1) /\ k - 1 # m + 1
        BY <3>3
      <4>2. g[k] = f[k] /\ g[k - 1] = f[k - 1]
        BY <3>3, <4>1
      <4>3. f[k] = {TakeFirstLine(u) : u \in f[k - 1]}
        BY <2>1, <3>3, <4>1 DEF Turns
      <4> HIDE DEF g
      <4> QED  BY <3>3, <4>2, <4>3
    <3> QED  BY <3>1, <3>2, <3>3
  <2> HIDE DEF last
  <2>3. g = h
    BY <2>2
  <2>4. Turns(t, m + 1, g)
    BY <2>3 DEF Turns
  <2> QED  BY <2>4
<1> HIDE DEF G
<1>3. G = Nat
  <2>1. G \in SUBSET Nat
    BY DEF G
  <2> QED  BY <1>1, <1>2, <2>1, InductionOnNat
<1> QED  BY <1>3 DEF G

LEMMA TakeLinesStep ==
    ASSUME NEW C, NEW t, Fits(t, C), NEW rest \in Seq(Symbols(C))
    PROVE  Carries(t, TakeLines(t), C, rest)
<1> DEFINE L == Len(t.buffer)
           f == CHOOSE after : Turns(t, L, after)
           Good(k) == f[k] # {} /\ \A u \in f[k] : Carries(t, u, C, rest)
           G == {k \in Nat : k <= L => Good(k)}
<1>1. L \in Nat
  BY LenProperties DEF Fits
<1>2. Turns(t, L, f)
  BY <1>1, TurnsExist
<1>3. TakeLines(t) = CHOOSE u \in f[L] : TRUE
  BY DEF TakeLines, Turns
<1> HIDE DEF f
<1>4. 0 \in G
  <2>1. f[0] = {t}
    BY <1>1, <1>2 DEF Turns
  <2> QED  BY <2>1, CarriesSame
<1>5. ASSUME NEW k \in Nat, k \in G PROVE k + 1 \in G
  <2> SUFFICES ASSUME k + 1 <= L PROVE Good(k + 1)
    OBVIOUS
  <2> DEFINE m == k + 1
  <2>1. Good(k) /\ m \in 0 .. L /\ m # 0 /\ m - 1 = k
    BY <1>1, <1>5
  <2> HIDE DEF m, L
  <2>2. f[m] = {TakeFirstLine(u) : u \in f[m - 1]}
    BY <1>2, <2>1 DEF Turns
  <2>3. ASSUME NEW u \in f[k] PROVE Carries(t, TakeFirstLine(u), C, rest)
    <3>1. Carries(t, u, C, rest)
      BY <2>1
    <3>2. Carries(u, TakeFirstLine(u), C, rest)
      BY <3>1, TakeFirstLineStep DEF Carries
    <3> QED  BY <3>1, <3>2, CarriesOn
  <2>4. Good(m)
    BY <2>1, <2>2, <2>3
  <2> QED  BY <2>4 DEF m
<1>6. G = Nat
  <2>1. G \in SUBSET Nat
    OBVIOUS
  <2> HIDE DEF G
  <2> QED  BY <1>4, <1>5, <2>1, InductionOnNat
<1>7. Good(L)
  <2>1. L \in G
    BY <1>1, <1>6
  <2> QED  BY <1>1, <2>1
<1> QED  BY <1>3, <1>7

\* What is left of the input when it has ended is its last line.
LEMMA TakeTrailingStep ==
    ASSUME NEW C, NEW t, Fits(t, C)
    PROVE  Carries(t, TakeTrailing(t), C, <<>>)
<1> DEFINE b == t.buffer
           v == [t EXCEPT !.buffer = <<>>, !.discarding = FALSE]
<1>1. <<>> \in Seq(Symbols(C)) /\ b \in Seq(Symbols(C)) /\ t.discarding \in BOOLEAN /\ b \o <<>> = b
  BY EmptySeq, ConcatEmptySeq DEF Fits
<1>2. CASE HasLine(b) \/ ~MayRead(t)
  BY <1>1, <1>2, CarriesSame DEF TakeTrailing
<1>3. CASE ~(HasLine(b) \/ ~MayRead(t))
  <2>1. Rebuffered(t, v, <<>>, FALSE)
    BY DEF Rebuffered
  <2>2. TakeTrailing(t) = IF t.discarding THEN v ELSE TakeLine(v, b)
    BY <1>3 DEF TakeTrailing
  <2> HIDE DEF v
  <2>3. /\ Fits(v, C) /\ SameServer(t, v) /\ v.buffer = <<>> /\ v.discarding = FALSE
        /\ \A j : Held(v, j) = Held(t, j)
    <3> DEFINE d == FALSE
               r == <<>>
    <3>1. r \in Seq(Symbols(C)) /\ d \in BOOLEAN /\ (d => r = <<>>) /\ Rebuffered(t, v, r, d)
      BY <1>1, <2>1
    <3> HIDE DEF r, d
    <3>2. ASSUME NEW j
          PROVE  Fits(v, C) /\ SameServer(t, v) /\ v.buffer = r /\ v.discarding = d /\ Held(v, j) = Held(t, j)
      BY <3>1, BufferSet
    <3> QED  BY <3>2 DEF r, d
  <2>4. \A j \in 0 .. 2 : Lines(<<>>, Class(j)) = 0
    BY <1>1, NoLineInNothing, EmptyAsksNothing, LastLine DEF Bit
  <2>5. Kept(v, <<>>) = <<>> /\ Kept(t, <<>>) = <<>> /\ <<>> \o <<>> = <<>>
    BY <1>1, NoLineInNothing, ConcatEmptySeq DEF Kept
  <2>6. CASE t.discarding
    <3>1. b = <<>> /\ TakeTrailing(t) = v
      BY <2>2, <2>6 DEF Fits
    <3>2. ASSUME NEW j \in 0 .. 2 PROVE Within(Owed(v, <<>>, j), Owed(t, <<>>, j), Exact(t, C, j))
      <4>1. Owed(v, <<>>, j) = Owed(t, <<>>, j)
        BY <2>3, <2>5, <3>1 DEF Owed, Unread
      <4>2. Owed(t, <<>>, j) \in Nat
        BY <1>1, KeptTypes
      <4> QED  BY <4>1, <4>2 DEF Within
    <3> QED  BY <2>3, <3>1, <3>2 DEF Carries
  <2>7. CASE ~t.discarding
    <3> DEFINE u == TakeLine(v, b)
    <3>1. TakeTrailing(t) = u
      BY <2>2, <2>7
    <3>2. u = TakeLine(v, b)
      OBVIOUS
    <3> HIDE DEF u
    <3>3. ASSUME NEW j \in 0 .. 2
          PROVE  /\ Fits(u, C) /\ SameServer(t, u)
                 /\ Within(Owed(u, <<>>, j), Owed(t, <<>>, j), Exact(t, C, j))
      <4> DEFINE bit == Bit(b \in Class(j))
      <4>1. /\ Fits(u, C) /\ SameServer(v, u) /\ u.buffer = v.buffer /\ u.discarding = v.discarding
            /\ Within(Held(u, j), Held(v, j) + bit, Exact(v, C, j))
        BY <1>1, <2>3, <3>2, TakeLineStep
      <4>2. Unread(u, <<>>, j) = 0
        BY <2>3, <2>4, <2>5, <4>1, NoLineInNothing DEF Unread, Kept
      <4>3. Unread(t, <<>>, j) = bit
        BY <1>1, <1>3, <2>5, EmptyAsksNothing, LastLine DEF Unread
      <4>4. SameServer(t, u) /\ Exact(v, C, j) = Exact(t, C, j) /\ Held(v, j) = Held(t, j)
        BY <2>3, <4>1 DEF SameServer, Exact
      <4>5. Held(t, j) \in Nat /\ Held(u, j) \in Nat /\ bit \in Nat
        BY <4>1, HeldTypes DEF Bit
      <4> HIDE DEF bit
      <4> QED  BY <4>1, <4>2, <4>3, <4>4, <4>5 DEF Within, Owed
    <3> QED  BY <3>1, <3>3 DEF Carries
  <2> QED  BY <2>6, <2>7
<1> QED  BY <1>2, <1>3

\* A frame that is too large already, and what is not yet dropped of it.
LEMMA DropOversizedStep ==
    ASSUME NEW C, NEW t, Fits(t, C), NEW rest \in Seq(Symbols(C))
    PROVE  Carries(t, DropOversized(t), C, rest)
<1> DEFINE b == t.buffer
           v == [t EXCEPT !.buffer = <<>>, !.discarding = TRUE]
<1>1. <<>> \in Seq(Symbols(C)) /\ b \in Seq(Symbols(C)) /\ t.discarding \in BOOLEAN /\ Len(<<>>) = 0
  BY EmptySeq DEF Fits
<1>2. CASE HasLine(b) \/ Len(b) <= RequestLimit
  BY <1>2, CarriesSame DEF DropOversized
<1>3. CASE ~(HasLine(b) \/ Len(b) <= RequestLimit)
  <2>1. RequestLimit \in Nat /\ Len(b) \in Nat /\ Oversized(b)
    BY <1>1, <1>3, StdioAssumption, LenProperties DEF Oversized
  <2>2. ~t.discarding
    BY <1>1, <2>1 DEF Fits, Oversized
  <2>3. Rebuffered(t, v, <<>>, TRUE)
    BY DEF Rebuffered
  <2> DEFINE u == TakeLine(v, b)
  <2>4. DropOversized(t) = u
    BY <1>3 DEF DropOversized
  <2> HIDE DEF v
  <2>5. /\ Fits(v, C) /\ SameServer(t, v) /\ v.buffer = <<>> /\ v.discarding = TRUE
        /\ \A j : Held(v, j) = Held(t, j)
    <3> DEFINE d == TRUE
               r == <<>>
    <3>1. r \in Seq(Symbols(C)) /\ d \in BOOLEAN /\ (d => r = <<>>) /\ Rebuffered(t, v, r, d)
      BY <1>1, <2>3
    <3> HIDE DEF r, d
    <3>2. ASSUME NEW j
          PROVE  Fits(v, C) /\ SameServer(t, v) /\ v.buffer = r /\ v.discarding = d /\ Held(v, j) = Held(t, j)
      BY <3>1, BufferSet
    <3> QED  BY <3>2 DEF r, d
  <2>6. u = TakeLine(v, b)
    OBVIOUS
  <2> HIDE DEF u
  <2>7. ASSUME NEW j \in 0 .. 2
        PROVE  /\ Fits(u, C) /\ SameServer(t, u)
               /\ Within(Owed(u, rest, j), Owed(t, rest, j), Exact(t, C, j))
    <3> DEFINE bit == Bit(b \in Class(j))
    <3>1. /\ Fits(u, C) /\ SameServer(v, u) /\ u.buffer = v.buffer /\ u.discarding = v.discarding
          /\ Within(Held(u, j), Held(v, j) + bit, Exact(v, C, j))
      BY <1>1, <2>5, <2>6, TakeLineStep
    <3>2. Kept(t, rest) = rest /\ u.buffer = <<>> /\ u.discarding
      BY <2>2, <2>5, <3>1 DEF Kept
    <3>3. Unread(t, rest, j) = bit + Unread(u, rest, j)
      <4>1. CASE HasLine(rest)
        <5>1. HasLine(b \o rest) /\ LineOf(b \o rest) = b \o LineOf(rest) /\ RestOf(b \o rest) = RestOf(rest)
          <6>1. ~HasLine(b)
            BY <1>3
          <6> HIDE DEF b
          <6> QED  BY <1>1, <4>1, <6>1, SkipLine
        <5>2. b \o rest \in Seq(Symbols(C)) /\ LineOf(rest) \in Seq(Symbols(C)) /\ RestOf(rest) \in Seq(Symbols(C))
          BY <1>1, <4>1, ConcatProperties, FirstLine DEF Framed
        <5>3. Lines(b \o rest, Class(j)) = Bit(b \o LineOf(rest) \in Class(j)) + Lines(RestOf(rest), Class(j))
          BY <5>1, <5>2, NextLine
        <5>4. b \o LineOf(rest) \in Class(j) <=> b \in Class(j)
          <6>1. b \o LineOf(rest) \in Seq(Symbols(C)) /\ Oversized(b \o LineOf(rest))
            <7>1. Len(LineOf(rest)) \in Nat
              BY <5>2, LenProperties
            <7>2. b \o LineOf(rest) \in Seq(Symbols(C)) /\ Len(b \o LineOf(rest)) = Len(b) + Len(LineOf(rest))
              BY <1>1, <5>2, ConcatProperties
            <7> QED  BY <2>1, <7>1, <7>2 DEF Oversized
          <6> QED  BY <1>1, <2>1, <6>1, ClassOfLine
        <5>5. Kept(u, rest) = RestOf(rest) /\ u.buffer \o RestOf(rest) = RestOf(rest)
          BY <3>2, <4>1, <5>2, ConcatEmptySeq DEF Kept
        <5>6. Unread(u, rest, j) = Lines(RestOf(rest), Class(j))
          BY <5>5 DEF Unread
        <5>7. Unread(t, rest, j) = Lines(b \o rest, Class(j))
          BY <3>2 DEF Unread
        <5>8. Bit(b \o LineOf(rest) \in Class(j)) = bit
          BY <5>4 DEF Bit
        <5> QED  BY <5>3, <5>6, <5>7, <5>8
      <4>2. CASE ~HasLine(rest)
        <5>1. ~HasLine(b \o rest)
          BY <1>1, <1>3, <4>2, SkipLine
        <5>2. b \o rest \in Seq(Symbols(C)) /\ Len(b \o rest) = Len(b) + Len(rest) /\ Len(rest) \in Nat
          BY <1>1, ConcatProperties, LenProperties
        <5>3. Oversized(b \o rest)
          BY <2>1, <5>2 DEF Oversized
        <5>4. Lines(b \o rest, Class(j)) = Bit(b \o rest \in Class(j))
          BY <5>1, <5>2, EmptyAsksNothing, LastLine
        <5>5. b \o rest \in Class(j) <=> b \in Class(j)
          BY <1>1, <2>1, <5>2, <5>3, ClassOfLine
        <5>6. Kept(u, rest) = <<>> /\ u.buffer \o <<>> = <<>>
          BY <1>1, <3>2, <4>2, ConcatEmptySeq DEF Kept
        <5>7. Unread(u, rest, j) = 0
          <6>1. <<>> \in Seq(Symbols(C)) /\ <<>> \notin Class(j)
            BY EmptySeq, EmptyAsksNothing
          <6>2. Lines(<<>>, Class(j)) = Bit(<<>> \in Class(j))
            BY ONLY <6>1, NoLineInNothing, LastLine
          <6> QED  BY <5>6, <6>1, <6>2 DEF Unread, Bit
        <5>8. Unread(t, rest, j) = bit
          BY <3>2, <5>4, <5>5 DEF Unread, Bit
        <5>9. bit \in Nat
          BY DEF Bit
        <5> HIDE DEF bit
        <5> QED  BY <5>7, <5>8, <5>9
      <4> QED  BY <4>1, <4>2
    <3>4. SameServer(t, u) /\ Exact(v, C, j) = Exact(t, C, j) /\ Held(v, j) = Held(t, j)
      BY <2>5, <3>1 DEF SameServer, Exact
    <3>5. /\ Held(t, j) \in Nat /\ Held(u, j) \in Nat /\ bit \in Nat /\ Unread(u, rest, j) \in Nat
      BY <3>1, HeldTypes, KeptTypes DEF Bit
    <3> HIDE DEF bit
    <3> QED  BY <3>1, <3>3, <3>4, <3>5 DEF Within, Owed
  <2> QED  BY <2>4, <2>7 DEF Carries
<1> QED  BY <1>2, <1>3

-----------------------------------------------------------------------------
(* Requests start and end.                                                 *)

LEMMA LesserOf ==
    ASSUME NEW a \in Int, NEW b \in Int
    PROVE  Min({a, b}) = IF a <= b THEN a ELSE b
<1> DEFINE m == IF a <= b THEN a ELSE b
<1>1. m \in {a, b} /\ \A y \in {a, b} : m <= y
  OBVIOUS
<1>2. ASSUME NEW x \in {a, b}, \A y \in {a, b} : x <= y PROVE x = m
  BY <1>2
<1> QED  BY <1>1, <1>2 DEF Min

\* The requests that are started for the lines in a set of places of the queue.
Starting(t, k) == [n |-> t.next + k - 1, line |-> t.pending[k], aborted |-> FALSE]
Started(t, K) == {Starting(t, k) : k \in K}

LEMMA StartedCount ==
    ASSUME NEW t, t.next \in Nat, NEW K \in SUBSET Nat, IsFiniteSet(K)
    PROVE  IsFiniteSet(Started(t, K)) /\ Cardinality(Started(t, K)) = Cardinality(K)
<1> DEFINE g == [k \in K |-> Starting(t, k)]
<1>1. ASSUME NEW k \in K, NEW l \in K, Starting(t, k) = Starting(t, l) PROVE k = l
  <2>1. Starting(t, k).n = t.next + k - 1 /\ Starting(t, l).n = t.next + l - 1
    BY DEF Starting
  <2>2. t.next + k - 1 = t.next + l - 1 /\ k \in Nat /\ l \in Nat
    BY <1>1, <2>1
  <2> QED  BY <2>2
<1>2. g \in Bijection(K, Started(t, K))
  BY <1>1 DEF Bijection, Injection, Surjection, IsInjective, Started
<1>3. ExistsBijection(K, Started(t, K))
  BY <1>2 DEF ExistsBijection
<1> QED  BY <1>3, FS_Bijection

LEMMA PumpStep ==
    ASSUME NEW C, NEW t, Fits(t, C), NEW rest \in Seq(Symbols(C))
    PROVE  Carries(t, Pump(t), C, rest)
<1> DEFINE p == t.pending
           n == Min({Capacity(t) - Cardinality(t.live), Len(p)})
           W == Waiting(C, t.controlled)
           q == SubSeq(p, n + 1, Len(p))
           new == Started(t, 1 .. n)
           u == [t EXCEPT !.pending = q, !.next = t.next + n, !.live = t.live \cup new]
<1>1. CASE p = <<>>
  BY <1>1, CarriesSame DEF Pump
<1>2. CASE p # <<>>
  <2>1. Pump(t) = u
    <3>1. new = {[n |-> t.next + k - 1, line |-> t.pending[k], aborted |-> FALSE] : k \in 1 .. n}
      BY DEF Started, Starting
    <3> HIDE DEF new
    <3> QED  BY <1>2, <3>1 DEF Pump
  <2>2. /\ Len(p) \in Nat /\ p \in Seq(W) /\ Capacity(t) \in Nat /\ Cardinality(t.live) \in Nat
        /\ Cardinality(t.live) <= Capacity(t) /\ IsFiniteSet(t.live) /\ t.next \in Nat
    BY LenProperties, StdioAssumption, FS_CardinalityType DEF Fits, Capacity
  <2>3. n \in 0 .. Len(p) /\ Cardinality(t.live) + n <= Capacity(t)
    <3>1. Capacity(t) - Cardinality(t.live) \in Int /\ Len(p) \in Int
      BY <2>2
    <3>2. n = IF Capacity(t) - Cardinality(t.live) <= Len(p) THEN Capacity(t) - Cardinality(t.live) ELSE Len(p)
      BY <3>1, LesserOf
    <3> HIDE DEF n
    <3> QED  BY <2>2, <3>2
  <2> HIDE DEF n
  <2>4. q \in Seq(W)
    BY <2>2, <2>3, RestAfter
  <2>5. n \in Nat /\ IsFiniteSet(1 .. n) /\ Cardinality(1 .. n) = n
    <3>1. n \in Nat /\ 1 \in Int /\ n \in Int
      BY <2>2, <2>3
    <3>2. IsFiniteSet(1 .. n) /\ Cardinality(1 .. n) = IF 1 > n THEN 0 ELSE n - 1 + 1
      BY <3>1, FS_Interval
    <3> QED  BY <3>1, <3>2
  <2>6. IsFiniteSet(new) /\ Cardinality(new) = n
    BY <2>2, <2>5, StartedCount
  <2>7. ASSUME NEW k \in 1 .. n
        PROVE  /\ Starting(t, k) \in Flight(C, t.controlled) /\ Starting(t, k).n < t.next + n
               /\ Starting(t, k) \notin t.live
               /\ Starting(t, k).line = p[k] /\ Starting(t, k).aborted = FALSE
    <3>1. k \in 1 .. Len(p)
      BY <2>2, <2>3
    <3>2. p[k] \in W
      BY <2>2, <3>1, ElementOfSeq
    <3>3. Starting(t, k).n = t.next + k - 1 /\ t.next + k - 1 \in Nat /\ t.next + k - 1 < t.next + n
          /\ ~(t.next + k - 1 < t.next)
      BY <2>2, <2>5 DEF Starting
    <3>4. Starting(t, k) \notin t.live
      BY <3>3 DEF Fits
    <3>5. Starting(t, k) \in Flight(C, t.controlled)
      BY <3>2, <3>3 DEF Starting, Flight
    <3> QED  BY <3>3, <3>4, <3>5 DEF Starting
  <2>8. new \subseteq Flight(C, t.controlled) /\ (\A r \in new : r.n < t.next + n) /\ t.live \cap new = {}
    BY <2>7 DEF Started
  <2> HIDE DEF new
  <2>9. IsFiniteSet(t.live \cup new) /\ Cardinality(t.live \cup new) = Cardinality(t.live) + n
    <3>1. /\ IsFiniteSet(t.live \cup new)
          /\ Cardinality(t.live \cup new) = Cardinality(t.live) + Cardinality(new) - Cardinality(t.live \cap new)
      BY <2>2, <2>6, FS_Union
    <3>2. Cardinality(t.live \cap new) = 0
      BY <2>8, FS_EmptySet
    <3> QED  BY <2>2, <2>5, <2>6, <3>1, <3>2
  <2> HIDE DEF q
  <2>10. /\ u.controlled = t.controlled /\ u.buffer = t.buffer /\ u.discarding = t.discarding
         /\ u.pending = q /\ u.live = t.live \cup new /\ u.next = t.next + n /\ u.out = t.out
         /\ u.ended = t.ended /\ u.settled = t.settled
    BY DEF Fits
  <2>11. Fits(u, C)
    <3>1. t.live \cup new \subseteq Flight(C, t.controlled) /\ t.next + n \in Nat
      BY <2>2, <2>5, <2>8 DEF Fits
    <3>2. u \in [controlled : BOOLEAN, buffer : Seq(Symbols(C)), discarding : BOOLEAN,
                 pending : Seq(Waiting(C, t.controlled)), live : SUBSET Flight(C, t.controlled),
                 next : Nat, out : Seq(Outs), ended : BOOLEAN, settled : BOOLEAN]
      BY <2>4, <3>1 DEF Fits
    <3>3. Cardinality(u.live) <= Capacity(u) /\ IsFiniteSet(u.live)
      BY <2>2, <2>3, <2>9, <2>10 DEF Capacity
    <3>4. \A r \in u.live : r.n < u.next
      <4>1. ASSUME NEW r \in t.live PROVE r.n < t.next + n
        <5>1. r.n \in Nat /\ r.n < t.next
          BY DEF Fits, Flight
        <5> QED  BY <2>2, <2>5, <5>1
      <4> QED  BY <2>8, <2>10, <4>1
    <3>5. u.discarding => u.buffer = <<>>
      BY <2>10 DEF Fits
    <3> HIDE DEF u
    <3> QED  BY <2>10, <3>2, <3>3, <3>4, <3>5 DEF Fits
  <2> HIDE DEF u
  <2>12. ASSUME NEW j \in 0 .. 2 PROVE Within(Owed(u, rest, j), Owed(t, rest, j), Exact(t, C, j))
    <3> DEFINE K == {k \in 1 .. n : p[k] \in Class(j)}
               A == Awaited(t, j)
               B == Awaited(u, j)
    <3>1. IsFiniteSet(K) /\ K \in SUBSET Nat
      BY <2>5, FS_Subset
    <3>2. IsFiniteSet(Started(t, K)) /\ Cardinality(Started(t, K)) = Cardinality(K)
      <4> HIDE DEF K
      <4> QED  BY <2>2, <3>1, StartedCount
    <3>3. Cardinality(K) = UpTo(p, n, Class(j)) /\ Cardinality(K) \in Nat
      BY <3>1, FS_CardinalityType DEF UpTo
    <3>4. B = A \cup Started(t, K)
      <4>1. ASSUME NEW k \in 1 .. n PROVE Starting(t, k) \in B <=> k \in K
        BY <2>7, <2>10 DEF Awaited, new, Started
      <4>2. ASSUME NEW r \in t.live PROVE r \in B <=> r \in A
        BY <2>10 DEF Awaited
      <4>3. B \subseteq t.live \cup new /\ A \subseteq t.live
        BY <2>10 DEF Awaited
      <4> HIDE DEF A, B
      <4> QED  BY <4>1, <4>2, <4>3 DEF new, Started
    <3>5. A \cap Started(t, K) = {}
      <4>1. Started(t, K) \subseteq new /\ A \subseteq t.live
        BY DEF new, Started, Awaited
      <4> QED  BY <2>8, <4>1
    <3>6. IsFiniteSet(A) /\ Cardinality(A) \in Nat
      BY HeldTypes
    <3> HIDE DEF A, B
    <3>7. Cardinality(B) = Cardinality(A) + UpTo(p, n, Class(j))
      <4>1. Cardinality(A \cup Started(t, K)) = Cardinality(A) + Cardinality(Started(t, K)) - Cardinality(A \cap Started(t, K))
        BY <3>2, <3>6, FS_Union
      <4>2. Cardinality(A \cap Started(t, K)) = 0
        BY <3>5, FS_EmptySet
      <4> HIDE DEF K
      <4> QED  BY <3>2, <3>3, <3>4, <3>6, <4>1, <4>2
    <3>8. Among(p, Class(j)) = UpTo(p, n, Class(j)) + Among(q, Class(j))
      <4>1. q = SubSeq(p, n + 1, Len(p)) /\ p \in Seq(W) /\ n \in 0 .. Len(p)
        BY <2>2, <2>3 DEF q
      <4>2. Splits(p, n, q, Class(j))
        <5> HIDE DEF p, W
        <5> QED  BY <4>1, AmongSplit
      <4> QED  BY <4>2 DEF Splits
    <3>9. Held(u, j) = Held(t, j)
      <4>1. /\ Among(t.out, AnswersOf(j)) \in Nat /\ Among(t.pending, Class(j)) \in Nat /\ Cardinality(Awaited(t, j)) \in Nat
        BY HeldTypes
      <4>2. Among(q, Class(j)) \in Nat
        BY <2>10, <2>11, HeldTypes
      <4>3. Held(u, j) = Among(t.out, AnswersOf(j)) + Among(q, Class(j)) + Cardinality(B)
        BY <2>10 DEF Held, B
      <4>4. Held(t, j) = Among(t.out, AnswersOf(j)) + Among(p, Class(j)) + Cardinality(A)
        BY DEF Held, A
      <4> QED  BY <3>3, <3>6, <3>7, <3>8, <4>1, <4>2, <4>3, <4>4
    <3>10. Unread(u, rest, j) = Unread(t, rest, j)
      BY <2>10 DEF Unread, Kept
    <3>11. Owed(t, rest, j) \in Nat
      BY KeptTypes
    <3> QED  BY <3>9, <3>10, <3>11 DEF Within, Owed
  <2> QED  BY <2>1, <2>10, <2>11, <2>12 DEF Carries, SameServer
<1> QED  BY <1>1, <1>2

\* The end of a turn: only a transport with nothing left to do settles.
Quiet(t) == t.ended /\ t.buffer = <<>> /\ t.pending = <<>> /\ t.live = {}
Finished(t, u, C, rest) ==
    /\ Fits(u, C) /\ u.controlled = t.controlled /\ u.ended = t.ended
    /\ u.settled = (t.settled \/ Quiet(t))
    /\ u.buffer = t.buffer /\ u.pending = t.pending /\ u.live = t.live
    /\ \A j \in 0 .. 2 : Owed(u, rest, j) = Owed(t, rest, j)

LEMMA FinishStep ==
    ASSUME NEW C, NEW t, Fits(t, C), NEW rest \in Seq(Symbols(C)), NEW u, u = Finish(t)
    PROVE  Finished(t, u, C, rest)
<1> DEFINE d == Quiet(t)
<1>1. d \in BOOLEAN /\ t.settled \in BOOLEAN
  BY DEF Fits, Quiet
<1>2. u = [t EXCEPT !.settled = @ \/ d]
  BY DEF Finish, Quiet
<1> HIDE DEF d
<1>3. /\ u.controlled = t.controlled /\ u.buffer = t.buffer /\ u.discarding = t.discarding
      /\ u.pending = t.pending /\ u.live = t.live /\ u.next = t.next /\ u.out = t.out
      /\ u.ended = t.ended /\ u.settled = (t.settled \/ d)
  BY <1>2 DEF Fits
<1>4. u \in [controlled : BOOLEAN, buffer : Seq(Symbols(C)), discarding : BOOLEAN,
             pending : Seq(Waiting(C, t.controlled)), live : SUBSET Flight(C, t.controlled),
             next : Nat, out : Seq(Outs), ended : BOOLEAN, settled : BOOLEAN]
  BY <1>1, <1>2 DEF Fits
<1>5. Fits(u, C)
  BY <1>3, <1>4 DEF Fits, Capacity
<1>6. ASSUME NEW j \in 0 .. 2 PROVE Owed(u, rest, j) = Owed(t, rest, j)
  <2>1. Awaited(u, j) = Awaited(t, j) /\ Kept(u, rest) = Kept(t, rest)
    BY <1>3 DEF Awaited, Kept
  <2> QED  BY <1>3, <2>1 DEF Owed, Held, Unread
<1> QED  BY <1>3, <1>5, <1>6 DEF d, Finished

\* A request ends: what it answers is what was awaited of it.
LEMMA AnswersAreAwaited ==
    ASSUME NEW C, NEW controlled \in BOOLEAN, NEW line \in Waiting(C, controlled), NEW result \in {"result", "error"}
    PROVE  \/ /\ Answers(line, result) = <<>>
              /\ \A j \in 0 .. 2 : line \notin Class(j)
           \/ \E o \in Outs : /\ Answers(line, result) = <<o>>
                              /\ \A j \in 0 .. 2 : o \in AnswersOf(j) <=> line \in Class(j)
<1>1. line \in Seq(Symbols(C)) /\ (~Oversized(line) => ~Blank(line))
  BY DEF Waiting
<1>2. /\ \A j \in 0 .. 2 : line \in Class(j) <=> IF j = 0 THEN Oversized(line) ELSE IsCall(line, j)
  BY <1>1, ClassOfLine
<1>3. CASE Oversized(line)
  <2>1. Answers(line, result) = <<TooLarge>>
    BY <1>3 DEF Answers
  <2>2. TooLarge \in Outs /\ TooLarge.id = 0
    BY DEF TooLarge, Outs
  <2>3. ASSUME NEW j \in 0 .. 2 PROVE TooLarge \in AnswersOf(j) <=> line \in Class(j)
    BY <1>2, <1>3, <2>2 DEF AnswersOf, IsCall
  <2> QED  BY <2>1, <2>2, <2>3
<1>4. CASE ~Oversized(line)
  <2> DEFINE e == Envelope(line)
  <2>1. e \in Symbols(C) /\ e.id \in 0 .. 2
    BY <1>1, <1>4, EnvelopeIsRead, SymbolTypes
  <2>2. \A j \in 0 .. 2 : line \in Class(j) <=> j # 0 /\ e.kind = "call" /\ e.id = j
    BY <1>1, <1>2, <1>4 DEF IsCall, CallOf
  <2>3. e.kind \in {"call", "cancel", "note", "junk"} \/ e.id = 0
    <3>1. e.kind # "blank"
      BY <1>1, <1>4, EnvelopeIsRead
    <3>2. e \in Piece \cup {NL}
      BY <2>1 DEF Symbols
    <3>3. NL.id = 0 /\ \A x \in Piece : x.kind \in {"call", "cancel", "note", "junk", "blank"}
      BY DEF NL, Piece
    <3> HIDE DEF e
    <3> QED  BY <3>1, <3>2, <3>3
  <2>4. CASE e.kind \in {"note", "cancel"}
    <3>1. Answers(line, result) = <<>>
      BY <1>4, <2>4 DEF Answers
    <3> QED  BY <2>2, <2>4, <3>1
  <2>5. CASE e.kind = "junk"
    <3> DEFINE o == [id |-> 0, answer |-> "invalid"]
    <3>1. Answers(line, result) = <<o>>
      BY <1>4, <2>5 DEF Answers
    <3>2. o \in Outs /\ o.id = 0 /\ o # TooLarge
      BY DEF Outs, TooLarge
    <3> HIDE DEF o
    <3>3. ASSUME NEW j \in 0 .. 2 PROVE o \in AnswersOf(j) <=> line \in Class(j)
      BY <2>2, <2>5, <3>2 DEF AnswersOf
    <3> QED  BY <3>1, <3>2, <3>3
  <2>6. CASE e.kind \notin {"note", "cancel", "junk"}
    <3> DEFINE o == [id |-> e.id, answer |-> result]
    <3>1. Answers(line, result) = <<o>>
      BY <1>4, <2>6 DEF Answers
    <3>2. o \in Outs /\ o.id = e.id /\ o # TooLarge
      BY <2>1 DEF Outs, TooLarge
    <3> HIDE DEF o
    <3>3. ASSUME NEW j \in 0 .. 2 PROVE o \in AnswersOf(j) <=> line \in Class(j)
      BY <2>2, <2>3, <2>6, <3>2 DEF AnswersOf
    <3> QED  BY <3>1, <3>2, <3>3
  <2> QED  BY <2>4, <2>5, <2>6
<1> QED  BY <1>3, <1>4

\* A turn, at whose end the transport may settle.
Moves(t, u, C, rest) ==
    /\ Fits(u, C) /\ u.controlled = t.controlled /\ u.ended = t.ended
    /\ u.settled => t.settled \/ Quiet(u)
    /\ \A j \in 0 .. 2 : Within(Owed(u, rest, j), Owed(t, rest, j), Exact(t, C, j))

LEMMA MovesOn ==
    ASSUME NEW C, NEW t, NEW u, NEW v, NEW rest, Carries(t, u, C, rest), Moves(u, v, C, rest)
    PROVE  Moves(t, v, C, rest)
<1>1. \A j \in 0 .. 2 : Exact(t, C, j) <=> Exact(u, C, j)
  BY DEF Carries, SameServer, Exact
<1>2. ASSUME NEW j \in 0 .. 2 PROVE Within(Owed(v, rest, j), Owed(t, rest, j), Exact(t, C, j))
  BY <1>1 DEF Carries, Moves, Within
<1> QED  BY <1>2 DEF Carries, Moves, SameServer

LEMMA DrainStep ==
    ASSUME NEW C, NEW t, Fits(t, C), NEW rest \in Seq(Symbols(C)), t.ended => rest = <<>>
    PROVE  Moves(t, DrainBuffer(t), C, rest)
<1> DEFINE read == TakeLines(t)
           all == IF t.ended THEN TakeTrailing(read) ELSE read
           pumped == Pump(all)
           u == Finish(pumped)
<1>1. Carries(t, read, C, rest)
  BY TakeLinesStep
<1> HIDE DEF read
<1>2. Carries(t, all, C, rest)
  <2>1. CASE t.ended
    <3>1. Carries(read, TakeTrailing(read), C, rest)
      BY <1>1, <2>1, TakeTrailingStep DEF Carries
    <3> QED  BY <1>1, <2>1, <3>1, CarriesOn
  <2>2. CASE ~t.ended
    BY <1>1, <2>2
  <2> QED  BY <2>1, <2>2
<1> HIDE DEF all
<1>3. Carries(all, pumped, C, rest)
  BY <1>2, PumpStep DEF Carries
<1>4. Carries(t, pumped, C, rest)
  BY <1>2, <1>3, CarriesOn
<1> HIDE DEF pumped
<1>5. Finished(pumped, u, C, rest)
  <2>1. Fits(pumped, C) /\ u = Finish(pumped)
    BY <1>4 DEF Carries
  <2> HIDE DEF u
  <2> QED  BY <2>1, FinishStep
<1> HIDE DEF u
<1>6. Moves(t, u, C, rest)
  <2>1. u.settled => t.settled \/ Quiet(u)
    BY <1>4, <1>5 DEF Carries, SameServer, Quiet, Finished
  <2>2. u.controlled = t.controlled /\ u.ended = t.ended
    BY <1>4, <1>5 DEF Carries, SameServer, Finished
  <2>3. ASSUME NEW j \in 0 .. 2 PROVE Within(Owed(u, rest, j), Owed(t, rest, j), Exact(t, C, j))
    BY <1>4, <1>5 DEF Carries, Finished
  <2> QED  BY <1>5, <2>1, <2>2, <2>3 DEF Moves, Finished
<1>7. DrainBuffer(t) = u
  BY DEF DrainBuffer, u, pumped, all, read
<1> QED  BY <1>6, <1>7

\* A chunk joins the buffer, or what of it is not the rest of a dropped frame.
LEMMA ReceiveStep ==
    ASSUME NEW C, NEW t, Fits(t, C), NEW chunk \in Seq(Symbols(C)), NEW later \in Seq(Symbols(C)),
           ~(t.discarding /\ ~HasLine(chunk)), NEW u, u = Receive(t, chunk), NEW j
    PROVE  /\ Fits(u, C) /\ SameServer(t, u)
           /\ Owed(u, later, j) = Owed(t, chunk \o later, j)
<1> DEFINE b == t.buffer
           c == b \o Kept(t, chunk)
<1>1. b \in Seq(Symbols(C)) /\ t.discarding \in BOOLEAN
  BY DEF Fits
<1>2. c \in Seq(Symbols(C)) /\ Kept(t, chunk) \in Seq(Symbols(C))
  BY KeptTypes
<1>3. Rebuffered(t, u, c, FALSE)
  BY DEF Receive, Rebuffered, Fits
<1> HIDE DEF c
<1>4. Fits(u, C) /\ SameServer(t, u) /\ u.buffer = c /\ u.discarding = FALSE /\ Held(u, j) = Held(t, j)
  <2> DEFINE d == FALSE
  <2>1. d \in BOOLEAN /\ (d => c = <<>>) /\ Rebuffered(t, u, c, d)
    BY <1>3
  <2> HIDE DEF d
  <2>2. Fits(u, C) /\ SameServer(t, u) /\ u.buffer = c /\ u.discarding = d /\ Held(u, j) = Held(t, j)
    BY <1>2, <2>1, BufferSet
  <2> QED  BY <2>2 DEF d
<1>5. c \o later = b \o Kept(t, chunk \o later)
  <2>1. CASE ~t.discarding
    <3>1. c = b \o chunk /\ Kept(t, chunk \o later) = chunk \o later
      BY <2>1 DEF c, Kept
    <3> HIDE DEF b
    <3> QED  BY <1>1, <3>1, ConcatAssociative
  <2>2. CASE t.discarding
    <3>1. HasLine(chunk) /\ Kept(t, chunk) = RestOf(chunk)
      BY <2>2 DEF Kept
    <3>2. HasLine(chunk \o later) /\ RestOf(chunk \o later) = RestOf(chunk) \o later
      BY <3>1, PrefixLine
    <3>3. Kept(t, chunk \o later) = RestOf(chunk) \o later
      BY <2>2, <3>2 DEF Kept
    <3>4. c = b \o RestOf(chunk) /\ RestOf(chunk) \in Seq(Symbols(C))
      BY <1>2, <3>1 DEF c
    <3> HIDE DEF b
    <3> QED  BY <1>1, <3>3, <3>4, ConcatAssociative
  <2> QED  BY <2>1, <2>2
<1>6. Kept(u, later) = later
  BY <1>4 DEF Kept
<1>7. Unread(u, later, j) = Unread(t, chunk \o later, j)
  BY <1>4, <1>5, <1>6 DEF Unread
<1> QED  BY <1>4, <1>7 DEF Owed

LEMMA SkipStep ==
    ASSUME NEW C, NEW t, Fits(t, C), NEW chunk \in Seq(Symbols(C)), NEW later \in Seq(Symbols(C)),
           t.discarding, ~HasLine(chunk), NEW j
    PROVE  Owed(t, later, j) = Owed(t, chunk \o later, j)
<1>1. /\ HasLine(chunk \o later) <=> HasLine(later)
      /\ HasLine(later) => RestOf(chunk \o later) = RestOf(later)
  BY SkipLine
<1>2. Kept(t, chunk \o later) = Kept(t, later)
  BY <1>1 DEF Kept
<1> QED  BY <1>2 DEF Owed, Unread

LEMMA RequestEndStep ==
    ASSUME NEW C, NEW t, Fits(t, C), NEW q \in t.live, NEW result \in {"result", "error"},
           NEW rest \in Seq(Symbols(C)),
           NEW u, u = [t EXCEPT !.live = @ \ {q}, !.out = @ \o (IF q.aborted THEN <<>> ELSE Answers(q.line, result))]
    PROVE  Carries(t, u, C, rest)
<1> DEFINE a == IF q.aborted THEN <<>> ELSE Answers(q.line, result)
           o == t.out \o a
           l == t.live \ {q}
<1>1. /\ t.out \in Seq(Outs) /\ IsFiniteSet(t.live) /\ t.live \subseteq Flight(C, t.controlled) /\ t.controlled \in BOOLEAN
  BY DEF Fits
<1>2. q.line \in Waiting(C, t.controlled) /\ q.aborted \in BOOLEAN
  BY <1>1 DEF Flight
<1>3. \/ o = t.out /\ \A j \in 0 .. 2 : q \notin Awaited(t, j)
      \/ \E x \in Outs : /\ o = Append(t.out, x)
                         /\ \A j \in 0 .. 2 : x \in AnswersOf(j) <=> q \in Awaited(t, j)
  <2>1. CASE q.aborted
    <3>1. o = t.out
      BY <1>1, <2>1, ConcatEmptySeq
    <3> QED  BY <2>1, <3>1 DEF Awaited
  <2>2. CASE ~q.aborted
    <3>1. a = Answers(q.line, result) /\ \A j : q \in Awaited(t, j) <=> q.line \in Class(j)
      BY <2>2 DEF Awaited
    <3> HIDE DEF a
    <3>2. CASE Answers(q.line, result) = <<>> /\ \A j \in 0 .. 2 : q.line \notin Class(j)
      BY <1>1, <3>1, <3>2, ConcatEmptySeq
    <3>3. ASSUME NEW x \in Outs, Answers(q.line, result) = <<x>>,
                 \A j \in 0 .. 2 : x \in AnswersOf(j) <=> q.line \in Class(j)
          PROVE  /\ o = Append(t.out, x)
                 /\ \A j \in 0 .. 2 : x \in AnswersOf(j) <=> q \in Awaited(t, j)
      <4>1. o = t.out \o <<x>>
        BY <3>1, <3>3
      <4>2. t.out \o <<x>> = Append(t.out, x)
        BY <1>1
      <4> QED  BY <3>1, <3>3, <4>1, <4>2
    <3>4. \/ /\ Answers(q.line, result) = <<>>
             /\ \A j \in 0 .. 2 : q.line \notin Class(j)
          \/ \E x \in Outs : /\ Answers(q.line, result) = <<x>>
                             /\ \A j \in 0 .. 2 : x \in AnswersOf(j) <=> q.line \in Class(j)
      BY <1>1, <1>2, AnswersAreAwaited
    <3> HIDE DEF o
    <3> QED  BY <3>2, <3>3, <3>4
  <2> QED  BY <2>1, <2>2
<1>4. u = [t EXCEPT !.live = l, !.out = o]
  OBVIOUS
<1> HIDE DEF o
<1>5. /\ u.controlled = t.controlled /\ u.buffer = t.buffer /\ u.discarding = t.discarding
      /\ u.pending = t.pending /\ u.live = l /\ u.next = t.next /\ u.out = o
      /\ u.ended = t.ended /\ u.settled = t.settled
  BY <1>4 DEF Fits
<1>6. o \in Seq(Outs)
  <2>1. o = t.out \/ \E x \in Outs : o = Append(t.out, x)
    BY <1>3
  <2> QED  BY <1>1, <2>1, AmongAppend
<1>7. IsFiniteSet(l) /\ Cardinality(l) <= Cardinality(t.live)
  BY <1>1, FS_Subset
<1>8. Fits(u, C)
  <2>1. u \in [controlled : BOOLEAN, buffer : Seq(Symbols(C)), discarding : BOOLEAN,
               pending : Seq(Waiting(C, t.controlled)), live : SUBSET Flight(C, t.controlled),
               next : Nat, out : Seq(Outs), ended : BOOLEAN, settled : BOOLEAN]
    BY <1>1, <1>4, <1>6 DEF Fits
  <2>2. Capacity(u) = Capacity(t) /\ Capacity(t) \in Nat /\ Cardinality(l) \in Nat /\ Cardinality(t.live) \in Nat
    BY <1>1, <1>5, <1>7, StdioAssumption, FS_CardinalityType DEF Capacity
  <2>3. Cardinality(u.live) <= Capacity(u) /\ IsFiniteSet(u.live)
    <3>1. Cardinality(t.live) <= Capacity(t)
      BY DEF Fits
    <3> QED  BY <1>5, <1>7, <2>2, <3>1
  <2>4. (\A r \in u.live : r.n < u.next) /\ (u.discarding => u.buffer = <<>>)
    BY <1>5 DEF Fits
  <2> HIDE DEF l
  <2> QED  BY <1>5, <2>1, <2>3, <2>4 DEF Fits
<1>9. ASSUME NEW j \in 0 .. 2 PROVE Within(Owed(u, rest, j), Owed(t, rest, j), Exact(t, C, j))
  <2> DEFINE A == Awaited(t, j)
  <2>1. Awaited(u, j) = A \ {q}
    BY <1>5 DEF Awaited
  <2>2. IsFiniteSet(A) /\ Cardinality(A) \in Nat /\ Among(t.out, AnswersOf(j)) \in Nat /\ Among(t.pending, Class(j)) \in Nat
    BY HeldTypes
  <2> HIDE DEF A
  <2>3. Cardinality(A \ {q}) = IF q \in A THEN Cardinality(A) - 1 ELSE Cardinality(A)
    BY <2>2, FS_RemoveElement
  <2>4. Among(o, AnswersOf(j)) = Among(t.out, AnswersOf(j)) + Bit(q \in A)
    <3>1. CASE o = t.out /\ q \notin A
      BY <2>2, <3>1 DEF Bit
    <3>2. ASSUME NEW x \in Outs, o = Append(t.out, x), x \in AnswersOf(j) <=> q \in A
          PROVE  Among(o, AnswersOf(j)) = Among(t.out, AnswersOf(j)) + Bit(q \in A)
      <4>1. Among(Append(t.out, x), AnswersOf(j)) = Among(t.out, AnswersOf(j)) + Bit(x \in AnswersOf(j))
        BY <1>1, AmongAppend
      <4>2. Bit(x \in AnswersOf(j)) = Bit(q \in A)
        BY <3>2 DEF Bit
      <4> QED  BY <3>2, <4>1, <4>2
    <3> QED  BY <1>3, <3>1, <3>2 DEF A
  <2>5. Held(u, j) = Among(o, AnswersOf(j)) + Among(t.pending, Class(j)) + Cardinality(A \ {q})
    BY <1>5, <2>1 DEF Held
  <2>6. Held(t, j) = Among(t.out, AnswersOf(j)) + Among(t.pending, Class(j)) + Cardinality(A)
    BY DEF Held, A
  <2>7. Held(u, j) = Held(t, j)
    BY <2>2, <2>3, <2>4, <2>5, <2>6 DEF Bit
  <2>8. Unread(u, rest, j) = Unread(t, rest, j)
    BY <1>5 DEF Unread, Kept
  <2>9. Owed(t, rest, j) \in Nat
    BY KeptTypes
  <2> QED  BY <2>7, <2>8, <2>9 DEF Within, Owed
<1> QED  BY <1>5, <1>8, <1>9 DEF Carries, SameServer

-----------------------------------------------------------------------------
(* The invariant of the stdio transport.                                   *)

\* What is answered, on its way to an answer and yet to be read is what was sent.
Cancelable(s) == {i \in 0 .. 2 : \E k \in DOMAIN s : s[k].kind = "cancel" /\ s[k].id = i}
Remainder(s, n) == SubSeq(s, n + 1, Len(s))
Covers(s, n, t) ==
    \A j \in 0 .. 2 : Within(Owed(t, Remainder(s, n), j), Lines(s, Class(j)), Exact(t, Cancelable(s), j))
StdioHolds(s, n, t) ==
    /\ s \in Inputs /\ n \in 0 .. Len(s)
    /\ Fits(t, Cancelable(s)) /\ Covers(s, n, t)
    /\ t.ended => n = Len(s)
    /\ t.settled => Quiet(t)
StdioInv == StdioHolds(sent, arrived, io)

LEMMA InputTypes ==
    ASSUME NEW s \in Inputs
    PROVE  s \in Seq(Symbols(Cancelable(s))) /\ s \in Seq(Piece \cup {NL}) /\ Len(s) \in Nat
<1> DEFINE S == Symbols(Cancelable(s))
<1>1. s \in Seq(Piece \cup {NL})
  BY StdioAssumption
<1>2. DOMAIN s = 1 .. Len(s) /\ Len(s) \in Nat /\ \A i \in 1 .. Len(s) : s[i] \in Piece \cup {NL}
  BY <1>1, LenProperties, ElementOfSeq
<1>3. \A x \in Piece \cup {NL} : x.id \in 0 .. 2
  BY DEF Piece, NL
<1>4. ASSUME NEW i \in 1 .. Len(s) PROVE s[i] \in S
  BY <1>2, <1>3 DEF Symbols, Cancelable
<1> HIDE DEF S
<1>5. SubSeq(s, 1, Len(s)) \in Seq(S)
  <2>1. 1 \in Int /\ Len(s) \in Int
    BY <1>2
  <2> QED  BY <1>4, <2>1, SubSeqProperties
<1>6. SubSeq(s, 1, Len(s)) = s
  BY <1>1, SubSeqFull
<1> QED  BY <1>1, <1>2, <1>5, <1>6 DEF S

LEMMA RemainderTypes ==
    ASSUME NEW s \in Inputs, NEW n \in 0 .. Len(s)
    PROVE  Remainder(s, n) \in Seq(Symbols(Cancelable(s))) /\ (n = Len(s) => Remainder(s, n) = <<>>)
<1>1. s \in Seq(Symbols(Cancelable(s))) /\ Len(s) \in Nat
  BY InputTypes
<1>2. Remainder(s, n) \in Seq(Symbols(Cancelable(s)))
  BY <1>1, RestAfter DEF Remainder
<1>3. ASSUME n = Len(s) PROVE Remainder(s, n) = <<>>
  BY <1>1, <1>3, SubSeqEmpty DEF Remainder
<1> QED  BY <1>2, <1>3

LEMMA StdioStarts == StdioInit => StdioInv
<1> SUFFICES ASSUME StdioInit PROVE StdioHolds(sent, arrived, io)
  BY DEF StdioInv
<1>1. PICK controlled \in BOOLEAN : io = Opened(controlled)
  BY DEF StdioInit
<1> DEFINE s == sent
           t == io
           C == Cancelable(s)
<1>2. s \in Inputs /\ arrived = 0
  BY DEF StdioInit
<1> HIDE DEF s, t
<1>3. t = Opened(controlled)
  BY <1>1 DEF t
<1>4. /\ t.controlled = controlled /\ t.buffer = <<>> /\ t.discarding = FALSE /\ t.pending = <<>>
      /\ t.live = {} /\ t.next = 1 /\ t.out = <<>> /\ t.ended = FALSE /\ t.settled = FALSE
  BY <1>3 DEF Opened
<1>5. s \in Seq(Symbols(C)) /\ Len(s) \in Nat
  BY <1>2, InputTypes
<1>6. Fits(t, C)
  <2>1. /\ <<>> \in Seq(Symbols(C)) /\ <<>> \in Seq(Waiting(C, controlled)) /\ <<>> \in Seq(Outs)
        /\ {} \in SUBSET Flight(C, controlled) /\ 1 \in Nat
    BY EmptySeq
  <2>2. t \in [controlled : BOOLEAN, buffer : Seq(Symbols(C)), discarding : BOOLEAN,
               pending : Seq(Waiting(C, t.controlled)), live : SUBSET Flight(C, t.controlled),
               next : Nat, out : Seq(Outs), ended : BOOLEAN, settled : BOOLEAN]
    BY <1>3, <1>4, <2>1 DEF Opened
  <2>3. IsFiniteSet({}) /\ Cardinality({}) = 0 /\ 0 <= Capacity(t)
    BY StdioAssumption, FS_EmptySet DEF Capacity
  <2> QED  BY <1>4, <2>2, <2>3 DEF Fits
<1>7. Remainder(s, 0) = s
  BY <1>5, SubSeqFull DEF Remainder
<1>8. ASSUME NEW j \in 0 .. 2 PROVE Within(Owed(t, Remainder(s, 0), j), Lines(s, Class(j)), Exact(t, C, j))
  <2>1. Among(t.out, AnswersOf(j)) = 0 /\ Among(t.pending, Class(j)) = 0
    BY <1>4, AmongEmpty
  <2>2. Awaited(t, j) = {}
    BY <1>4 DEF Awaited
  <2>3. Cardinality(Awaited(t, j)) = 0
    BY <2>2, FS_EmptySet
  <2>4. Held(t, j) = 0
    BY <2>1, <2>3 DEF Held
  <2>5. Unread(t, s, j) = Lines(s, Class(j))
    BY <1>4, <1>5, ConcatEmptySeq DEF Unread, Kept
  <2>6. Lines(s, Class(j)) \in Nat
    BY <1>5, LinesFinite
  <2>7. Owed(t, s, j) = Lines(s, Class(j))
    BY <2>4, <2>5, <2>6 DEF Owed
  <2> QED  BY <1>7, <2>6, <2>7 DEF Within
<1>9. StdioHolds(s, 0, t)
  <2>1. 0 \in 0 .. Len(s)
    BY <1>5
  <2>2. Covers(s, 0, t)
    BY <1>8 DEF Covers
  <2> QED  BY <1>2, <1>4, <1>6, <2>1, <2>2 DEF StdioHolds
<1> QED  BY <1>2, <1>9 DEF s, t

\* A turn leaves the account of the input balanced.
LEMMA MovesCover ==
    ASSUME NEW s \in Inputs, NEW n \in 0 .. Len(s), NEW t, NEW u,
           Covers(s, n, t), Moves(t, u, Cancelable(s), Remainder(s, n)), t.ended => n = Len(s), ~t.settled
    PROVE  StdioHolds(s, n, u)
<1>1. Exact(u, Cancelable(s), 0) /\ \A j \in 0 .. 2 : Exact(u, Cancelable(s), j) <=> Exact(t, Cancelable(s), j)
  BY DEF Moves, Exact
<1>2. ASSUME NEW j \in 0 .. 2
      PROVE  Within(Owed(u, Remainder(s, n), j), Lines(s, Class(j)), Exact(u, Cancelable(s), j))
  BY <1>1 DEF Covers, Moves, Within
<1>3. Covers(s, n, u)
  BY <1>2 DEF Covers
<1> QED  BY <1>3 DEF Moves, StdioHolds

\* A transport that settled takes no further step.
LEMMA SettledStops ==
    ASSUME StdioInv, StdioNext
    PROVE  ~io.settled
<1>1. io.settled => arrived = Len(sent) /\ io.ended /\ io.live = {} /\ Len(sent) \in Nat
  BY InputTypes DEF StdioInv, StdioHolds, Quiet
<1>2. CASE Data
  BY <1>1, <1>2 DEF Data
<1>3. CASE End
  BY <1>1, <1>3 DEF End
<1>4. CASE RequestEnds
  BY <1>1, <1>4 DEF RequestEnds
<1> QED  BY <1>2, <1>3, <1>4 DEF StdioNext

LEMMA DataKeeps ==
    ASSUME StdioInv, Data
    PROVE  StdioInv'
<1> DEFINE s == sent
           a == arrived
           t == io
           w == io'
           C == Cancelable(s)
<1>1. PICK n \in (a + 1) .. Len(s) : arrived' = n /\ OnData(SubSeq(s, a + 1, n)) /\ sent' = s
  BY DEF Data
<1> DEFINE chunk == SubSeq(s, a + 1, n)
           later == Remainder(s, n)
<1>2. StdioHolds(s, a, t)
  BY DEF StdioInv
<1>3. \/ t.discarding /\ ~HasLine(chunk) /\ w = t
      \/ /\ ~(t.discarding /\ ~HasLine(chunk))
         /\ w = Pump(DropOversized(DrainBuffer(Receive(t, chunk))))
  BY <1>1 DEF OnData
<1> HIDE DEF s, a, t, w
<1>4. s \in Seq(Symbols(C)) /\ Len(s) \in Nat /\ a \in 0 .. Len(s) /\ s \in Inputs /\ Fits(t, C) /\ Covers(s, a, t)
  BY <1>2, InputTypes DEF StdioHolds
<1>5. n \in 0 .. Len(s) /\ a + 1 \in 1 .. Len(s) + 1 /\ n \in (a + 1) - 1 .. Len(s) /\ Len(s) \in n .. Len(s)
      /\ a # Len(s)
  BY <1>4
<1>6. ~t.ended /\ ~t.settled
  BY <1>2, <1>5 DEF StdioHolds, Quiet
<1>7. chunk \in Seq(Symbols(C)) /\ later \in Seq(Symbols(C)) /\ Remainder(s, a) = chunk \o later
  <2>1. later \in Seq(Symbols(C))
    BY <1>4, <1>5, RemainderTypes
  <2>2. SubSeq(s, a + 1, n) \o SubSeq(s, n + 1, Len(s)) = SubSeq(s, a + 1, Len(s))
    <3> DEFINE m == a + 1
    <3>1. m \in 1 .. Len(s) + 1 /\ n \in m - 1 .. Len(s) /\ Len(s) \in n .. Len(s)
      BY <1>5
    <3> HIDE DEF m
    <3>2. SubSeq(s, m, n) \o SubSeq(s, n + 1, Len(s)) = SubSeq(s, m, Len(s))
      BY <1>4, <3>1, ConcatAdjacentSubSeq
    <3> QED  BY <3>2 DEF m
  <2>3. chunk \in Seq(Symbols(C))
    <3> DEFINE m == a + 1
    <3>1. m \in Int /\ n \in Int /\ \A i \in m .. n : s[i] \in Symbols(C)
      BY <1>4, <1>5, ElementOfSeq
    <3> HIDE DEF m
    <3>2. SubSeq(s, m, n) \in Seq(Symbols(C))
      BY <3>1, SubSeqProperties
    <3> QED  BY <3>2 DEF m
  <2> QED  BY <2>1, <2>2, <2>3 DEF Remainder
<1> HIDE DEF chunk, C
<1>8. CASE t.discarding /\ ~HasLine(chunk) /\ w = t
  <2>1. ASSUME NEW j \in 0 .. 2 PROVE Owed(t, later, j) = Owed(t, Remainder(s, a), j)
    BY <1>4, <1>7, <1>8, SkipStep
  <2>2. Covers(s, n, t)
    BY <1>4, <2>1 DEF Covers
  <2>3. StdioHolds(s, n, w)
    BY <1>4, <1>5, <1>6, <1>8, <2>2 DEF StdioHolds, C
  <2> QED  BY <1>1, <2>3 DEF StdioInv, StdioHolds, w, s
<1>9. CASE /\ ~(t.discarding /\ ~HasLine(chunk))
           /\ w = Pump(DropOversized(DrainBuffer(Receive(t, chunk))))
  <2> DEFINE r == Receive(t, chunk)
             d == DrainBuffer(r)
             e == DropOversized(d)
             p == Pump(e)
  <2>1. r = Receive(t, chunk)
    OBVIOUS
  <2> HIDE DEF r
  <2>2. ASSUME NEW j \in 0 .. 2
        PROVE  Fits(r, C) /\ SameServer(t, r) /\ Owed(r, later, j) = Owed(t, Remainder(s, a), j)
    BY <1>4, <1>7, <1>9, <2>1, ReceiveStep
  <2>3. Fits(r, C) /\ SameServer(t, r) /\ ~r.ended /\ ~r.settled
    BY <1>6, <2>2 DEF SameServer
  <2>4. Covers(s, n, r)
    <3>1. ASSUME NEW j \in 0 .. 2 PROVE Within(Owed(r, later, j), Lines(s, Class(j)), Exact(r, C, j))
      <4>1. Exact(r, C, j) = Exact(t, C, j)
        BY <2>3 DEF SameServer, Exact
      <4> QED  BY <1>4, <2>2, <4>1 DEF Covers, C
    <3> QED  BY <3>1 DEF Covers, C
  <2>5. Moves(r, d, C, later)
    BY <1>7, <2>3, DrainStep
  <2> HIDE DEF d
  <2>6. Fits(d, C) /\ ~d.settled /\ ~d.ended
    BY <2>3, <2>5 DEF Moves, Quiet
  <2>7. Carries(d, e, C, later)
    BY <1>7, <2>6, DropOversizedStep
  <2> HIDE DEF e
  <2>8. Carries(e, p, C, later)
    BY <1>7, <2>7, PumpStep DEF Carries
  <2> HIDE DEF p
  <2>9. Carries(d, p, C, later)
    BY <2>7, <2>8, CarriesOn
  <2>10. Moves(r, p, C, later)
    <3>1. ASSUME NEW j \in 0 .. 2 PROVE Within(Owed(p, later, j), Owed(r, later, j), Exact(r, C, j))
      <4>1. Exact(r, C, j) = Exact(d, C, j)
        BY <2>5 DEF Moves, Exact
      <4> QED  BY <2>5, <2>9, <4>1 DEF Carries, Moves, Within
    <3> QED  BY <2>3, <2>5, <2>6, <2>9, <3>1 DEF Carries, SameServer, Moves
  <2>11. StdioHolds(s, n, p)
    BY <1>4, <1>5, <2>3, <2>4, <2>10, MovesCover DEF C
  <2>12. w = p
    BY <1>9 DEF p, e, d, r
  <2> QED  BY <1>1, <2>11, <2>12 DEF StdioInv, StdioHolds, w, s
<1> QED  BY <1>3, <1>8, <1>9

LEMMA EndKeeps ==
    ASSUME StdioInv, ~io.settled, End
    PROVE  StdioInv'
<1> DEFINE s == sent
           a == arrived
           t == io
           w == io'
           C == Cancelable(s)
           v == [t EXCEPT !.ended = TRUE]
           rest == Remainder(s, a)
<1>1. a = Len(s) /\ w = DrainBuffer(v) /\ sent' = s /\ arrived' = a
  BY DEF End
<1>2. StdioHolds(s, a, t) /\ ~t.settled
  BY DEF StdioInv
<1> HIDE DEF s, a, t, w
<1>3. s \in Inputs /\ a \in 0 .. Len(s) /\ Fits(t, C) /\ Covers(s, a, t)
  BY <1>2 DEF StdioHolds
<1>4. rest \in Seq(Symbols(C)) /\ rest = <<>>
  BY <1>1, <1>3, RemainderTypes
<1>5. /\ v.controlled = t.controlled /\ v.buffer = t.buffer /\ v.discarding = t.discarding
      /\ v.pending = t.pending /\ v.live = t.live /\ v.next = t.next /\ v.out = t.out
      /\ v.ended = TRUE /\ v.settled = t.settled
  BY <1>3 DEF Fits
<1>6. Fits(v, C)
  <2>1. v \in [controlled : BOOLEAN, buffer : Seq(Symbols(C)), discarding : BOOLEAN,
               pending : Seq(Waiting(C, t.controlled)), live : SUBSET Flight(C, t.controlled),
               next : Nat, out : Seq(Outs), ended : BOOLEAN, settled : BOOLEAN]
    BY <1>3 DEF Fits
  <2> HIDE DEF v
  <2> QED  BY <1>3, <1>5, <2>1 DEF Fits, Capacity
<1> HIDE DEF v
<1>7. Covers(s, a, v)
  <2>1. ASSUME NEW j \in 0 .. 2
        PROVE  Owed(v, rest, j) = Owed(t, rest, j) /\ Exact(v, C, j) = Exact(t, C, j)
    <3>1. Awaited(v, j) = Awaited(t, j) /\ Kept(v, rest) = Kept(t, rest) /\ Exact(v, C, j) = Exact(t, C, j)
      BY <1>5 DEF Awaited, Kept, Exact
    <3> QED  BY <1>5, <3>1 DEF Owed, Held, Unread
  <2> QED  BY <1>3, <2>1 DEF Covers
<1>8. Moves(v, w, C, rest)
  BY <1>1, <1>4, <1>6, DrainStep
<1>9. StdioHolds(s, a, w)
  BY <1>1, <1>2, <1>3, <1>5, <1>7, <1>8, MovesCover
<1> QED  BY <1>1, <1>9 DEF StdioInv, StdioHolds, w, s, a

LEMMA RequestEndsKeeps ==
    ASSUME StdioInv, ~io.settled, RequestEnds
    PROVE  StdioInv'
<1> DEFINE s == sent
           a == arrived
           t == io
           w == io'
           C == Cancelable(s)
           rest == Remainder(s, a)
<1>1. PICK q \in t.live : \E result \in {"result", "error"} : w = Complete(t, q, result)
  BY DEF RequestEnds
<1>2. PICK result \in {"result", "error"} : w = Complete(t, q, result)
  BY <1>1
<1>3. sent' = s /\ arrived' = a
  BY DEF RequestEnds
<1>4. StdioHolds(s, a, t) /\ ~t.settled
  BY DEF StdioInv
<1> HIDE DEF s, a, t, w
<1>5. s \in Inputs /\ a \in 0 .. Len(s) /\ Fits(t, C) /\ Covers(s, a, t) /\ (t.ended => a = Len(s))
  BY <1>4 DEF StdioHolds
<1>6. rest \in Seq(Symbols(C)) /\ (t.ended => rest = <<>>)
  BY <1>5, RemainderTypes
<1> DEFINE v == [t EXCEPT !.live = @ \ {q}, !.out = @ \o (IF q.aborted THEN <<>> ELSE Answers(q.line, result))]
<1>7. v = [t EXCEPT !.live = @ \ {q}, !.out = @ \o (IF q.aborted THEN <<>> ELSE Answers(q.line, result))]
  OBVIOUS
<1>8. w = DrainBuffer(v)
  BY <1>2 DEF Complete
<1> HIDE DEF v, rest
<1>9. Carries(t, v, C, rest)
  BY <1>5, <1>6, <1>7, RequestEndStep
<1>10. Moves(v, w, C, rest)
  BY <1>6, <1>8, <1>9, DrainStep DEF Carries, SameServer
<1>11. Moves(t, w, C, rest)
  BY <1>9, <1>10, MovesOn
<1>12. StdioHolds(s, a, w)
  BY <1>4, <1>5, <1>11, MovesCover DEF rest
<1> QED  BY <1>3, <1>12 DEF StdioInv, StdioHolds, w, s, a

\* The inventory of the input: every line that asks for an answer is counted with its
\* answer, with the queue and the requests in flight, or with what is not read yet,
\* once, wherever the chunks were cut.
THEOREM StdioInvariant == StdioInit /\ [][StdioNext]_stdioVars => []StdioInv
<1>1. StdioInv /\ [StdioNext]_stdioVars => StdioInv'
  <2> SUFFICES ASSUME StdioInv, [StdioNext]_stdioVars PROVE StdioInv'
    OBVIOUS
  <2>1. CASE StdioNext
    <3>1. ~io.settled
      BY <2>1, SettledStops
    <3>2. CASE Data
      BY <3>2, DataKeeps
    <3>3. CASE End
      BY <3>1, <3>3, EndKeeps
    <3>4. CASE RequestEnds
      BY <3>1, <3>4, RequestEndsKeeps
    <3> QED  BY <2>1, <3>2, <3>3, <3>4 DEF StdioNext
  <2>2. CASE UNCHANGED stdioVars
    BY <2>2 DEF stdioVars, StdioInv, StdioHolds
  <2> QED  BY <2>1, <2>2
<1> QED  BY <1>1, StdioStarts, PTL

\* What the invariant says once it is read as counts of answers.
LEMMA InvAnswers ==
    ASSUME StdioInv
    PROVE  AnsweredAsSent
<1> DEFINE s == sent
           t == io
           C == Cancelable(s)
           rest == Remainder(s, arrived)
<1>1. /\ s \in Inputs /\ arrived \in 0 .. Len(s) /\ Fits(t, C)
      /\ \A j \in 0 .. 2 : Within(Owed(t, rest, j), Lines(s, Class(j)), Exact(t, C, j))
      /\ t.settled => Quiet(t) /\ arrived = Len(s)
  BY DEF StdioInv, StdioHolds, Covers, Quiet
<1>2. s \in Seq(Symbols(C)) /\ s \in Seq(Piece \cup {NL}) /\ Len(s) \in Nat
  BY <1>1, InputTypes
<1>3. rest \in Seq(Symbols(C)) /\ (t.settled => rest = <<>>)
  BY <1>1, RemainderTypes
<1> HIDE DEF s, t, rest
<1>4. ASSUME NEW j \in 0 .. 2
      PROVE  /\ Among(t.out, AnswersOf(j)) <= Lines(s, Class(j))
             /\ t.settled /\ Exact(t, C, j) => Among(t.out, AnswersOf(j)) = Lines(s, Class(j))
  <2>1. /\ Among(t.out, AnswersOf(j)) \in Nat /\ Among(t.pending, Class(j)) \in Nat
        /\ Cardinality(Awaited(t, j)) \in Nat /\ Held(t, j) \in Nat
    BY <1>1, HeldTypes
  <2>2. Unread(t, rest, j) \in Nat
    BY <1>1, <1>3, KeptTypes
  <2>3. Within(Owed(t, rest, j), Lines(s, Class(j)), Exact(t, C, j))
    BY <1>1
  <2>4. Among(t.out, AnswersOf(j)) <= Lines(s, Class(j))
    BY <2>1, <2>2, <2>3 DEF Within, Owed, Held
  <2>5. ASSUME t.settled PROVE Among(t.pending, Class(j)) = 0 /\ Cardinality(Awaited(t, j)) = 0 /\ Unread(t, rest, j) = 0
    <3>1. t.buffer = <<>> /\ t.pending = <<>> /\ t.live = {} /\ rest = <<>>
      BY <1>1, <1>3, <2>5 DEF Quiet
    <3>2. Awaited(t, j) = {}
      BY <3>1 DEF Awaited
    <3>3. Kept(t, rest) = <<>> /\ <<>> \in Seq(Symbols(C)) /\ <<>> \o <<>> = <<>>
      BY <3>1, NoLineInNothing, EmptySeq, ConcatEmptySeq DEF Kept
    <3>4. Unread(t, rest, j) = Lines(<<>>, Class(j))
      BY <3>1, <3>3 DEF Unread
    <3>5. Lines(<<>>, Class(j)) = 0
      BY <3>3, NoLineInNothing, EmptyAsksNothing, LastLine DEF Bit
    <3> QED  BY <3>1, <3>2, <3>4, <3>5, AmongEmpty, FS_EmptySet
  <2> QED  BY <2>1, <2>2, <2>3, <2>4, <2>5 DEF Within, Owed, Held
<1>5. DOMAIN t.out = 1 .. Len(t.out) /\ \A k \in 1 .. Len(t.out) : t.out[k] \in Outs
  <2>1. t.out \in Seq(Outs)
    BY <1>1 DEF Fits
  <2> QED  BY <2>1, LenProperties, ElementOfSeq
<1>6. ASSUME NEW i \in 1 .. 2 PROVE AnswersTo(i) = Among(t.out, AnswersOf(i))
  <2>1. {k \in DOMAIN t.out : t.out[k].id = i} = {k \in 1 .. Len(t.out) : t.out[k] \in AnswersOf(i)}
    BY <1>5 DEF AnswersOf
  <2> QED  BY <2>1 DEF AnswersTo, Among, UpTo, t
<1>7. Refusals = Among(t.out, AnswersOf(0))
  <2>1. {k \in DOMAIN t.out : t.out[k] = TooLarge} = {k \in 1 .. Len(t.out) : t.out[k] \in AnswersOf(0)}
    BY <1>5 DEF AnswersOf
  <2> QED  BY <2>1 DEF Refusals, Among, UpTo, t
<1>8. ASSUME NEW a \in LineStarts(s) PROVE LineAt(s, a) \in Seq(Piece \cup {NL})
  <2> DEFINE P == Piece \cup {NL}
             z == SubSeq(s, a, Len(s))
  <2>1. a \in 1 .. Len(s)
    BY <1>2, LenProperties DEF LineStarts
  <2>2. a \in Int /\ Len(s) \in Int /\ \A i \in a .. Len(s) : s[i] \in P
    BY <1>2, <2>1, ElementOfSeq
  <2> HIDE DEF P
  <2>3. z \in Seq(P)
    BY <2>2, SubSeqProperties
  <2> HIDE DEF z
  <2>4. UpToNewline(z) \in Seq(P)
    BY <2>3, FirstLine DEF UpToNewline, Framed
  <2> QED  BY <2>4 DEF LineAt, P, z
<1>9. ASSUME NEW i \in 1 .. 2 PROVE CallsIn(s, i) = Lines(s, Class(i))
  <2>1. {a \in LineStarts(s) : IsCall(LineAt(s, a), i)} = LinesIn(s, Class(i))
    BY <1>8 DEF LinesIn, Class
  <2> QED  BY <2>1 DEF CallsIn, Lines
<1>10. OversizedIn(s) = Lines(s, Class(0))
  <2>1. {a \in LineStarts(s) : Oversized(LineAt(s, a))} = LinesIn(s, Class(0))
    BY <1>8 DEF LinesIn, Class
  <2> QED  BY <2>1 DEF OversizedIn, Lines
<1>11. ASSUME NEW i \in 1 .. 2, ~MayCancel(i) PROVE Exact(t, C, i)
  BY <1>11 DEF MayCancel, Exact, Cancelable, s, t
<1>12. ASSUME NEW i \in 1 .. 2
       PROVE  /\ AnswersTo(i) <= CallsIn(s, i)
              /\ t.settled /\ ~MayCancel(i) => AnswersTo(i) = CallsIn(s, i)
  <2>1. i \in 0 .. 2
    OBVIOUS
  <2> QED  BY <1>4, <1>6, <1>9, <1>11, <2>1
<1>13. Refusals <= OversizedIn(s) /\ (t.settled => Refusals = OversizedIn(s))
  <2>1. 0 \in 0 .. 2 /\ Exact(t, C, 0)
    BY DEF Exact
  <2> QED  BY <1>4, <1>7, <1>10, <2>1
<1> QED  BY <1>12, <1>13 DEF AnsweredAsSent, s, t

\* Wherever the input is cut into chunks and in whatever order requests end, every call
\* and every oversized frame is answered exactly once by the time the server resolves,
\* unless a cancellation names it.
THEOREM StdioAnswersAsSent == StdioInit /\ [][StdioNext]_stdioVars => []AnsweredAsSent
BY StdioInvariant, InvAnswers, PTL

-----------------------------------------------------------------------------
(* Either transport.                                                       *)

\* Whichever transport it came by, a request is answered for once: over stdio each call
\* and each oversized frame, for any input and any cut into chunks; over HTTP with one
\* answer that is only a success in time.
THEOREM TransportsAnswer ==
    StdioInit /\ [][StdioNext]_stdioVars /\ HttpInit /\ [][HttpNext]_httpVars
        => []TransportsAnswerOnce
<1>1. AnsweredAsSent /\ OneHonestAnswer => TransportsAnswerOnce
  BY DEF TransportsAnswerOnce
<1> QED  BY <1>1, StdioAnswersAsSent, HttpAnswersOnce, PTL
=============================================================================
