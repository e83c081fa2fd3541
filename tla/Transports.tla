----------------------------- MODULE Transports -----------------------------
(***************************************************************************)
(* The two transports of queries, under packages/selection-delivery/src.   *)
(*                                                                         *)
(* Over stdio: runStdioServer and                                          *)
(* runControlledStdioServer (infrastructure/mcp/stdio-transport.ts) over   *)
(* createMcpQueryServer (mcp-query-server.ts, json-rpc.ts).                *)
(*                                                                         *)
(* The input is a sequence of pieces of text and newlines that arrives in  *)
(* chunks cut anywhere.  A piece stands for the largest text a request may *)
(* have, so a line of more than RequestLimit pieces is oversized.          *)
(* A step is one callback: a chunk, the end of the input, or the end of a  *)
(* request.                                                                *)
(*                                                                         *)
(* Over HTTP: createDeliveryHttpServer, answer and readBody                *)
(* (infrastructure/http/node-http-server.ts) over createHttpQueryHandler   *)
(* (http-query-handler.ts).  One request on one connection.                *)
(***************************************************************************)
EXTENDS Integers, SequencesExt, FiniteSets

CONSTANTS Inputs,        \* the inputs a peer may send
          RequestLimit,  \* RESOLVE_REQUEST_MAXIMUM_BYTES, in pieces
          MaxInFlight    \* maximumInFlightRequests

\* What a piece says when a line begins with it: a call, the cancellation of a call,
\* a notification, something that is not JSON-RPC, or white space.
Piece == [kind : {"call", "cancel", "note", "junk", "blank"}, id : 0 .. 2]
NL == [kind |-> "newline", id |-> 0]

ASSUME StdioAssumption ==
    /\ RequestLimit \in Nat \ {0} /\ MaxInFlight \in Nat \ {0}
    /\ \A s \in Inputs : s \in Seq(Piece \cup {NL})

VARIABLES sent,       \* the whole input
          arrived,    \* how much of it was delivered
          io          \* the transport

stdioVars == <<sent, arrived, io>>

\* `controlled` tells the two servers apart; `pending` is the queue of lines, `live`
\* the requests in flight, each with its number, `out` the lines written.
Opened(controlled) ==
    [controlled |-> controlled, buffer |-> <<>>, discarding |-> FALSE, pending |-> <<>>,
     live |-> {}, next |-> 1, out |-> <<>>, ended |-> FALSE, settled |-> FALSE]

\* --- framing ----------------------------------------------------------------

HasLine(buffer) == \E i \in DOMAIN buffer : buffer[i] = NL
FirstNewline(buffer) ==
    CHOOSE i \in DOMAIN buffer : buffer[i] = NL /\ \A j \in 1 .. (i - 1) : buffer[j] # NL
LineOf(buffer) == SubSeq(buffer, 1, FirstNewline(buffer) - 1)
RestOf(buffer) == SubSeq(buffer, FirstNewline(buffer) + 1, Len(buffer))
Oversized(line) == Len(line) > RequestLimit
Blank(line) == \A i \in DOMAIN line : line[i].kind = "blank"

\* inspectEnvelope: a line says what its first piece that is not white space says.
Envelope(line) ==
    line[CHOOSE i \in DOMAIN line : line[i].kind # "blank" /\ \A j \in 1 .. (i - 1) : line[j].kind = "blank"]

Cancels(line) == Envelope(line).kind = "cancel"
CallOf(line, id) == Envelope(line).kind = "call" /\ Envelope(line).id = id

\* The queue without the calls of an identity.
WithoutCalls(pending, id) ==
    LET kept[k \in 0 .. Len(pending)] ==
            IF k = 0 THEN <<>>
            ELSE IF CallOf(pending[k], id) THEN kept[k - 1] ELSE Append(kept[k - 1], pending[k])
    IN  kept[Len(pending)]

\* A line that could be a request joins the queue; a cancellation takes calls with
\* its identity off the queue and aborts those in flight.
Accept(t, line) ==
    IF t.controlled /\ Cancels(line)
    THEN [t EXCEPT !.pending = WithoutCalls(@, Envelope(line).id),
                   !.live = {[q EXCEPT !.aborted = @ \/ CallOf(q.line, Envelope(line).id)] : q \in @}]
    ELSE [t EXCEPT !.pending = Append(@, line)]

TooLarge == [id |-> 0, answer |-> "too_large"]

TakeLine(t, line) ==
    IF Oversized(line)
    THEN IF t.controlled THEN [t EXCEPT !.out = Append(@, TooLarge)]
         ELSE [t EXCEPT !.pending = Append(@, line)]
    ELSE IF Blank(line) THEN t ELSE Accept(t, line)

\* The uncontrolled server runs one request at a time and reads without bound.
Capacity(t) == IF t.controlled THEN MaxInFlight ELSE 1
MayRead(t) == ~t.controlled \/ Len(t.pending) + Cardinality(t.live) < MaxInFlight

\* pump: as many requests are started as there are places, in the order of their lines.
Pump(t) ==
    LET n == Min({Capacity(t) - Cardinality(t.live), Len(t.pending)})
        started == {[n |-> t.next + k - 1, line |-> t.pending[k], aborted |-> FALSE] : k \in 1 .. n}
    IN  IF t.pending = <<>> THEN t
        ELSE [t EXCEPT !.pending = SubSeq(@, n + 1, Len(@)), !.next = @ + n, !.live = @ \cup started]

\* One turn of the loop over the complete lines of the buffer.
TakeFirstLine(t) ==
    IF ~HasLine(t.buffer) \/ ~MayRead(t) THEN t
    ELSE TakeLine([t EXCEPT !.buffer = RestOf(@)], LineOf(t.buffer))

\* The loop; a turn takes a line out of the buffer, so that as many turns as it has
\* symbols are enough.  after[n] holds the one state after n turns.
TakeLines(t) ==
    LET after[n \in 0 .. Len(t.buffer)] ==
            IF n = 0 THEN {t} ELSE {TakeFirstLine(u) : u \in after[n - 1]}
    IN  CHOOSE u \in after[Len(t.buffer)] : TRUE

\* What is left in the buffer when the input has ended is a line of its own.
TakeTrailing(t) ==
    IF HasLine(t.buffer) \/ ~MayRead(t) THEN t
    ELSE LET cleared == [t EXCEPT !.buffer = <<>>, !.discarding = FALSE]
         IN  IF t.discarding THEN cleared ELSE TakeLine(cleared, t.buffer)

\* finishIfDone, with the writes that are queued by then.
Finish(t) ==
    [t EXCEPT !.settled = @ \/ (t.ended /\ t.buffer = <<>> /\ t.pending = <<>> /\ t.live = {})]

\* drainBuffer
DrainBuffer(t) ==
    LET read == TakeLines(t)
    IN  Finish(Pump(IF t.ended THEN TakeTrailing(read) ELSE read))

\* Mutation of DropOversized: the rest of the frame is read as a line of its own.
DropOversizedForgets(t) ==
    IF HasLine(t.buffer) \/ Len(t.buffer) <= RequestLimit THEN t
    ELSE TakeLine([t EXCEPT !.buffer = <<>>], t.buffer)

\* A frame that is too large already is answered and then dropped to its newline.
DropOversized(t) ==
    IF HasLine(t.buffer) \/ Len(t.buffer) <= RequestLimit THEN t
    ELSE TakeLine([t EXCEPT !.buffer = <<>>, !.discarding = TRUE], t.buffer)

\* The part of a chunk that is not the rest of a dropped frame.
Kept(t, chunk) == IF ~t.discarding THEN chunk
                  ELSE IF HasLine(chunk) THEN RestOf(chunk) ELSE <<>>

Receive(t, chunk) == [t EXCEPT !.discarding = FALSE, !.buffer = @ \o Kept(t, chunk)]

\* --- requests -----------------------------------------------------------------

\* handleMessage: a notification has no answer; a line that is not JSON-RPC is
\* answered with the identity null; a call is answered with its own.
Answers(line, result) ==
    IF Oversized(line) THEN <<TooLarge>>
    ELSE CASE Envelope(line).kind \in {"note", "cancel"} -> <<>>
           [] Envelope(line).kind = "junk" -> <<[id |-> 0, answer |-> "invalid"]>>
           [] OTHER -> <<[id |-> Envelope(line).id, answer |-> result]>>

\* Mutation of Complete: the request table forgets to read on.
CompleteStalls(t, q, result) ==
    Finish([t EXCEPT !.live = @ \ {q},
                     !.out = @ \o (IF q.aborted THEN <<>> ELSE Answers(q.line, result))])

\* A request ends with a result or an error, an answer that is too large among
\* them; unless its caller gave it up the answer is queued for writing, and the
\* place it leaves is used to read on.
Complete(t, q, result) ==
    DrainBuffer([t EXCEPT !.live = @ \ {q},
                          !.out = @ \o (IF q.aborted THEN <<>> ELSE Answers(q.line, result))])

\* --- steps --------------------------------------------------------------------

\* input.pause() takes effect between chunks.
Paused(t) == t.controlled /\ (t.pending # <<>>
                              \/ (HasLine(t.buffer) /\ Cardinality(t.live) >= MaxInFlight))

\* The handler of "data".
OnData(chunk) ==
    IF io.discarding /\ ~HasLine(chunk) THEN io' = io
    ELSE \E drained \in {DrainBuffer(Receive(io, chunk))} : io' = Pump(DropOversized(drained))

Data ==
    /\ ~Paused(io)
    /\ \E n \in (arrived + 1) .. Len(sent) :
         /\ arrived' = n
         /\ OnData(SubSeq(sent, arrived + 1, n))
    /\ UNCHANGED sent

End ==
    /\ arrived = Len(sent) /\ ~io.ended /\ ~Paused(io)
    /\ io' = DrainBuffer([io EXCEPT !.ended = TRUE])
    /\ UNCHANGED <<sent, arrived>>

RequestEnds ==
    /\ \E q \in io.live : \E result \in {"result", "error"} : io' = Complete(io, q, result)
    /\ UNCHANGED <<sent, arrived>>

StdioInit ==
    /\ sent \in Inputs
    /\ arrived = 0
    /\ \E controlled \in BOOLEAN : io = Opened(controlled)

StdioNext == Data \/ End \/ RequestEnds

\* A peer that closes its end delivers what it sent; a request ends by its deadline.
StdioSpec == StdioInit /\ [][StdioNext]_stdioVars /\ WF_stdioVars(StdioNext)

-----------------------------------------------------------------------------
\* The lines of an input, by the places where they start, however it is cut into
\* chunks.
LineStarts(s) == {a \in DOMAIN s : a = 1 \/ s[a - 1] = NL}
UpToNewline(s) == IF HasLine(s) THEN LineOf(s) ELSE s
LineAt(s, a) == UpToNewline(SubSeq(s, a, Len(s)))
IsCall(line, i) == ~Oversized(line) /\ ~Blank(line) /\ CallOf(line, i)

CallsIn(s, i) == Cardinality({a \in LineStarts(s) : IsCall(LineAt(s, a), i)})
OversizedIn(s) == Cardinality({a \in LineStarts(s) : Oversized(LineAt(s, a))})
AnswersTo(i) == Cardinality({k \in DOMAIN io.out : io.out[k].id = i})
Refusals == Cardinality({k \in DOMAIN io.out : io.out[k] = TooLarge})
MayCancel(i) == io.controlled /\ \E k \in DOMAIN sent : sent[k].kind = "cancel" /\ sent[k].id = i

\* Wherever the input is cut into chunks and in whatever order requests end, when
\* the server resolves every call was answered exactly once with its own identity,
\* unless a cancellation names it, and every oversized frame exactly once: no line
\* is lost, split or read twice at a chunk boundary or while reading is paused.
AnsweredAsSent ==
    /\ \A i \in 1 .. 2 :
         /\ AnswersTo(i) <= CallsIn(sent, i)
         /\ io.settled /\ ~MayCancel(i) => AnswersTo(i) = CallsIn(sent, i)
    /\ Refusals <= OversizedIn(sent)
    /\ io.settled => Refusals = OversizedIn(sent)

-----------------------------------------------------------------------------
\* The HTTP transport.

CONSTANTS BodyLimit,   \* RESOLVE_REQUEST_MAXIMUM_BYTES, in chunks
          Paths,       \* kinds of request lines
          Bodies       \* kinds of bodies

ASSUME HttpAssumption == BodyLimit \in Nat \ {0}

VARIABLE http

httpVars == <<http>>

\* `status` is the answer on the wire, 0 while there is none; `ran` whether the
\* application was asked; `timely` whether the budget still allows an answer.
Connected(path, body, declared) ==
    [phase |-> "reading", path |-> path, body |-> body, declared |-> declared, size |-> 0,
     ended |-> FALSE, gone |-> FALSE, timely |-> TRUE, ran |-> FALSE, status |-> 0, writes |-> 0]

Write(h, status) == [h EXCEPT !.phase = "over", !.status = status, !.writes = @ + 1]

\* The catch block of answer: a caller that has gone gets nothing.
FailWith(h, status) == IF h.gone THEN [h EXCEPT !.phase = "over"] ELSE Write(h, status)

\* resolveContextErrorStatus for a refused body and for a budget that ran out.
InvalidRequest == 400
DeadlineExceeded == 504

\* readBody: a declared length over the limit is refused before anything is read.
RefuseDeclared ==
    /\ http.phase = "reading" /\ http.size = 0 /\ http.declared > BodyLimit
    /\ http' = FailWith(http, InvalidRequest)

\* A chunk; the body is refused as soon as it is longer than the limit.
BodyChunk ==
    /\ http.phase = "reading" /\ http.declared <= BodyLimit /\ ~http.ended
    /\ LET grown == [http EXCEPT !.size = @ + 1]
       IN  http' = IF grown.size > BodyLimit THEN FailWith(grown, InvalidRequest) ELSE grown

\* The end of the body: routing, then what runResolution demands of the body.
BodyEnds ==
    /\ http.phase = "reading" /\ http.declared <= BodyLimit /\ ~http.gone
    /\ http' = CASE http.path = "unknown" -> Write(http, 404)
                 [] http.path = "wrong_method" -> Write(http, 405)
                 [] http.path = "resolve" /\ http.body # "query" -> Write(http, InvalidRequest)
                 [] OTHER -> [http EXCEPT !.phase = "resolving", !.ran = TRUE]

\* The application answers with a resolution or with an error and its status.
Resolved(status) ==
    /\ http.phase = "resolving"
    /\ http' = IF status = 200 THEN [http EXCEPT !.phase = "committing"]
               ELSE FailWith(http, status)

\* Mutation of CommitAnswer: the budget is not looked at again before the write.
CommitAnswerLate ==
    /\ http.phase = "committing"
    /\ http' = IF http.gone THEN [http EXCEPT !.phase = "over"] ELSE Write(http, 200)

\* assertResponseCanCommit, then the write unless the caller has gone.
CommitAnswer ==
    /\ http.phase = "committing"
    /\ http' = IF ~http.timely THEN FailWith(http, DeadlineExceeded)
               ELSE IF http.gone THEN [http EXCEPT !.phase = "over"] ELSE Write(http, 200)

\* The caller disconnects: a body that is being read fails at once, and the budget
\* counts as cancelled.
Disconnect ==
    /\ http.phase # "over" /\ ~http.gone
    /\ LET gone == [http EXCEPT !.gone = TRUE, !.timely = FALSE]
       IN  http' = IF http.phase = "reading" THEN FailWith(gone, DeadlineExceeded) ELSE gone

\* The lifetime of the request ends by its timer.
LifetimeEnds ==
    /\ http.phase # "over" /\ http.timely
    /\ LET late == [http EXCEPT !.timely = FALSE]
       IN  http' = IF http.phase = "reading" THEN FailWith(late, DeadlineExceeded) ELSE late

HttpInit == \E path \in Paths, body \in Bodies, declared \in 0 .. (BodyLimit + 1) :
                http = Connected(path, body, declared)

HttpNext ==
    \/ RefuseDeclared \/ BodyChunk \/ BodyEnds \/ CommitAnswer \/ Disconnect \/ LifetimeEnds
    \/ \E status \in {200, 400, 422, 429, 500, 503, 504} : Resolved(status)

-----------------------------------------------------------------------------
\* A connection carries at most one answer and none after its caller has gone; a
\* success is only ever the answer of a query that ran and was still in time, and
\* the application is never asked about a body that exceeded the limit.
OneHonestAnswer ==
    /\ http.writes <= 1
    /\ http.status = 200 => http.ran /\ http.timely
    /\ http.ran => http.size <= BodyLimit
    /\ http.gone => http.status = 0

\* Whichever transport it came by, a request is answered for once.
TransportsAnswerOnce == AnsweredAsSent /\ OneHonestAnswer
=============================================================================
