---------------------------- MODULE MCRequests ----------------------------
\* What a request passes through and the content it is about, for TLC: the
\* resolution of queries under their deadlines, the two transports, the embedding
\* thread, the selection of context from a catalog, and a document that is captured,
\* cut into units and chunks and indexed again after every edit.  They share no
\* state, so a behaviour of this module is a behaviour of one of them.
EXTENDS RequestResolution, Transports, EmbeddingWorker, MCContent

VARIABLE part   \* the part that runs

requestVars == <<part, resolutionVars, stdioVars, httpVars, workerVars, selVars, docVars>>

MCFailing == {{"search_fault", "embedding_invalid"}, {"binding_fault", "embedding_fault"}}
MCPlans == {[targets |-> {1, 2}, fits |-> TRUE], [targets |-> {}, fits |-> TRUE],
            [targets |-> {1}, fits |-> FALSE]}

P(k, i) == [kind |-> k, id |-> i]
Alphabet == {P("call", 1), P("cancel", 1), P("junk", 0), P("blank", 0), P("note", 0), NL}
LongInputs == {
    <<P("call", 1), NL, P("call", 2), NL, P("cancel", 1), NL, P("call", 1), P("call", 1), NL, P("call", 2)>>,
    <<P("junk", 0), NL, P("call", 1), P("junk", 0), P("blank", 0), NL, P("note", 0), NL, P("call", 1), NL>>,
    <<P("call", 1), NL, P("blank", 0), NL, P("call", 2), NL, P("call", 2), NL, P("cancel", 2), NL, P("junk", 0), P("call", 1)>>}
\* Every input of up to three symbols, and longer ones that fill the request table.
MCInputs == UNION {[1 .. n -> Alphabet] : n \in 0 .. 3} \cup LongInputs

Paused0 == sent = <<>> /\ arrived = 0 /\ io = Opened(TRUE)
NoConnection == http = [Connected("none", "none", 0) EXCEPT !.phase = "over"]

Init ==
    /\ part \in {"resolution", "stdio", "http", "worker", "selection", "documents"}
    /\ ResolutionInit /\ WorkerInit /\ SelInit /\ DocInit
    /\ IF part = "stdio" THEN StdioInit ELSE Paused0
    /\ IF part = "http" THEN HttpInit ELSE NoConnection
    /\ part # "selection" => query = <<>>

contentVars == <<selVars, docVars>>
InResolution == part = "resolution" /\ UNCHANGED <<part, stdioVars, httpVars, workerVars, contentVars>>
InStdio == part = "stdio" /\ UNCHANGED <<part, resolutionVars, httpVars, workerVars, contentVars>>
InHttp == part = "http" /\ UNCHANGED <<part, resolutionVars, stdioVars, workerVars, contentVars>>
InWorker == part = "worker" /\ UNCHANGED <<part, resolutionVars, stdioVars, httpVars, contentVars>>
InContent == UNCHANGED <<part, resolutionVars, stdioVars, httpVars, workerVars>>

Next ==
    \/ InResolution /\ ResolutionNext
    \/ InStdio /\ StdioNext
    \/ InHttp /\ HttpNext
    \/ InWorker /\ WorkerNext
    \/ part = "selection" /\ InContent /\ SelNext /\ UNCHANGED docVars
    \/ part = "documents" /\ InContent /\ DocNext /\ UNCHANGED selVars

Spec ==
    /\ Init /\ [][Next]_requestVars
    /\ WF_requestVars(InResolution /\ Tick)
    /\ \A r \in Requests : WF_requestVars(InResolution /\ Due(r))
    /\ WF_requestVars(InStdio /\ StdioNext)
    /\ WF_requestVars(InWorker /\ \E t \in 1 .. MaxThreads : ThreadMoves(t))

\* Every server of the part that runs the stdio transport comes to its end.
StdioResolves == part = "stdio" => <>io.settled

\* Nobody is left without an answer: an admitted query ends however its stages, its
\* searches and the audit thread behave; a stdio server that reads the end of its
\* input answers what it accepted and stops; a call of the embedding thread settles.
EveryoneAnswered == EveryQueryEnds /\ StdioResolves /\ CallsSettle
=============================================================================
