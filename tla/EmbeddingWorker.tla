-------------------------- MODULE EmbeddingWorker --------------------------
(***************************************************************************)
(* WorkerThreadLocalEmbeddingInferenceResource                             *)
(* (runtime/worker-thread-local-embedding-inference-resource.ts) and the   *)
(* thread behind it (runtime/local-embedding-worker.ts), under             *)
(* apps/contextctl-daemon/src: calls with their numbers, a thread that is  *)
(* started on demand, can fail and exit, and is terminated by close.       *)
(***************************************************************************)
EXTENDS Integers, Sequences, FiniteSets

CONSTANTS Calls,       \* calls of the inference resource
          MaxThreads   \* bound on the threads started

NoThread == 0

VARIABLES call,      \* call -> "new", "pending", "ok", "failed" or "refused"
          thread,    \* #worker: the number of the thread in use, or NoThread
          started,   \* threads started so far
          dying,     \* threads whose error was reported and whose exit was not
          inbox,     \* thread -> calls posted to it, oldest first
          outbox,    \* thread -> answers on their way back
          shut       \* #closed

workerVars == <<call, thread, started, dying, inbox, outbox, shut>>

Pending == {c \in Calls : call[c] = "pending"}
Alive(t) == t \in 1 .. started /\ t \notin dying

\* #failPending
FailPending == [c \in Calls |-> IF call[c] = "pending" THEN "failed" ELSE call[c]]

\* #getWorker: the thread in use, or a new one.
ThreadForCall == IF thread = NoThread THEN started + 1 ELSE thread

\* #request: refused once closed; otherwise the call is entered in the table and
\* posted.  A thread that is about to exit takes no more messages.
Request(c) ==
    /\ call[c] = "new"
    /\ IF shut
       THEN call' = [call EXCEPT ![c] = "refused"]
            /\ UNCHANGED <<thread, started, inbox>>
       ELSE LET t == ThreadForCall
            IN  /\ t <= MaxThreads
                /\ call' = [call EXCEPT ![c] = "pending"]
                /\ thread' = t
                /\ started' = IF t > started THEN t ELSE started
                /\ inbox' = IF t \in dying THEN inbox ELSE [inbox EXCEPT ![t] = Append(@, c)]
    /\ UNCHANGED <<dying, outbox, shut>>

\* The thread works its messages off one at a time; every call, failed ones
\* included, is answered.
Handle(t) ==
    /\ Alive(t) /\ inbox[t] # <<>>
    /\ \E ok \in BOOLEAN : outbox' = [outbox EXCEPT ![t] = Append(@, [call |-> Head(inbox[t]), ok |-> ok])]
    /\ inbox' = [inbox EXCEPT ![t] = Tail(@)]
    /\ UNCHANGED <<call, thread, started, dying, shut>>

\* "message": the answer settles its call, if somebody still waits for it.
Deliver(t) ==
    /\ outbox[t] # <<>>
    /\ LET answer == Head(outbox[t])
       IN  call' = IF call[answer.call] # "pending" THEN call
                   ELSE [call EXCEPT ![answer.call] = IF answer.ok THEN "ok" ELSE "failed"]
    /\ outbox' = [outbox EXCEPT ![t] = Tail(@)]
    /\ UNCHANGED <<thread, started, dying, inbox, shut>>

\* "error": the thread is lost with what it held, and every call in the table fails.
ThreadFails(t) ==
    /\ Alive(t)
    /\ dying' = dying \cup {t}
    /\ inbox' = [inbox EXCEPT ![t] = <<>>] /\ outbox' = [outbox EXCEPT ![t] = <<>>]
    /\ call' = FailPending
    /\ UNCHANGED <<thread, started, shut>>

\* "exit": what was asked of the thread in the meantime fails too, and the next
\* call starts a new one.
ThreadExits(t) ==
    /\ t \in dying /\ t = thread
    /\ call' = IF shut THEN call ELSE FailPending
    /\ thread' = NoThread
    /\ UNCHANGED <<started, dying, inbox, outbox, shut>>

\* close: the table is failed and cleared before the thread is terminated.
Close ==
    /\ ~shut
    /\ shut' = TRUE
    /\ call' = FailPending
    /\ thread' = NoThread
    /\ dying' = 1 .. started
    /\ inbox' = [t \in 1 .. MaxThreads |-> <<>>] /\ outbox' = [t \in 1 .. MaxThreads |-> <<>>]
    /\ UNCHANGED started

WorkerInit ==
    /\ call = [c \in Calls |-> "new"]
    /\ thread = NoThread /\ started = 0 /\ dying = {} /\ shut = FALSE
    /\ inbox = [t \in 1 .. MaxThreads |-> <<>>] /\ outbox = [t \in 1 .. MaxThreads |-> <<>>]

WorkerNext ==
    \/ \E c \in Calls : Request(c)
    \/ \E t \in 1 .. MaxThreads : Handle(t) \/ Deliver(t) \/ ThreadFails(t) \/ ThreadExits(t)
    \/ Close

\* A thread makes progress until it fails; a failed thread exits.
ThreadMoves(t) == Handle(t) \/ Deliver(t) \/ ThreadExits(t)

WorkerSpec ==
    /\ WorkerInit /\ [][WorkerNext]_workerVars
    /\ \A t \in 1 .. MaxThreads : WF_workerVars(ThreadMoves(t))

-----------------------------------------------------------------------------
\* Every call of the resource settles, however the thread behaves.
CallsSettle == \A c \in Calls : call[c] = "pending" ~> call[c] # "pending"
=============================================================================
