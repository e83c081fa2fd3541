------------------------- MODULE EmbeddingScheduler -------------------------
(***************************************************************************)
(* EmbeddingRuntimeScheduler                                               *)
(* (apps/contextctl-daemon/src/runtime/embedding-runtime-scheduler.ts):    *)
(* calls into the one local inference session, resolve before background.  *)
(*                                                                         *)
(* The event loop runs one callback at a time, so each callback is one     *)
(* action: a call of run(), the finally block of a native call that ended, *)
(* an abort, a timer, entering and leaving a resolve scope.  A call is one *)
(* execution of run(): an embed() of several inputs makes one call per     *)
(* batch, one after the other (runBatches).  Only the promotion timer and  *)
(* the sampler decide when background work starts; their delays are not    *)
(* modelled, a pending timer may fire at any moment.                       *)
(*                                                                         *)
(* An abort removes a waiting entry at once, so the queues hold no settled *)
(* entry and the loop of #drain never meets one.  The resident set size is *)
(* reported and never read by a decision.                                  *)
(***************************************************************************)
EXTENDS Integers, Sequences, FiniteSets

CONSTANTS ResolveCalls,          \* run("resolve", ...)
          BackgroundCalls,       \* run("background", ...)
          Scopes,                \* executions of runResolveScope
          Concurrency,           \* profile.concurrency
          ResolveQueueDepth,     \* profile.resolveQueueDepth
          BackgroundQueueDepth   \* profile.backgroundQueueDepth

ASSUME ProfileAssumption ==
    /\ Concurrency \in Nat \ {0}
    /\ ResolveQueueDepth \in Nat \ {0} /\ BackgroundQueueDepth \in Nat \ {0}
    /\ ResolveCalls \cap BackgroundCalls = {}

Calls == ResolveCalls \cup BackgroundCalls

VARIABLES resolveQueue, backgroundQueue,
          running,      \* calls inside the native session (#active of them)
          settled,      \* calls whose promise is resolved or rejected
          reservations, \* open resolve scopes (#resolveReservations of them)
          left,         \* scopes that have ended
          promotion,    \* a background promotion timer is pending
          sampling,     \* the resource sampler is running
          delayed,      \* the last sample found the event loop delayed
          accepting

queues == <<resolveQueue, backgroundQueue>>
scopes == <<reservations, left>>
schedulerVars == <<resolveQueue, backgroundQueue, running, settled, reservations, left,
          promotion, sampling, delayed, accepting>>

SchedulerInit ==
    /\ resolveQueue = <<>> /\ backgroundQueue = <<>>
    /\ running = {} /\ settled = {}
    /\ reservations = {} /\ left = {}
    /\ promotion = FALSE /\ sampling = FALSE /\ delayed = FALSE
    /\ accepting = TRUE

Elements(q) == {q[i] : i \in 1 .. Len(q)}

Waiting == Elements(resolveQueue) \cup Elements(backgroundQueue)

\* Calls that have not been made yet.
Fresh == Calls \ (Waiting \cup running \cup settled)

Least(a, b) == IF a <= b THEN a ELSE b

Dropped(q, n) == SubSeq(q, n + 1, Len(q))

Without(q, i) == SubSeq(q, 1, i - 1) \o SubSeq(q, i + 1, Len(q))

Occupied(calls) == Cardinality(calls) >= Concurrency

\* #scheduleBackgroundPromotion.
ScheduleBackgroundPromotion(pending) ==
    promotion' = (pending \/ (accepting /\ backgroundQueue # <<>>))

\* #drain: resolve calls first, then background calls unless a scope is open,
\* a promotion is still pending or the event loop is delayed.
Drain(active, pending, suppressed) ==
    LET free == Concurrency - Cardinality(active)
        r == Least(free, Len(resolveQueue))
        b == IF reservations # {} \/ pending \/ suppressed THEN 0
             ELSE Least(free - r, Len(backgroundQueue))
    IN  IF ~accepting THEN running' = active /\ UNCHANGED queues
        ELSE /\ resolveQueue' = Dropped(resolveQueue, r)
             /\ backgroundQueue' = Dropped(backgroundQueue, b)
             /\ running' = active \cup {resolveQueue[i] : i \in 1 .. r}
                                  \cup {backgroundQueue[i] : i \in 1 .. b}

-----------------------------------------------------------------------------

\* run() after the scheduler was closed or with an aborted signal.
Refuse(c) ==
    /\ c \in Fresh
    /\ settled' = settled \cup {c}
    /\ UNCHANGED <<queues, running, scopes, promotion, sampling, delayed, accepting>>

\* run("resolve"): cancel the pending promotion, then start, wait, or be
\* refused as overloaded.
RunResolve(c) ==
    /\ c \in Fresh \cap ResolveCalls /\ accepting
    /\ promotion' = FALSE
    /\ \/ /\ ~Occupied(running)
          /\ running' = running \cup {c}
          /\ UNCHANGED <<queues, settled>>
       \/ /\ Occupied(running) /\ Len(resolveQueue) < ResolveQueueDepth
          /\ resolveQueue' = Append(resolveQueue, c)
          /\ UNCHANGED <<backgroundQueue, running, settled>>
       \/ /\ Occupied(running) /\ Len(resolveQueue) >= ResolveQueueDepth
          /\ settled' = settled \cup {c}
          /\ UNCHANGED <<queues, running>>
    /\ UNCHANGED <<scopes, sampling, delayed, accepting>>

\* run("background"): always through the queue and the timer.
RunBackground(c) ==
    /\ c \in Fresh \cap BackgroundCalls /\ accepting
    /\ \/ /\ Len(backgroundQueue) < BackgroundQueueDepth
          /\ backgroundQueue' = Append(backgroundQueue, c)
          /\ promotion' = TRUE
          /\ UNCHANGED settled
       \/ /\ Len(backgroundQueue) >= BackgroundQueueDepth
          /\ settled' = settled \cup {c}
          /\ UNCHANGED <<backgroundQueue, promotion>>
    /\ UNCHANGED <<resolveQueue, running, scopes, sampling, delayed, accepting>>

\* onAbort of a waiting entry: it leaves its queue (#remove).
AbortWaiting(c) ==
    /\ \/ \E i \in 1 .. Len(resolveQueue) :
            /\ resolveQueue[i] = c
            /\ resolveQueue' = Without(resolveQueue, i)
            /\ UNCHANGED backgroundQueue
       \/ \E i \in 1 .. Len(backgroundQueue) :
            /\ backgroundQueue[i] = c
            /\ backgroundQueue' = Without(backgroundQueue, i)
            /\ UNCHANGED resolveQueue
    /\ settled' = settled \cup {c}
    /\ UNCHANGED <<running, scopes, promotion, sampling, delayed, accepting>>

\* Mutation of Finish: only waiting resolve calls are looked after.
FinishForgetsBackground(c) ==
    /\ c \in running
    /\ settled' = settled \cup {c}
    /\ \/ resolveQueue # <<>> /\ Drain(running \ {c}, promotion, delayed)
       \/ resolveQueue = <<>> /\ running' = running \ {c} /\ UNCHANGED queues
    /\ UNCHANGED <<scopes, promotion, sampling, delayed, accepting>>

\* The native call of c ends, either way: the finally block of #start.
Finish(c) ==
    /\ c \in running
    /\ settled' = settled \cup {c}
    /\ \/ /\ resolveQueue # <<>>
          /\ Drain(running \ {c}, promotion, delayed)
          /\ UNCHANGED promotion
       \/ /\ resolveQueue = <<>>
          /\ running' = running \ {c}
          /\ ScheduleBackgroundPromotion(promotion)
          /\ UNCHANGED queues
    /\ UNCHANGED <<scopes, sampling, delayed, accepting>>

\* The promotion timer fires.
Promote ==
    /\ promotion
    /\ promotion' = FALSE
    /\ Drain(running, FALSE, delayed)
    /\ UNCHANGED <<settled, scopes, sampling, delayed, accepting>>

\* runResolveScope begins.
EnterScope(s) ==
    /\ s \in Scopes \ (reservations \cup left)
    /\ reservations' = reservations \cup {s}
    /\ promotion' = FALSE
    /\ UNCHANGED <<queues, running, settled, left, sampling, delayed, accepting>>

\* runResolveScope ends: the last scope starts a new quiet period.
LeaveScope(s) ==
    /\ s \in reservations
    /\ reservations' = reservations \ {s}
    /\ left' = left \cup {s}
    /\ \/ reservations = {s} /\ ScheduleBackgroundPromotion(FALSE)
       \/ reservations # {s} /\ UNCHANGED promotion
    /\ UNCHANGED <<queues, running, settled, sampling, delayed, accepting>>

StartMonitoring ==
    /\ accepting /\ ~sampling
    /\ sampling' = TRUE
    /\ UNCHANGED <<queues, running, settled, scopes, promotion, delayed, accepting>>

\* The sampler's timer fires; lag says what it measures.
Sample(lag) ==
    /\ sampling
    /\ delayed' = lag
    /\ Drain(running, promotion, lag)
    /\ UNCHANGED <<settled, scopes, promotion, sampling, accepting>>

\* stopAccepting: timers are cancelled and waiting calls refused.
StopAccepting ==
    /\ accepting
    /\ accepting' = FALSE
    /\ sampling' = FALSE /\ promotion' = FALSE
    /\ resolveQueue' = <<>> /\ backgroundQueue' = <<>>
    /\ settled' = settled \cup Waiting
    /\ UNCHANGED <<running, scopes, delayed>>

SchedulerNext ==
    \/ \E c \in Calls : \/ Refuse(c) \/ RunResolve(c) \/ RunBackground(c)
                        \/ AbortWaiting(c) \/ Finish(c)
    \/ \E s \in Scopes : EnterScope(s) \/ LeaveScope(s)
    \/ Promote \/ StartMonitoring \/ StopAccepting
    \/ \E lag \in BOOLEAN : Sample(lag)

SchedulerSpec == SchedulerInit /\ [][SchedulerNext]_schedulerVars

\* Native calls and resolve scopes end, timers fire, and the event loop is
\* not delayed for ever.
SchedulerFairness ==
    /\ \A c \in Calls : WF_schedulerVars(Finish(c))
    /\ \A s \in Scopes : WF_schedulerVars(LeaveScope(s))
    /\ WF_schedulerVars(Promote)
    /\ SF_schedulerVars(Sample(FALSE))

-----------------------------------------------------------------------------
(* Properties                                                              *)

Distinct(q) == \A i, j \in 1 .. Len(q) : q[i] = q[j] => i = j

\* Every call is in one place, and neither the session nor a queue ever holds
\* more than the profile allows.
SchedulerTypeOK ==
    /\ resolveQueue \in Seq(ResolveCalls) /\ Distinct(resolveQueue)
    /\ backgroundQueue \in Seq(BackgroundCalls) /\ Distinct(backgroundQueue)
    /\ running \subseteq Calls /\ settled \subseteq Calls
    /\ running \cap settled = {} /\ Waiting \cap (running \cup settled) = {}
    /\ IsFiniteSet(running) /\ Cardinality(running) <= Concurrency
    /\ Len(resolveQueue) <= ResolveQueueDepth
    /\ Len(backgroundQueue) <= BackgroundQueueDepth
    /\ reservations \subseteq Scopes /\ left \subseteq Scopes
    /\ promotion \in BOOLEAN /\ sampling \in BOOLEAN
    /\ delayed \in BOOLEAN /\ accepting \in BOOLEAN

\* No call waits without something that will look at its queue again: a
\* resolve call waits only while every slot is taken, a background call only
\* while a call runs, a promotion is pending, a scope is open or the sampler
\* has found the event loop delayed.  Every path that cancels the promotion
\* timer has to leave one of these behind.
NoLostWakeup ==
    /\ resolveQueue # <<>> => accepting /\ Cardinality(running) = Concurrency
    /\ backgroundQueue # <<>> =>
         /\ accepting
         /\ running # {} \/ promotion \/ reservations # {} \/ (delayed /\ sampling)

\* A background call starts only when no resolve call waits, no resolve scope
\* is open and the event loop is not delayed, and never in the turn in which
\* another call ends ("Never chain background native calls in the same turn").
BackgroundYields ==
    [][\A c \in BackgroundCalls : c \in running' \ running =>
         /\ resolveQueue' = <<>> /\ reservations' = {} /\ ~delayed'
         /\ settled' = settled]_schedulerVars

\* Every call that was accepted has ended: it ran, or it was refused or aborted.
AllSettled == Waiting \cup running = {}
=============================================================================
