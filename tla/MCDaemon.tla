------------------------------ MODULE MCDaemon ------------------------------
\* What a daemon does beside answering, for TLC: the scheduler of its inference
\* session, the delivery of publications by several daemons, the prepared catalog, and
\* its lanes with the maintenance worker and shutdown.  Each is a specification with
\* its own inputs that the others only bound, so a behaviour of this module is a
\* behaviour of one of them.
EXTENDS EmbeddingScheduler, PublicationDelivery, PreparedCatalog, DaemonRuntime

VARIABLE part   \* the part that runs

daemonVars == <<part, schedulerVars, deliveryVars, preparedVars, runtimeVars>>

\* The shipped profile (runtime/profile.ts) with `resolve` and the queues scaled down.
OnePlace == [l \in Lanes |-> 1]
TwoResolveSlots == [l \in Lanes |-> IF l = "resolve" THEN 2 ELSE 1]

\* Contents are interchangeable, so the first one of the catalog is fixed.
Init ==
    /\ part \in {"scheduler", "delivery", "catalog", "runtime"}
    /\ SchedulerInit /\ DeliveryInit /\ PreparedInit /\ RuntimeInit
    /\ upstream = CHOOSE c \in Contents : TRUE

InScheduler == part = "scheduler" /\ UNCHANGED <<part, deliveryVars, preparedVars, runtimeVars>>
InDelivery == part = "delivery" /\ UNCHANGED <<part, schedulerVars, preparedVars, runtimeVars>>
InCatalog == part = "catalog" /\ UNCHANGED <<part, schedulerVars, deliveryVars, runtimeVars>>
InRuntime == part = "runtime" /\ UNCHANGED <<part, schedulerVars, deliveryVars, preparedVars>>

Next ==
    \/ InScheduler /\ SchedulerNext
    \/ InDelivery /\ DeliveryNext
    \/ InCatalog /\ PreparedNext
    \/ InRuntime /\ RuntimeNext

\* The fairness of each part.  Only that of the catalog asks for a step while the part
\* does not run, so it is said of the part that does.
Spec ==
    /\ Init /\ [][Next]_daemonVars
    /\ SchedulerFairness /\ DeliveryFairness /\ RuntimeFairness
    /\ WF_daemonVars(InCatalog /\ LoopStep) /\ WF_daemonVars(InCatalog /\ PassiveRefresh)

\* With finitely many calls, publications, catalog changes and cycles, everything comes
\* to rest: calls of the inference session end although resolve work goes first,
\* publications are delivered although couriers stop with rows in their hands, what is
\* served catches up with Registry, and nobody is left waiting in a lane or in a
\* shutdown that does not end.
DaemonSettles == <>[](AllSettled /\ AllDelivered /\ CaughtUp /\ AllAnswered)
=============================================================================
