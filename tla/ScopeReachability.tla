-------------------------- MODULE ScopeReachability -------------------------
(***************************************************************************)
(* The reachability report of Registry: buildReachabilityReport and the    *)
(* domain rules behind it (packages/registry-lifecycle/src/domain/         *)
(* scope-reachability.ts and processing-lag.ts), which say for every scope *)
(* version whether a query can reach it, and the release gate on top.      *)
(*                                                                         *)
(* The report stores nothing.  It reads the card versions, the operators'  *)
(* decisions, the cursors and the newest publications one after the other  *)
(* while intakes and operator commands of other processes commit.  Those   *)
(* are one step each here; RegistryIntake has their insides.  There is one *)
(* source: scopes of two sources never meet.  A version carries one scope, *)
(* the report judges every scope by itself.  The time is the number of     *)
(* commits so far.                                                         *)
(***************************************************************************)
EXTENDS Integers, FiniteSets, SequencesExt

CONSTANTS ReportCards,      \* cards, and so knowledge units
          ScopeVersions,    \* scope versions the units are published with
          ReadyPlans,       \* what a publication may hold: card -> scope version,
                            \* the range it stands for and whether grounding passes
          NoScope,          \* the unit is not in a publication
          MaxReady,         \* bound on publications
          MaxJudgements,    \* bound on operator commands
          StalePending      \* STALE_PENDING_REGISTRY_MS

ASSUME ReachAssumption ==
    /\ IsFiniteSet(ReportCards) /\ StalePending \in Nat
    /\ \A plan \in ReadyPlans : \A c \in ReportCards : plan[c].scope \in ScopeVersions \cup {NoScope}

VARIABLES ready,        \* publications of the source: card -> scope version
          consumed,     \* consumer_source_cursors, 0 before the first
          versions,     \* card_versions in append order
          current,      \* card -> its current version, 0 for none
          events,       \* lifecycle_events in append order
          report,       \* locals of the running report
          seen          \* scope -> states it has been in while the report ran

reachVars == <<ready, consumed, versions, current, events, report, seen>>

States == {"pending_registry", "broken", "reachable", "pending_approval",
           "intentionally_unexposed", "orphaned"}

Now == Len(ready) + consumed + Len(events)
NoTime == -1
NoEvent == 0

IdleReport == [pc |-> "idle", begun |-> 0, sightings |-> <<>>, decisions |-> {}, cursor |-> 0,
               latest |-> 0, grown |-> {}, verdicts |-> {}, gate |-> {}]

ReachInit ==
    /\ ready = <<>> /\ consumed = 0 /\ versions = <<>> /\ events = <<>>
    /\ current = [c \in ReportCards |-> 0]
    /\ report = IdleReport
    /\ seen = [s \in ScopeVersions |-> {}]

-----------------------------------------------------------------------------
(* The rules                                                               *)

\* toScopeDecisions: an impact assessment decides nothing on its own.
ToScopeDecisions(trail) == {e \in trail : e.kind \in {"promoted", "refused", "withdrawn"}}

Latest(decided) == CHOOSE e \in decided : \A f \in decided : f.at <= e.at
EventOf(decided) == IF decided = {} THEN NoEvent ELSE Latest(decided).id
TimeOf(decided) == IF decided = {} THEN NoTime ELSE Latest(decided).at

\* earliestCreatedAt
EarliestCreatedAt(carriers) ==
    CHOOSE t \in {c.at : c \in carriers} : \A c \in carriers : t <= c.at

\* findScopeDisagreement: the carriers of a scope version describe one range.
ScopeDisagreement(carriers) == \E c, d \in carriers : c.shape # d.shape

Verdict(scope, state, since, deciding, event) ==
    [scope |-> scope, state |-> state, since |-> since,
     versions |-> {c.version : c \in deciding}, event |-> event]

\* Mutation of JudgeScopeReachability: a withdrawn version is awaiting approval.
JudgeByRefusals(scope, carriers, decisions) ==
    LET serving == {c \in carriers : c.current}
        against == {e \in decisions : e.kind = "refused"}
        awaiting == {c \in carriers : c.state # "rejected" /\ c.version \notin {e.version : e \in against}}
    IN  IF serving # {} /\ ScopeDisagreement(carriers) THEN Verdict(scope, "broken", NoTime, serving, NoEvent)
        ELSE IF serving # {} THEN Verdict(scope, "reachable", NoTime, serving, NoEvent)
        ELSE IF awaiting # {} THEN Verdict(scope, "pending_approval", NoTime, awaiting, NoEvent)
        ELSE Verdict(scope, "orphaned", TimeOf(against), carriers, EventOf(against))

\* judgeScopeReachability for a scope that card versions carry.  The decisions
\* are those on the cards that carry it, whichever version they are about.
JudgeScopeReachability(scope, carriers, decisions) ==
    LET serving == {c \in carriers : c.current}
        promoted == {e \in decisions : e.kind = "promoted" /\ e.card \in {c.card : c \in serving}}
        against == {e \in decisions : e.kind # "promoted"}
        awaiting == {c \in carriers : c.state # "rejected" /\ c.version \notin {e.version : e \in against}}
        explained == {e \in against : e.note}
    IN  IF serving # {} /\ ScopeDisagreement(carriers)
        THEN Verdict(scope, "broken", NoTime, serving, NoEvent)
        ELSE IF serving # {}
        THEN Verdict(scope, "reachable",
                IF promoted = {} THEN EarliestCreatedAt(serving) ELSE TimeOf(promoted),
                serving, EventOf(promoted))
        ELSE IF awaiting # {}
        THEN Verdict(scope, "pending_approval", EarliestCreatedAt(awaiting), awaiting, NoEvent)
        ELSE IF explained # {}
        THEN Verdict(scope, "intentionally_unexposed", TimeOf(explained), carriers, EventOf(explained))
        ELSE Verdict(scope, "orphaned", TimeOf(against), carriers, EventOf(against))

\* collectScopeObservations: one observation per scope version, with the
\* decisions on the cards that carry it.
CarriersOf(sightings, scope) ==
    {sightings[i] : i \in {k \in DOMAIN sightings : sightings[k].scope = scope}}

Observed(sightings, decisions) ==
    {JudgeScopeReachability(s, CarriersOf(sightings, s),
        {e \in decisions : e.card \in {c.card : c \in CarriersOf(sightings, s)}}) :
       s \in {sightings[i].scope : i \in DOMAIN sightings}}

\* judgeSourceProcessingLag: the newest publication is not the consumed one.
Behind(cursor, latest) == latest # 0 /\ cursor # latest

\* awaitingRegistry: scopes of the newest publication no card version carries.
AwaitingRegistry(sightings, latest) ==
    LET published == {latest.scopes[c].scope : c \in ReportCards} \ {NoScope}
        carried == {sightings[i].scope : i \in DOMAIN sightings}
    IN  {Verdict(s, "pending_registry", latest.at, {}, NoEvent) : s \in published \ carried}

\* counts of summarizeScopeReachability.
CountOf(verdicts, state) == Cardinality({v \in verdicts : v.state = state})

\* currentReachabilityCoverage as a fraction; a report without a scope that could
\* be exposed is fully covered.
Coverage(verdicts) ==
    LET exposable == Cardinality(verdicts) - CountOf(verdicts, "pending_registry")
                       - CountOf(verdicts, "intentionally_unexposed")
    IN  IF exposable = 0 THEN <<1, 1>> ELSE <<CountOf(verdicts, "reachable"), exposable>>

\* oldestStateAge: undated verdicts are passed over.
OldestStateAge(verdicts, now) ==
    LET dated == {v \in verdicts : v.since # NoTime /\ v.since <= now}
    IN  IF dated = {} THEN NoTime ELSE now - Min({v.since : v \in dated})

\* reachabilityGateViolations, and the scopes that wait for longer than the
\* operating standard allows (stalePendingRegistryScopes).
GateViolations(verdicts) ==
    {state \in {"broken", "orphaned"} : CountOf(verdicts, state) > 0}

StalePendingScopes(verdicts, now) ==
    {v \in verdicts : v.state = "pending_registry" /\ now - v.since > StalePending}

-----------------------------------------------------------------------------
(* Registry and ingestion                                                  *)

SightingsNow ==
    [i \in DOMAIN versions |->
        [card |-> versions[i].card, version |-> i, scope |-> versions[i].scope,
         state |-> versions[i].state, shape |-> versions[i].shape, at |-> versions[i].at,
         current |-> current[versions[i].card] = i]]

TrailNow == {events[i] : i \in DOMAIN events}

Published(p) == {ready[p].scopes[c].scope : c \in ReportCards} \ {NoScope}

\* What is true of a scope at this moment, said without the rules above: it is
\* served by a card, or a version of it is neither refused nor withdrawn, or
\* somebody gave a reason, or it was lost; before that, it waits.
StateNow(s) ==
    LET carriers == {i \in DOMAIN versions : versions[i].scope = s}
        against(i) == \E e \in TrailNow : e.kind \in {"refused", "withdrawn"} /\ e.version = i
    IN  IF \E i \in carriers : current[versions[i].card] = i
        THEN IF Cardinality({versions[i].shape : i \in carriers}) > 1 THEN "broken" ELSE "reachable"
        ELSE IF \E i \in carriers : versions[i].state = "validated" /\ ~against(i) THEN "pending_approval"
        ELSE IF \E e \in TrailNow, i \in carriers : e.note /\ e.card = versions[i].card
        THEN "intentionally_unexposed"
        ELSE IF carriers # {} THEN "orphaned"
        ELSE IF \E p \in consumed + 1 .. Len(ready) : s \in Published(p) THEN "pending_registry"
        ELSE "unknown"

Running == report.pc \notin {"idle", "done"}

\* Every commit ends with this: what a running report could have seen.
Witnessed ==
    seen' = IF Running THEN [s \in ScopeVersions |-> seen[s] \cup {StateNow(s)'}] ELSE seen

Open == report.pc # "done"

\* A unit that came or changed since the publication before.
Changed(p, c) == ready[p].scopes[c].scope # NoScope /\ (p = 1 \/ ready[p].scopes[c].scope # ready[p - 1].scopes[c].scope)
Removed(p, c) == p > 1 /\ ready[p].scopes[c].scope = NoScope /\ ready[p - 1].scopes[c].scope # NoScope

PublishReady ==
    /\ Open /\ Len(ready) < MaxReady
    /\ \E scopes \in ReadyPlans :
         /\ ready # <<>> => scopes # ready[Len(ready)].scopes
         /\ ready' = Append(ready, [scopes |-> scopes, at |-> Now])
    /\ UNCHANGED <<consumed, versions, current, events, report>>
    /\ Witnessed

\* intakePublication: a version for every unit of the publication, and the
\* current pointer of the cards its changes withdraw is taken away.  The event
\* is the assessment, not a withdrawal.
ConsumeReady ==
    /\ Open /\ consumed < Len(ready)
    /\ LET p == consumed + 1
           fresh == {c \in ReportCards : ready[p].scopes[c].scope # NoScope}
           gone == {c \in ReportCards : current[c] # 0 /\ Removed(p, c)}
           withdrawn == gone \cup {c \in ReportCards : gone # {} /\ current[c] # 0 /\ Changed(p, c)}
           order == SetToSeq(fresh)
       IN  /\ versions' = versions \o [i \in DOMAIN order |->
                LET unit == ready[p].scopes[order[i]]
                IN  [card |-> order[i], scope |-> unit.scope, shape |-> unit.shape, at |-> Now,
                     state |-> IF unit.grounded THEN "validated" ELSE "rejected"]]
           /\ LET out == SetToSeq(withdrawn)
              IN  events' = events \o [i \in DOMAIN out |->
                    [kind |-> "assessed", id |-> Len(events) + i, card |-> out[i],
                     version |-> current[out[i]], note |-> FALSE, at |-> Now]]
           /\ current' = [c \in ReportCards |-> IF c \in withdrawn THEN 0 ELSE current[c]]
           /\ consumed' = p
           /\ report' = IF report.pc = "decisions"
                        THEN [report EXCEPT !.grown = @ \cup {ready[p].scopes[c].scope : c \in fresh}]
                        ELSE report
    /\ UNCHANGED ready
    /\ Witnessed

Decide(kind, c, v, note) ==
    events' = Append(events, [kind |-> kind, id |-> Len(events) + 1, card |-> c, version |-> v,
                              note |-> note, at |-> Now])

Judgements == Cardinality(ToScopeDecisions(TrailNow))

\* approveCardVersion, rejectCardVersion and disableCard; a refusal and a
\* withdrawal come with a reason or without.
OperatorDecides ==
    /\ Open /\ Judgements < MaxJudgements
    /\ \E i \in DOMAIN versions :
         LET c == versions[i].card
         IN  \/ /\ versions[i].state = "validated"
                /\ Decide("promoted", c, i, FALSE)
                /\ current' = [current EXCEPT ![c] = i]
             \/ (\E note \in BOOLEAN : Decide("refused", c, i, note)) /\ UNCHANGED current
             \/ /\ \A j \in DOMAIN versions : versions[j].card = c => j <= i
                /\ \E note \in BOOLEAN : Decide("withdrawn", c, current[c], note)
                /\ current' = [current EXCEPT ![c] = 0]
    /\ UNCHANGED <<ready, consumed, versions, report>>
    /\ Witnessed

-----------------------------------------------------------------------------
(* buildReachabilityReport                                                 *)

\* listScopeSightings: versions joined with the current pointers, one statement.
ListScopeSightings ==
    /\ report.pc = "idle"
    /\ report' = [IdleReport EXCEPT !.pc = "decisions", !.begun = Now, !.sightings = SightingsNow]
    /\ seen' = [s \in ScopeVersions |-> {StateNow(s)}]
    /\ UNCHANGED <<ready, consumed, versions, current, events>>

\* listOperatorDecisions
ListOperatorDecisions ==
    /\ report.pc = "decisions"
    /\ report' = [report EXCEPT !.pc = "cursor", !.decisions = ToScopeDecisions(TrailNow)]
    /\ UNCHANGED <<ready, consumed, versions, current, events, seen>>

\* listCursors
ListCursors ==
    /\ report.pc = "cursor"
    /\ report' = [report EXCEPT !.pc = "sight", !.cursor = consumed]
    /\ UNCHANGED <<ready, consumed, versions, current, events, seen>>

\* sight: both ends of the chain.  A source without a cursor is not looked at.
Sight ==
    /\ report.pc = "sight"
    /\ report' = [report EXCEPT !.pc = "judge", !.latest = IF report.cursor = 0 THEN 0 ELSE Len(ready)]
    /\ UNCHANGED <<ready, consumed, versions, current, events, seen>>

\* awaitingRegistry reads the newest publication again; then everything is judged.
SummarizeScopeReachability ==
    /\ report.pc = "judge"
    /\ LET waiting == IF Behind(report.cursor, report.latest)
                      THEN AwaitingRegistry(report.sightings, ready[Len(ready)]) ELSE {}
           verdicts == Observed(report.sightings, report.decisions) \cup waiting
       IN  report' = [report EXCEPT !.pc = "done", !.verdicts = verdicts,
                        !.gate = GateViolations(verdicts)]
    /\ UNCHANGED <<ready, consumed, versions, current, events, seen>>

ReachNext ==
    \/ PublishReady \/ ConsumeReady \/ OperatorDecides
    \/ ListScopeSightings \/ ListOperatorDecisions \/ ListCursors \/ Sight
    \/ SummarizeScopeReachability

ReachSpec == ReachInit /\ [][ReachNext]_reachVars

-----------------------------------------------------------------------------

VerdictsOn(s) == {v \in report.verdicts : v.scope = s}

\* A finished report has one verdict on a scope; a scope it calls reachable was
\* served while it ran; one that was in the same state from its first read to its
\* last is reported in that state, so that a gate that passed cannot have missed a
\* scope that stayed orphaned or broken, whatever other processes did to other
\* scopes meanwhile.  Left out: a scope that got a further version between the
\* read of the versions and the read of the decisions, and waiting scopes of a
\* source never consumed before or of a publication that is not the newest.
\* A coverage of everything says that every scope was reachable or need not be,
\* and a scope called stale has waited, no longer than the oldest state is old.
ReportIsHonest ==
    report.pc = "done" =>
      /\ \A s \in ScopeVersions :
           /\ Cardinality(VerdictsOn(s)) <= 1
           /\ \A v \in VerdictsOn(s) : v.state = "reachable" => seen[s] \cap {"reachable", "broken"} # {}
           /\ s \notin report.grown =>
                \A state \in States \ {"pending_registry"} :
                   seen[s] = {state} => /\ {v.state : v \in VerdictsOn(s)} = {state}
                                        /\ state \in {"broken", "orphaned"} => state \in report.gate
           /\ (report.cursor # 0 /\ seen[s] = {"pending_registry"} /\ s \in Published(Len(ready)))
                => {v.state : v \in VerdictsOn(s)} = {"pending_registry"}
      /\ Coverage(report.verdicts)[1] = Coverage(report.verdicts)[2] =>
           \A v \in report.verdicts :
              v.state \in {"reachable", "intentionally_unexposed", "pending_registry"}
      /\ \A v \in StalePendingScopes(report.verdicts, Now) :
           "pending_registry" \in seen[v.scope] /\ OldestStateAge(report.verdicts, Now) > StalePending

\* The scope of a card that Registry itself took out of service because its unit
\* was removed is left orphaned, and the gate fails, until somebody decides
\* (ADR 0005).
RemovedIsOrphaned ==
    (report.pc = "done" /\ report.begun = Now) =>
      \A i \in DOMAIN events :
         (/\ i = Len(events) /\ events[i].kind = "assessed"
          /\ \A j \in DOMAIN versions : j # events[i].version =>
                versions[j].scope # versions[events[i].version].scope)
         => "orphaned" \in report.gate
=============================================================================
