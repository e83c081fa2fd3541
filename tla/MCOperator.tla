---------------------------- MODULE MCOperator ----------------------------
\* What an operator runs beside the system, and what the system tells him, for
\* TLC: backup and restore, the installation of model files, the retention of raw
\* observations, the opening of the state databases, the reachability report and
\* the grounding of a card's text.  They share no state, so a behaviour of this
\* module is a behaviour of one of them.
EXTENDS StateBackup, AssetInstallation, ObservationRetention, StateDatabases, ScopeReachability,
        FactGrounding, TLC

CONSTANTS v1, v2, acme, globex, k1, k2, s1, s2

Interchangeable == Permutations(Drafts) \union Permutations(Ingesters)

VARIABLE part   \* the part that runs

operatorVars == <<part, stateVars, assetVars, retentionVars, databaseVars, reachVars, claim>>

\* An empty managed directory, one with a revision in use, and one that holds
\* a revision of which a file was lost.
MCFirstRoots ==
    LET Root(d, p) == [revisions |-> [r \in Revisions |-> IF r = v1 THEN d ELSE NoDirectory],
                       pointer |-> p]
    IN  {Root(NoDirectory, NoRevision), Root(Complete, v1),
         Root([Complete EXCEPT !.files = {}], NoRevision)}

\* Databases as releases have left them, with the tables, the rows and the owner
\* they then had, and files that are not this program's.
File(k, m, v, l, w, old) ==
    [kind |-> k, mark |-> m, version |-> v, level |-> l, owner |-> w, old |-> old]
MCFirstFiles ==
    {File(k, Unmarked, 0, 0, Unowned, FALSE) : k \in {"ingestion", "registry", "audit"}}
    \union {File("ingestion", "ingestion", v, IF v < 6 THEN v ELSE 6, acme, old) :
               v \in 2..9, old \in BOOLEAN}
    \union {File("ingestion", Unmarked, 1, 1, Unowned, old) : old \in BOOLEAN}
    \union {File("ingestion", Unmarked, 8, 6, acme, FALSE),
            File("ingestion", Unmarked, 0, 1, Unowned, FALSE),
            File("ingestion", "registry", 1, 2, acme, FALSE),
            File("registry", "registry", 0, 1, acme, FALSE),
            File("registry", "registry", 1, 2, acme, FALSE),
            File("registry", "registry", 2, 2, acme, FALSE),
            File("registry", Unmarked, 0, 1, acme, FALSE),
            File("registry", "ingestion", 8, 6, acme, FALSE),
            File("audit", "audit", 1, 1, acme, FALSE),
            File("audit", Unmarked, 0, 1, Unowned, FALSE)}

\* Publications of two cards: both in the first scope version; one of them moved
\* to the second, ungrounded, while the other's range no longer agrees; and the
\* first on the second version with the other gone.
MCReadyPlans ==
    LET Unit(s) == [scope |-> s, shape |-> "whole", grounded |-> TRUE]
    IN  {[c \in ReportCards |-> Unit(s1)],
         [c \in ReportCards |-> IF c = k1 THEN [Unit(s2) EXCEPT !.grounded = FALSE]
                                         ELSE [Unit(s1) EXCEPT !.shape = "other"]],
         [c \in ReportCards |-> IF c = k1 THEN Unit(s2) ELSE Unit(NoScope)]}

\* Words of headings: a plain one, one with a whole number, with a decimal behind
\* and in front, a number by itself and an identifier; a line break; and ids, one
\* of which happens to hold the digits of a decimal.
Word(stem, num) == [stem |-> stem, num |-> num, front |-> FALSE, kind |-> "plain"]
Id(stem, num) == [Word(stem, num) EXCEPT !.kind = "identifier"]
Refund == Word("refund", <<>>)
Release == Word("v", <<18, 2>>)
Lucky == Word("v", <<7, 2>>)
Days == [Word("days", <<3, 5>>) EXCEPT !.front = TRUE]
Thirty == Word("", <<30>>)
Table == Id("refund_policy", <<4>>)
Break == [Word("", <<>>) EXCEPT !.kind = "break"]

MCCoordinate == [source |-> Id("src", <<>>), document |-> Id("doc", <<7>>), unit |-> Id("unit", <<2>>)]
MCScope == [id |-> Id("scope", <<>>), source |-> MCCoordinate.source,
            document |-> MCCoordinate.document, units |-> {}]
MCScopes == {{}, {MCScope}, {[MCScope EXCEPT !.units = {MCCoordinate.unit}]},
             {[MCScope EXCEPT !.units = {Id("unit", <<9>>)}]},
             {[MCScope EXCEPT !.document = Id("doc", <<5>>)]},
             {MCScope, [MCScope EXCEPT !.units = {MCCoordinate.unit}]}}
Headings == {<<Refund>>, <<Release>>, <<Lucky, Refund>>, <<Days>>, <<Thirty, Refund>>, <<Table>>,
             <<Refund, Refund, Refund>>, <<Refund, Break, Thirty>>}
Fact(name, values) == {[n \in {name} |-> v] : v \in values} \cup {[n \in {} |-> <<>>]}
MCUnitRequests ==
    {[coordinate |-> MCCoordinate, scopes |-> scopes, facts |-> label @@ title @@ other] :
       scopes \in MCScopes,
       label \in Fact("section.label", {<<t>> : t \in Headings}),
       title \in Fact("document.title", {<<t>> : t \in Headings}),
       other \in Fact("section.path", {<<<<Refund>>, <<Release>>>>, <<<<>>, <<Table>>>>})
                  \cup Fact("keywords.derived", {<<<<Word("money", <<>>)>>, <<Days>>>>})}

\* Expressions that restate, and that alter or invent a value.
MCModelAnswers ==
    {[description |-> d, questions |-> q, aliases |-> <<>>, keywords |-> <<>>] :
       d \in {<<>>, <<Refund, Thirty>>, <<Word("v", <<18, 3>>)>>, <<Table, Break, Refund>>, <<Break>>},
       q \in {<<>>, <<<<>>>>, <<<<Refund>>>>, <<<<Refund>>, <<Release>>>>, <<<<Id("doc", <<5>>)>>>>}}

AssetsAtRest == pointer = NoRevision /\ revisions = [r \in Revisions |-> NoDirectory]
NoDatabase == file = File("audit", Unmarked, 0, 0, Unowned, FALSE)
NothingRestored == target = [c \in Collections |-> Absent]

OthersAtRest(running) ==
    /\ running # "assets" => AssetsAtRest
    /\ running # "databases" => NoDatabase
    /\ running # "backup" => NothingRestored

Init ==
    /\ part \in {"backup", "assets", "retention", "databases", "report", "grounding"}
    /\ BackupInit /\ AssetInit /\ RetentionInit /\ DatabaseInit /\ ReachInit
    /\ OthersAtRest(part)
    /\ IF part = "grounding" THEN GroundingInit ELSE claim = [pc |-> "none"]

Backup == BackupNext /\ UNCHANGED <<assetVars, retentionVars, databaseVars, reachVars, claim>>
Assets == AssetNext /\ UNCHANGED <<stateVars, retentionVars, databaseVars, reachVars, claim>>
Retention == RetentionNext /\ UNCHANGED <<stateVars, assetVars, databaseVars, reachVars, claim>>
Databases == DatabaseNext /\ UNCHANGED <<stateVars, assetVars, retentionVars, reachVars, claim>>
Report == ReachNext /\ UNCHANGED <<stateVars, assetVars, retentionVars, databaseVars, claim>>
Grounding == GroundingNext /\ UNCHANGED <<stateVars, assetVars, retentionVars, databaseVars, reachVars>>

Next ==
    /\ UNCHANGED part
    /\ \/ part = "backup" /\ Backup
       \/ part = "assets" /\ Assets
       \/ part = "retention" /\ Retention
       \/ part = "databases" /\ Databases
       \/ part = "report" /\ Report
       \/ part = "grounding" /\ Grounding

Spec == Init /\ [][Next]_operatorVars

\* The report by itself.
ReportSpec == Init /\ part = "report" /\ [][Next]_operatorVars
=============================================================================
