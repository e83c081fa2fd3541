------------------------- MODULE SelectionPlanning --------------------------
(* From the admitted cards to the reads of a query: facets, what each card   *)
(* supports, the plan of scopes with its cost, the removal of cards that add *)
(* nothing, and the checks the code makes of its own plan and audit record.  *)
(* Pure operators of selection-delivery's domain: query-facet.ts,            *)
(* query-facet-support.ts, selection-plan.ts, minimum-set-plan-cost.ts,      *)
(* minimum-sufficient-set.ts and selection-audit.ts.                         *)
(*                                                                           *)
(* A query is a sequence of words and of the marks "sep" (; , ? ! newline),  *)
(* "and" (a coordinator), "quote" and "escape". A scope of a card is         *)
(* [ref, kind, def, bytes]; cards is a function from ids to cards.           *)
EXTENDS CandidateScoring

CONSTANTS
    Marks,        \* the symbols of a query that are no words
    FacetLimit,   \* parts above which a query is not split (4)
    ChunkLimit,   \* chunks asked of a managed scope (8)
    MaxCards,     \* limits of a plan
    MaxItems,
    MaxTargets,
    MaxSelectedBy,
    MaxGuideBytes,
    DetailLimit   \* candidates a record details (128 in the code)

ASSUME PlanningAssumption ==
    {FacetLimit, ChunkLimit, MaxCards, MaxItems, MaxTargets, MaxSelectedBy, MaxGuideBytes, DetailLimit}
        \subseteq Nat \ {0}

(***************************************************************************)
(* query-facet.ts                                                          *)
(***************************************************************************)
(* One symbol of the query after another: the quote that is open, whether   *)
(* the next symbol is escaped, the parts read so far.                        *)
ReadSymbol(state, symbol) ==
    LET kept == [state EXCEPT !.parts[Len(state.parts)] = Append(@, symbol)]
    IN CASE state.escaped -> [kept EXCEPT !.escaped = FALSE]
         [] ~state.escaped /\ symbol = "escape" /\ state.quoted -> [kept EXCEPT !.escaped = TRUE]
         [] ~state.escaped /\ symbol = "quote" -> [kept EXCEPT !.quoted = ~@]
         [] ~state.escaped /\ symbol \in {"sep", "and"} /\ ~state.quoted ->
                [state EXCEPT !.parts = Append(@, << >>)]
         [] OTHER -> kept

SplitQuery(query) ==
    FoldLeft(ReadSymbol, [parts |-> << << >> >>, quoted |-> FALSE, escaped |-> FALSE], query)

WordsOf(symbols) == SelectSeq(symbols, LAMBDA s : s \notin Marks)

PartsOf(query) ==
    LET tokens == [i \in DOMAIN SplitQuery(query).parts |-> Tokenize(WordsOf(SplitQuery(query).parts[i]))]
    IN SelectSeq(tokens, LAMBDA p : p # << >>)

AmbiguousQuery(query) ==
    \/ SplitQuery(query).quoted \/ SplitQuery(query).escaped
    \/ Len(PartsOf(query)) > FacetLimit

(* Several distinct parts are facets of their own; otherwise the query is one. *)
ExtractQueryFacets(query) ==
    IF AmbiguousQuery(query) \/ Cardinality(ToSet(PartsOf(query))) <= 1
    THEN {Tokenize(WordsOf(query))}
    ELSE ToSet(PartsOf(query))

(***************************************************************************)
(* query-facet-support.ts. The support of a card is a function from facets  *)
(* to [score, tokens, kinds].                                               *)
(***************************************************************************)
SupportedTokens(card, facet) == {t \in ToSet(facet) : CardContains(card, t)}

SupportOf(card, facets, score) ==
    [f \in facets |->
        [score |-> score[f], tokens |-> SupportedTokens(card, f),
         kinds |-> InferSourceIntents(f) \cap {s.kind : s \in card.scopes}]]

CoverageForCards(ids, supports, facets) ==
    [f \in facets |->
        [score |-> Max({0} \cup {supports[i][f].score : i \in ids}),
         tokens |-> UNION {supports[i][f].tokens : i \in ids},
         kinds |-> UNION {supports[i][f].kinds : i \in ids}]]

(* The mutant: coverage is counted facet by facet, whatever supports it. *)
PreservesFacetCoverageByScore(ids, supports, facets, baseline) ==
    \A f \in facets : CoverageForCards(ids, supports, facets)[f].score >= baseline[f].score

PreservesFacetCoverage(ids, supports, facets, baseline) ==
    LET next == CoverageForCards(ids, supports, facets)
    IN \A f \in facets :
          /\ next[f].score >= baseline[f].score
          /\ baseline[f].tokens \subseteq next[f].tokens
          /\ baseline[f].kinds \subseteq next[f].kinds


GuideKeys(card) == {<<s.ref, s.def>> : s \in card.scopes}

(* Two cards that support the same words by different reads: neither is     *)
(* known to replace the other.                                              *)
UnknownComplements(a, b, cards, supports, facets) ==
    /\ a # b
    /\ \/ \A f \in facets : supports[a][f].tokens = supports[b][f].tokens
       \/ /\ {s.kind : s \in cards[a].scopes} # {s.kind : s \in cards[b].scopes}
          /\ \E f \in facets : supports[a][f].tokens \cap supports[b][f].tokens # {}
    /\ GuideKeys(cards[a]) # GuideKeys(cards[b])

ProtectedCandidates(strong, weak, mode, ambiguous, cards, supports, facets) ==
    IF ambiguous THEN strong
    ELSE {a \in strong :
             \/ mode = "hybrid" /\ a \in weak
             \/ \E b \in strong : UnknownComplements(a, b, cards, supports, facets)}

(***************************************************************************)
(* selection-plan.ts                                                       *)
(***************************************************************************)
ScopesOf(ids, cards) == UNION {cards[i].scopes : i \in ids}

(* A scope reference stands for one definition in a plan. *)
DefinedOnce(ids, cards) ==
    \A s, t \in ScopesOf(ids, cards) : s.ref = t.ref => s.def = t.def

(* The items of a plan: a scope to read -> the cards it is read for. *)
PlanItems(ids, cards) ==
    [s \in ScopesOf(ids, cards) |-> {i \in ids : s \in cards[i].scopes}]

Managed(scopes) == {s \in scopes : s.kind = "managed_document"}

PlanTargets(scopes) == {[ref |-> s.ref, limit |-> ChunkLimit] : s \in Managed(scopes)}

BytesOf(scopes) == SumFunction([s \in scopes |-> s.bytes])
LimitsOf(targets) == SumFunction([t \in targets |-> t.limit])

SelectedByTotal(items) == SumFunction([s \in DOMAIN items |-> Cardinality(items[s])])

(* Every target asks for ChunkLimit chunks, the configured limit, which is    *)
(* refused at construction when it is above the ceiling chunksPerTarget.      *)
PlanningLimitViolated(admitted, items) ==
    \/ Cardinality(admitted) > MaxCards
    \/ Cardinality(DOMAIN items) > MaxItems
    \/ Cardinality(PlanTargets(DOMAIN items)) > MaxTargets
    \/ SelectedByTotal(items) > MaxSelectedBy
    \/ BytesOf(DOMAIN items) > MaxGuideBytes

(***************************************************************************)
(* minimum-set-plan-cost.ts                                                *)
(***************************************************************************)
CostOf(ids, items) ==
    [targets |-> Cardinality(PlanTargets(DOMAIN items)),
     chunks |-> LimitsOf(PlanTargets(DOMAIN items)),
     delegated |-> Cardinality(DOMAIN items \ Managed(DOMAIN items)),
     bytes |-> BytesOf(DOMAIN items),
     selectedBy |-> SumFunction([s \in DOMAIN items |-> Cardinality(items[s])]),
     cards |-> Cardinality(ids)]

MeasurePlanCost(ids, cards) == CostOf(ids, PlanItems(ids, cards))

(* The mutant: reads that another card also asks for count as saved. *)
RemovalSavingsShared(id, ids, cards) ==
    LET mine == cards[id].scopes
    IN [targets |-> Cardinality(PlanTargets(mine)),
        chunks |-> LimitsOf(PlanTargets(mine)),
        delegated |-> Cardinality(mine \ Managed(mine)),
        bytes |-> BytesOf(mine),
        selectedBy |-> Cardinality(mine),
        cards |-> 1]

(* What taking one card out saves, read off the plan of all of them. *)
RemovalSavings(id, ids, cards) ==
    LET items == PlanItems(ids, cards)
        only == {s \in DOMAIN items : items[s] = {id}}
        targets == {t \in PlanTargets(only) :
                       Cardinality({s \in Managed(DOMAIN items) : s.ref = t.ref}) = 1}
    IN [targets |-> Cardinality(targets),
        chunks |-> LimitsOf(targets),
        delegated |-> Cardinality(only \ Managed(only)),
        bytes |-> BytesOf(only),
        selectedBy |-> Cardinality({s \in DOMAIN items : id \in items[s]}),
        cards |-> 1]


SubtractPlanCost(before, savings) == [k \in DOMAIN before |-> before[k] - savings[k]]

ExecutionKeys == <<"targets", "chunks", "delegated", "bytes">>

ExecutionLess(a, b) ==
    \E k \in DOMAIN ExecutionKeys :
        /\ a[ExecutionKeys[k]] < b[ExecutionKeys[k]]
        /\ \A j \in 1..k - 1 : a[ExecutionKeys[j]] = b[ExecutionKeys[j]]

(***************************************************************************)
(* minimum-sufficient-set.ts                                               *)
(***************************************************************************)
Removable(id, selected, cost, kept, cards, supports, facets, baseline) ==
    /\ id \in selected \ kept
    /\ PreservesFacetCoverage(selected \ {id}, supports, facets, baseline)
    /\ ExecutionLess(SubtractPlanCost(cost, RemovalSavings(id, selected, cards)), cost)

(* The largest saving first, then the card ranked last. *)
ChosenForRemoval(candidates, selected, cards, outcomes) ==
    LET saving(i) == RemovalSavings(i, selected, cards)
        place(i) == CHOOSE k \in DOMAIN outcomes : outcomes[k].card = i
    IN CHOOSE i \in candidates : \A j \in candidates \ {i} :
          \/ ExecutionLess(saving(j), saving(i))
          \/ ~ExecutionLess(saving(i), saving(j)) /\ place(i) > place(j)

(* The reason recorded for a card that stays. *)
SelectedReason(id, selected, cards, supports, facets, baseline) ==
    LET without == selected \ {id}
        next == CoverageForCards(without, supports, facets)
    IN CASE /\ PreservesFacetCoverage(without, supports, facets, baseline)
            /\ ~ExecutionLess(MeasurePlanCost(without, cards), MeasurePlanCost(selected, cards))
              -> "no_execution_saving"
         [] \E f \in facets : ~(baseline[f].kinds \subseteq next[f].kinds) -> "explicit_source_intent"
         [] OTHER -> "unique_facet_support"

ReplacementCards(id, selected, supports, facets) ==
    {s \in selected : \E f \in facets :
        /\ supports[s][f].score >= supports[id][f].score
        /\ supports[id][f].tokens \subseteq supports[s][f].tokens
        /\ supports[id][f].kinds \subseteq supports[s][f].kinds}

DecisionsFor(strong, selected, kept, cards, supports, facets, baseline) ==
    {[card |-> i,
      decision |-> IF i \notin selected THEN "not_planned" ELSE IF i \in kept THEN "protected" ELSE "selected",
      reason |-> IF i \notin selected THEN "covered_by_selected_set"
                 ELSE IF i \in kept THEN "protected"
                 ELSE SelectedReason(i, selected, cards, supports, facets, baseline),
      replacements |-> IF i \in selected THEN {} ELSE ReplacementCards(i, selected, supports, facets)]
        : i \in strong}

(***************************************************************************)
(* verifySelectionPlan and verifySetPlanningAudit: what the code checks of  *)
(* a plan before it answers from it.                                        *)
(***************************************************************************)
ItemsHold(plan) ==
    LET scopes == DOMAIN plan.items
    IN /\ \A s, t \in scopes : s.ref = t.ref => s.def = t.def
       /\ \A s \in scopes : plan.items[s] # {}
       /\ \A s \in Managed(scopes) : [ref |-> s.ref, limit |-> ChunkLimit] \in plan.targets
       /\ \A t \in plan.targets : \E s \in Managed(scopes) : s.ref = t.ref

SetPlanHolds(plan, admitted) ==
    /\ \A d \in plan.decisions :
          IF d.decision = "not_planned"
          THEN \E k \in DOMAIN plan.outcomes :
                  /\ plan.outcomes[k].card = d.card
                  /\ plan.outcomes[k].verdict = "defer"
                  /\ plan.outcomes[k].rule = "plan.covered_by_selected_set"
          ELSE d.card \in admitted
    /\ \A a \in admitted : \E d \in plan.decisions : d.card = a /\ d.decision # "not_planned"
    /\ plan.removals = Cardinality({d \in plan.decisions : d.decision = "not_planned"})
    /\ plan.costBefore.cards = Cardinality(plan.decisions)
    /\ plan.costAfter = CostOf(admitted, plan.items)

PolicyHolds(plan) ==
    /\ \A k \in DOMAIN plan.outcomes : plan.outcomes[k].card \notin plan.excluded
    /\ \A s \in DOMAIN plan.items : plan.items[s] \cap plan.excluded = {}

VerifySelectionPlan(plan) ==
    LET admitted == AdmittedIn(plan.outcomes)
    IN /\ ItemsHold(plan)
       /\ UNION {plan.items[s] : s \in DOMAIN plan.items} = admitted
       /\ SetPlanHolds(plan, admitted)
       /\ PolicyHolds(plan)

(***************************************************************************)
(* selection-audit.ts                                                      *)
(***************************************************************************)
(* The candidates a record details: kept cards first, then by verdict.      *)
DetailedCards(plan) ==
    LET class == [admit |-> 1, defer |-> 2, reject |-> 3]
        earlier(j, k) ==
            LET cj == class[plan.outcomes[j].verdict]
                ck == class[plan.outcomes[k].verdict]
            IN cj < ck \/ (cj = ck /\ j < k)
        places == {k \in DOMAIN plan.outcomes :
                      Cardinality({j \in DOMAIN plan.outcomes : earlier(j, k)}) < DetailLimit}
    IN {plan.outcomes[k].card : k \in places}

CountOf(plan, v) == Cardinality({k \in DOMAIN plan.outcomes : plan.outcomes[k].verdict = v})

SelectionAuditRecord(plan) ==
    [evaluated |-> Len(plan.outcomes),
     detailed |-> DetailedCards(plan),
     omitted |-> Len(plan.outcomes) - Cardinality(DetailedCards(plan)),
     excluded |-> Cardinality(plan.excluded),
     exclusionsDetailed |-> Min({DetailLimit, Cardinality(plan.excluded)}),
     counts |-> [v \in {"admit", "defer", "reject"} |-> CountOf(plan, v)],
     decisions |-> {[card |-> plan.outcomes[k].card, verdict |-> plan.outcomes[k].verdict] :
                       k \in {n \in DOMAIN plan.outcomes : plan.outcomes[n].card \in DetailedCards(plan)}}]

RecordHolds(record) ==
    /\ record.omitted = record.evaluated - Cardinality(record.detailed) /\ record.omitted >= 0
    /\ Cardinality(record.detailed) <= DetailLimit
    /\ record.exclusionsDetailed <= record.excluded
    /\ Cardinality(record.decisions) = Cardinality(record.detailed)
    /\ record.counts["admit"] + record.counts["defer"] + record.counts["reject"] = record.evaluated
=============================================================================
