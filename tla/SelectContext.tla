--------------------------- MODULE SelectContext ----------------------------
(* One query from its words to its answer: selectContext.ts, with the index  *)
(* of card embeddings, the set planner and the audit record, and             *)
(* assembleContext on the reads that come back. Every step is what the code  *)
(* does next; inputs (the catalog, the query, similarities, reads) are       *)
(* chosen when the code first looks at them.                                 *)
EXTENDS ContextAssembly

CONSTANTS
    Catalogs,         \* sequences of cards a registry may serve
    Queries,          \* sequences of words and marks
    Contexts,         \* policy contexts
    Bm25Values,       \* places of BM25 among the thresholds
    NgramValues,
    Similarities,     \* places of a similarity among the thresholds
    FacetScores,      \* lexical scores a card may have for a facet
    SemanticTopK,
    OversizeCards,    \* ids of cards beyond the admission limit of the profile
    LongQueries,      \* queries beyond it
    Reads             \* what a managed read may bring: records [status, chunks]

(* A catalog: numbered cards, each of which reads something; references are  *)
(* numbered in the code's order of their names; a field has words; a         *)
(* definition is the whole guide, so that together with the reference it is  *)
(* the scope; the ratios are tabled for as many cards.                       *)
ASSUME CatalogAssumption ==
    \A catalog \in Catalogs :
        /\ IsFiniteSet(DOMAIN catalog) /\ DOMAIN catalog \subseteq Nat
        /\ \A i \in DOMAIN catalog :
              /\ catalog[i].scopes # {} /\ IsFiniteSet(catalog[i].scopes)
              /\ \A s \in catalog[i].scopes : s.bytes \in Nat /\ s.ref \in Nat
              /\ \A f \in catalog[i].fields : DOMAIN f.tokens # {}
        /\ \A s, t \in ScopesOf(DOMAIN catalog, catalog) : s.ref = t.ref /\ s.def = t.def => s = t
        /\ \A n \in 2..Cardinality(DOMAIN catalog) :
              n \in DOMAIN LogRatio /\ 1..n \subseteq DOMAIN LogRatio[n]

ASSUME ValuesAssumption ==
    /\ Bm25Values \subseteq Nat /\ NgramValues \subseteq Nat
    /\ Similarities \subseteq Nat /\ FacetScores \subseteq Nat
    /\ SemanticTopK \in Nat

(* A read brings a sequence of chunks, revisions numbered like references. *)
ASSUME ReadsAssumption ==
    \A r \in Reads :
        /\ Len(r.chunks) \in Nat /\ DOMAIN r.chunks = 1..Len(r.chunks)
        /\ \A k \in DOMAIN r.chunks :
              {r.chunks[k].rank, r.chunks[k].rev} \subseteq Nat /\ r.chunks[k].text \in DOMAIN TextLength

VARIABLES
    selPhase,   \* the next step of selectContext, or how it ended
    query,
    cards,      \* id -> card of the catalog served
    eligible,   \* ids the policy lets through
    lexical,    \* id -> lexical score
    mode,       \* hybrid or lexical_degraded
    weak,       \* ids whose lexical score is below the admit threshold
    outcomes,   \* verdicts in rank order
    supports,   \* id -> facet -> support, of the admitted cards
    selected,   \* the cards the set planner still keeps
    cost,       \* the cost it has computed for them
    plan,
    record,     \* the audit record
    answer      \* target -> item of the answer

selVars == <<selPhase, query, cards, eligible, lexical, mode, weak, outcomes,
             supports, selected, cost, plan, record, answer>>

None == [none |-> TRUE]

SelInit ==
    /\ selPhase = "asked"
    /\ query \in Queries
    /\ cards = << >> /\ eligible = {} /\ lexical = << >>
    /\ mode = "none" /\ weak = {} /\ outcomes = << >>
    /\ supports = << >> /\ selected = {} /\ cost = None
    /\ plan = None /\ record = None /\ answer = << >>

Ids == DOMAIN cards
CardSet == {cards[i] : i \in Ids}
EligibleCards == {cards[i] : i \in eligible}

(* An empty query ends here; otherwise the catalog is read and the policy    *)
(* applied. A card whose policy cannot be read fails the whole request.      *)
RefuseEmpty ==
    /\ selPhase = "asked" /\ query = << >>
    /\ selPhase' = "refused"
    /\ UNCHANGED <<query, cards, eligible, lexical, mode, weak, outcomes, supports, selected, cost, plan, record, answer>>

ListCards ==
    /\ selPhase = "asked" /\ query # << >>
    /\ \E catalog \in Catalogs, context \in Contexts :
          /\ cards' = catalog
          /\ IF \A i \in DOMAIN catalog : PolicyReadable(catalog[i])
             THEN /\ eligible' = {i \in DOMAIN catalog : ExclusionReason(catalog[i], context) = "none"}
                  /\ selPhase' = "listed"
             ELSE /\ eligible' = {}
                  /\ selPhase' = "refused"
    /\ UNCHANGED <<query, lexical, mode, weak, outcomes, supports, selected, cost, plan, record, answer>>

QueryTokens == Tokenize(WordsOf(query))

ScoreLexically ==
    /\ selPhase = "listed"
    /\ \E bm25 \in [eligible -> Bm25Values], ngram \in [eligible -> NgramValues] :
          /\ \A i \in eligible : Bm25Possible(QueryTokens, cards[i], bm25[i])
          /\ lexical' = [i \in eligible |-> ScoreCard(QueryTokens, cards[i], EligibleCards, bm25[i], ngram[i])]
    /\ selPhase' = "scored"
    /\ UNCHANGED <<query, cards, eligible, mode, weak, outcomes, supports, selected, cost, plan, record, answer>>

(* The verdicts on the scores, and what is kept of the lexical ones. *)
Judge(scores, newMode) ==
    /\ outcomes' = JudgeCandidates(eligible, scores)
    /\ mode' = newMode
    /\ weak' = {i \in eligible : lexical[i] < AdmitThreshold}
    /\ lexical' = << >>
    /\ selPhase' = "judged"
    /\ UNCHANGED <<query, cards, eligible, supports, selected, cost, plan, record, answer>>

Fail ==
    /\ selPhase' = "failed"
    /\ lexical' = << >>
    /\ UNCHANGED <<query, cards, eligible, mode, weak, outcomes, supports, selected, cost, plan, record, answer>>

(* No provider, no catalog, an index that does not cover it, a provider that *)
(* fails: the lexical order serves, unless the deployment forbids it.        *)
ScoreDegraded ==
    /\ selPhase = "scored"
    /\ Judge(lexical, "lexical_degraded") \/ Fail

(* The input limits are refusals, never a reason to degrade. *)
ScoreRefused ==
    /\ selPhase = "scored" /\ eligible # {}
    /\ Ids \cap OversizeCards # {} \/ query \in LongQueries
    /\ selPhase' = "refused"
    /\ lexical' = << >>
    /\ UNCHANGED <<query, cards, eligible, mode, weak, outcomes, supports, selected, cost, plan, record, answer>>

(* The index covers every card of the catalog; only eligible ones rank. *)
ScoreHybrid ==
    /\ selPhase = "scored" /\ Ids # {}
    /\ eligible # {} => Ids \cap OversizeCards = {} /\ query \notin LongQueries
    /\ \E similarity \in [eligible -> Similarities] :
          Judge(RankHybrid(eligible, lexical, similarity, SemanticTopK), "hybrid")

Facets == ExtractQueryFacets(query)
Strong == AdmittedIn(outcomes)
Baseline == CoverageForCards(Strong, supports, Facets)
Spared == ProtectedCandidates(Strong, weak, mode, AmbiguousQuery(query), cards, supports, Facets)

(* planMinimumSufficientCardSet begins with all admitted cards. Scopes with  *)
(* two definitions stop it here.                                             *)
BeginSetPlan ==
    /\ selPhase = "judged"
    /\ IF DefinedOnce(Strong, cards)
       THEN /\ \E score \in [Strong -> [Facets -> FacetScores]] :
                  supports' = [i \in Strong |-> SupportOf(cards[i], Facets, score[i])]
            /\ selected' = Strong
            /\ cost' = MeasurePlanCost(Strong, cards)
            /\ selPhase' = "planning"
       ELSE selPhase' = "failed" /\ UNCHANGED <<supports, selected, cost>>
    /\ UNCHANGED <<query, cards, eligible, lexical, mode, weak, outcomes, plan, record, answer>>

RemovableCards ==
    IF AmbiguousQuery(query) \/ Cardinality(selected) <= 1 THEN {}
    ELSE {i \in selected : Removable(i, selected, cost, Spared, cards, supports, Facets, Baseline)}

RemoveCard ==
    /\ selPhase = "planning" /\ RemovableCards # {}
    /\ LET i == ChosenForRemoval(RemovableCards, selected, cards, outcomes)
       IN /\ cost' = SubtractPlanCost(cost, RemovalSavings(i, selected, cards))
          /\ selected' = selected \ {i}
    /\ UNCHANGED <<selPhase, query, cards, eligible, lexical, mode, weak, outcomes, supports, plan, record, answer>>

PlanOf ==
    LET items == PlanItems(selected, cards)
    IN [items |-> items, targets |-> PlanTargets(DOMAIN items),
        outcomes |-> ApplySetPlanningDecision(outcomes, selected),
        excluded |-> Ids \ eligible,
        decisions |-> DecisionsFor(Strong, selected, Spared, cards, supports, Facets, Baseline),
        removals |-> Cardinality(Strong) - Cardinality(selected),
        costBefore |-> MeasurePlanCost(Strong, cards), costAfter |-> cost]

(* The rest of selectContext: apply the set plan, refuse a plan beyond the   *)
(* limits, check it, and record it. A plan or a record that does not pass    *)
(* the code's own checks ends in "broken".                                   *)
FinishPlan ==
    /\ selPhase = "planning" /\ RemovableCards = {}
    /\ IF PlanningLimitViolated(selected, PlanItems(selected, cards))
       THEN selPhase' = "refused" /\ UNCHANGED <<plan, record>>
       ELSE /\ plan' = PlanOf
            /\ record' = SelectionAuditRecord(PlanOf)
            /\ selPhase' = IF /\ MayApplySetPlan(outcomes, selected)
                              /\ VerifySelectionPlan(PlanOf)
                              /\ RecordHolds(SelectionAuditRecord(PlanOf))
                           THEN "reading" ELSE "broken"
    /\ UNCHANGED <<query, cards, eligible, lexical, mode, weak, outcomes, supports, selected, cost, answer>>

(* Only the targets matter from here on: what led to the plan is dropped. *)
HandOver ==
    /\ selPhase = "reading"
    /\ selPhase' = "handed"
    /\ plan' = [targets |-> {t.ref : t \in plan.targets}]
    /\ query' = << >> /\ cards' = << >> /\ eligible' = {} /\ mode' = "none" /\ weak' = {}
    /\ outcomes' = << >> /\ supports' = << >> /\ selected' = {} /\ cost' = None /\ record' = None
    /\ UNCHANGED <<lexical, answer>>

(* Reads come back for any of the targets; budgets are the configured one    *)
(* or a smaller one of the request.                                          *)
ReadSets(targets) ==
    LET order == Increasing(targets)
    IN {[i \in DOMAIN order |-> [target |-> order[i], status |-> r[i].status, chunks |-> r[i].chunks]] :
           r \in [DOMAIN order -> Reads]}

Assemble ==
    /\ selPhase = "handed"
    /\ \E reads \in ReadSets(plan.targets), dropped \in {0, 1}, requested \in {1, MaxCharacters} :
          LET given == SubSeq(reads, 1, Len(reads) - dropped)
          IN /\ dropped <= Len(reads)
             /\ ReadsIndexable(given, plan.targets)
             /\ ~BudgetRefused(requested)
             /\ plan' = [targets |-> plan.targets, reads |-> given, characters |-> requested]
             /\ answer' = AssembleContext(plan.targets, given, ChunkLimit, requested)
    /\ selPhase' = "answered"
    /\ UNCHANGED <<query, cards, eligible, lexical, mode, weak, outcomes, supports, selected, cost, record>>

SelNext ==
    \/ RefuseEmpty \/ ListCards \/ ScoreLexically \/ ScoreDegraded \/ ScoreRefused \/ ScoreHybrid
    \/ BeginSetPlan \/ RemoveCard \/ FinishPlan \/ HandOver \/ Assemble

SelSpec == SelInit /\ [][SelNext]_selVars

-----------------------------------------------------------------------------
(* The planner keeps a running cost and takes cards out one by one; the code *)
(* then measures the final plan again, rechecks every item, target, decision *)
(* and count, and refuses the request when the two disagree. They never do:  *)
(* verifySelectionPlan, applySetPlanningDecision and                         *)
(* assertSelectionAuditRecord accept every plan that selectContext builds.   *)
NeverRefusesItself == selPhase # "broken"

(* What the planner took out is not missed: the cards that stay support      *)
(* every facet as well as all admitted cards together did (score, words and  *)
(* source kinds), a card that ranks by similarity alone is not taken out,    *)
(* and the reads never cost more.                                            *)
NothingLost ==
    selPhase = "reading" =>
        /\ \A f \in Facets, i \in Strong :
              LET by(w) == \E j \in selected : w \in supports[j][f].tokens \cup supports[j][f].kinds
              IN /\ \E j \in selected : supports[j][f].score >= supports[i][f].score
                 /\ \A w \in supports[i][f].tokens \cup supports[i][f].kinds : by(w)
        /\ \A i \in Strong \ selected : mode = "hybrid" => i \notin weak
        /\ ~ExecutionLess(MeasurePlanCost(Strong, cards), MeasurePlanCost(selected, cards))

(* Word statistics never admit a card, and similarity admits at most the one *)
(* that leads: any other admitted card holds a declared word of the query,   *)
(* and without the semantic index every admitted card does.                  *)
AdmittedForAReason ==
    selPhase = "judged" =>
        Cardinality({i \in Strong : Matches(QueryTokens, cards[i], EligibleCards) = {}})
            <= (IF mode = "hybrid" THEN 1 ELSE 0)

Returned(k) == plan.reads[k].chunks
AnsweredChunks == UNION {answer[t].chunks : t \in DOMAIN answer}

(* The answer is one context, however many reads it came from: no revision   *)
(* and no content twice, ranks without gaps, nothing beyond the budget, no   *)
(* two texts under one digest; and every chunk a believed read returned is   *)
(* either in the answer or accounted for in the item that read it.           *)
AnswerIsOneContext ==
    selPhase = "answered" =>
        /\ \A c, d \in AnsweredChunks : c.rev = d.rev \/ c.digest = d.digest \/ c.contextRank = d.contextRank => c = d
        /\ {c.contextRank : c \in AnsweredChunks} = 1..Cardinality(AnsweredChunks)
        /\ Cardinality(AnsweredChunks) <= MaxChunks
        /\ SumFunction([c \in AnsweredChunks |-> TextLength[c.text]]) <= plan.characters
        /\ \A k \in DOMAIN plan.reads :
              LET item == answer[plan.reads[k].target]
              IN item.status = "fulfilled" =>
                    Cardinality(item.chunks) + Cardinality(item.omitted) = Len(Returned(k))
        /\ \A t \in DOMAIN answer : answer[t].status = "fulfilled" => \A u \in DOMAIN answer :
              answer[u].status = "fulfilled" =>
                 \A j, k \in DOMAIN plan.reads :
                    plan.reads[j].target = t /\ plan.reads[k].target = u =>
                       \A a \in ToSet(Returned(j)), b \in ToSet(Returned(k)) :
                          a.digest = b.digest => a.text = b.text
=============================================================================
