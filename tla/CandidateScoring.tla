-------------------------- MODULE CandidateScoring --------------------------
(* How a query ranks the approved cards: the policy filter, the lexical      *)
(* score with its caps and floors, the semantic leader and the verdicts.     *)
(* Pure operators of selection-delivery's domain: policy-context.ts,         *)
(* query-scoring.ts, card-candidate-index.ts, hybrid-ranking.ts and          *)
(* selection-verdict.ts.                                                     *)
(*                                                                           *)
(* A card is [id, policy, fields, scopes]; ids are numbers in the order the  *)
(* code gives version ids. A field is [field, tokens, opaque]. Scores are    *)
(* hundredths. BM25 and n-gram similarity are inputs: functions of the card  *)
(* whose only use here is their place among the thresholds.                  *)
EXTENDS Integers, Sequences, FiniteSets, SequencesExt, FiniteSetsExt

CONSTANTS
    StopWords,        \* words that are no tokens
    StemOf,           \* word -> the token left of it when its suffix is cut
    StartsWith,       \* pairs <<token, declared>>: token begins with declared
    ShortWords,       \* tokens of at most two characters
    IntentsOf,        \* token -> the source kinds it names
    LogRatio,         \* cards n -> frequency f -> log(1 + n / f) / log(1 + n) in hundredths
    BroadVocabulary   \* declared tokens above which a card counts as broad (24)

ASSUME ScoringAssumption ==
    /\ BroadVocabulary \in Nat
    /\ \A n \in DOMAIN LogRatio : \A f \in DOMAIN LogRatio[n] : LogRatio[n][f] \in 0..100

AdmitThreshold == 85
RejectThreshold == 35

(***************************************************************************)
(* policy-context.ts                                                       *)
(***************************************************************************)
PolicyReadable(card) == card.policy.allowedUsage # {}

ExclusionReason(card, context) ==
    CASE context.usage \notin card.policy.allowedUsage -> "usage_not_allowed"
      [] /\ context.usage \in card.policy.allowedUsage
         /\ card.policy.sensitive /\ context.sensitiveAccess # "allow" -> "sensitive_denied"
      [] OTHER -> "none"

Eligible(cards, context) == {c \in cards : ExclusionReason(c, context) = "none"}


(***************************************************************************)
(* query-scoring.ts                                                        *)
(***************************************************************************)
Tokenize(words) ==
    SelectSeq([i \in DOMAIN words |-> StemOf[words[i]]], LAMBDA w : w \notin StopWords)

InferSourceIntents(q) == UNION {IntentsOf[q[i]] : i \in DOMAIN q}

Declared(f) == f.field \in {"keyword", "alias"}

QueryContainsDeclared(q, t) ==
    \E i \in DOMAIN q : q[i] = t \/ <<q[i], t>> \in StartsWith

WhollyMatched(q, f) == \A i \in DOMAIN f.tokens : QueryContainsDeclared(q, f.tokens[i])

CardTokens(card) == UNION {ToSet(f.tokens) : f \in card.fields}

CardContains(card, w) ==
    w \in CardTokens(card) \/ \E t \in CardTokens(card) : <<w, t>> \in StartsWith

HumanDeclared(card) == {f \in card.fields : Declared(f) /\ ~f.opaque}

VocabularySize(card) == Cardinality(UNION {ToSet(f.tokens) : f \in HumanDeclared(card)})

HumanAliases(card) == Cardinality({f \in HumanDeclared(card) : f.field = "alias"})

BroadGenerated(card) == VocabularySize(card) > BroadVocabulary /\ HumanAliases(card) >= 2

MatchedDeclaredCount(q, card) ==
    Cardinality(UNION {ToSet(f.tokens) : f \in {g \in HumanDeclared(card) : WhollyMatched(q, g)}})

(* The one broad card that matches most declared tokens, at least three. *)
StrongLeaders(q, cards) ==
    LET broad == {c \in cards : BroadGenerated(c)}
        top == {c \in broad : \A d \in broad : MatchedDeclaredCount(q, c) >= MatchedDeclaredCount(q, d)}
    IN IF Cardinality(top) = 1 THEN {c \in top : MatchedDeclaredCount(q, c) >= 3} ELSE {}

ScoringCards(q, cards) == {c \in cards : \E i \in DOMAIN q : CardContains(c, q[i])}

DocumentFrequency(t, q, cards) ==
    Cardinality({c \in ScoringCards(q, cards) : t \in CardTokens(c)})

DeclaredFrequency(t, kinds, q, cards) ==
    Cardinality({c \in ScoringCards(q, cards) :
        \E f \in c.fields : f.field \in kinds /\ t \in ToSet(f.tokens) /\ QueryContainsDeclared(q, t)})

DeclaredSpecificity(n, f) ==
    LET shared == IF f < 1 THEN 1 ELSE f
    IN IF n <= 1 THEN 100 ELSE LogRatio[n][shared]

Matches(q, card, cards) ==
    LET n == Cardinality(ScoringCards(q, cards))
        scopes == {f \in card.fields : f.field = "scope"}
        wholly == {f \in card.fields : Declared(f) /\ WhollyMatched(q, f)}
        frequency(f, t) ==
            DeclaredFrequency(t, IF f.field = "alias" THEN {"alias"} ELSE {"keyword", "alias"}, q, cards)
    IN {[field |-> "coordinate", tokens |-> q, specificity |-> 100] :
            f \in {g \in scopes : g.tokens = q}}
       \cup {[field |-> "scope", tokens |-> <<t>>,
              specificity |-> DeclaredSpecificity(n, DocumentFrequency(t, q, cards))] :
            t \in UNION {ToSet(f.tokens) \cap ToSet(q) : f \in {g \in scopes : g.tokens # q}}}
       \cup {[field |-> f.field, tokens |-> f.tokens,
              specificity |-> Max({DeclaredSpecificity(n, frequency(f, f.tokens[i])) : i \in DOMAIN f.tokens})] :
            f \in wholly}

HasContiguous(q, f, length) ==
    \E i \in 1..Len(q) - length + 1, j \in 1..Len(f.tokens) - length + 1 :
        SubSeq(q, i, i + length - 1) = SubSeq(f.tokens, j, j + length - 1)

IsLeadingAliasToken(t, card) ==
    \E f \in card.fields : f.field = "alias" /\ Len(f.tokens) >= 2 /\ f.tokens[1] = t

(* What the declared vocabulary of a card is worth for the query: a score   *)
(* capped below the admit threshold unless the match is corroborated.       *)
DirectContribution(q, card, cards, bm25) ==
    LET matched == Matches(q, card, cards)
        count == Cardinality(matched)
        strongest == Max({m.specificity : m \in matched})
        overlap == Cardinality({w \in ToSet(q) : CardContains(card, w)})
        phrase == \E f \in card.fields : HasContiguous(q, f, 3)
        leader == card \in StrongLeaders(q, cards)
        raw == 42 + (40 * strongest) \div 100 + 9 * (IF count >= 2 THEN 2 ELSE 1)
        weakSingleTerm ==
            /\ count = 1
            /\ \E m \in matched :
                   /\ Len(m.tokens) = 1
                   /\ m.tokens[1] \in ShortWords
                   /\ ~IsLeadingAliasToken(m.tokens[1], card)
            /\ overlap < 3 /\ ~phrase
        multiTokenAlias == \E m \in matched : m.field = "alias" /\ Len(m.tokens) >= 2
        concise == VocabularySize(card) <= BroadVocabulary /\ HumanAliases(card) >= 2
        supported ==
            /\ count >= 2
            /\ \/ bm25 >= 60
               \/ concise /\ overlap >= 2 /\ bm25 >= 54
               \/ concise /\ count >= 3 /\ overlap >= 3
        distinctiveAlias ==
            /\ \E m \in matched : m.field = "alias" /\ m.specificity >= 90
            /\ supported /\ overlap >= 3
        intentConflict ==
            /\ InferSourceIntents(q) # {}
            /\ \A s \in card.scopes : s.kind \notin InferSourceIntents(q)
        commonTerms ==
            strongest < 85 /\ overlap < 3 /\ ~phrase /\ ~multiTokenAlias /\ ~supported
        corroborated ==
            \/ leader \/ multiTokenAlias \/ distinctiveAlias \/ phrase
            \/ concise /\ (strongest >= 90 \/ supported)
            \/ Cardinality(ScoringCards(q, cards)) = 1 /\ strongest >= 90
            \/ bm25 >= 86
            \/ strongest >= 90 /\ bm25 >= 84
    IN IF matched = {} THEN 0
       ELSE IF weakSingleTerm \/ commonTerms \/ ~corroborated \/ (intentConflict /\ strongest < 85)
       THEN Min({raw, 84})
       ELSE Max({raw, IF phrase \/ leader THEN 91 ELSE 0})

(* The mutant: word statistics alone may reach the admit threshold. *)
IndirectScoreUncapped(bm25, ngram) == (75 * bm25 + 25 * ngram) \div 100

IndirectScore(bm25, ngram) == Min({34, (75 * bm25 + 25 * ngram) \div 100})


ScoreCard(q, card, cards, bm25, ngram) ==
    IF q = << >> THEN 0
    ELSE Max({DirectContribution(q, card, cards, bm25), IndirectScore(bm25, ngram)})

(* BM25 is positive exactly when the card holds a token of the query. *)
Bm25Possible(q, card, bm25) == (bm25 > 0) <=> (ToSet(q) \cap CardTokens(card) # {})

(***************************************************************************)
(* card-candidate-index.ts and hybrid-ranking.ts                           *)
(***************************************************************************)
(* The members of a set in the order given by the pairs of "before": a       *)
(* member is preceded by as many as come before it.                          *)
Ordered(members, before) ==
    [k \in 1..Cardinality(members) |->
        CHOOSE x \in members : Cardinality({y \in members : <<y, x>> \in before}) = k - 1]

Increasing(numbers) == Ordered(numbers, {p \in numbers \X numbers : p[1] < p[2]})

(* Cards by descending value; ids settle ties. *)
RankedBy(ids, value) ==
    Ordered(ids, {p \in ids \X ids :
        value[p[1]] > value[p[2]] \/ (value[p[1]] = value[p[2]] /\ p[1] < p[2])})

TopK(ids, similarity, limit) ==
    LET all == RankedBy(ids, similarity)
    IN SubSeq(all, 1, Min({limit, Len(all)}))

SemanticScoreFor(similarity) == IF similarity <= 85 THEN 0 ELSE similarity

LexicalLeaders(ids, lexical) ==
    LET top == {i \in ids : lexical[i] > 0 /\ \A j \in ids : lexical[i] >= lexical[j]}
    IN IF Cardinality(top) = 1 THEN top ELSE {}

StrongestLexical(ids, lexical) == Max({0} \cup {lexical[i] : i \in ids})

ConfidentLeadingScore(score, similarity, runnerUp, strongest) ==
    IF \/ similarity >= 80 /\ similarity - runnerUp >= 3
       \/ similarity >= 90
       \/ /\ similarity > 85
          /\ score >= 80
          /\ ~(strongest >= 91 /\ strongest > score)
    THEN Max({SemanticScoreFor(similarity), 85})
    ELSE Min({SemanticScoreFor(similarity), 34})

SemanticScore(i, ids, lexical, similarity, top) ==
    LET read == i \in ToSet(top)
        raw == IF read THEN SemanticScoreFor(similarity[i]) ELSE 0
        runnerUp == IF Len(top) >= 2 THEN similarity[top[2]] ELSE 0
        agrees ==
            /\ i \in LexicalLeaders(ids, lexical)
            /\ lexical[i] \in 80..84
            /\ read
            /\ similarity[i] >= 82
            /\ similarity[top[1]] - similarity[i] <= 2
    IN CASE agrees -> Max({raw, 85})
         [] ~agrees /\ top # << >> /\ i = top[1] ->
                ConfidentLeadingScore(lexical[i], similarity[i], runnerUp, StrongestLexical(ids, lexical))
         [] OTHER -> Min({raw, 34})

RankHybrid(ids, lexical, similarity, limit) ==
    LET top == TopK(ids, similarity, limit)
    IN [i \in ids |-> Max({lexical[i], SemanticScore(i, ids, lexical, similarity, top)})]

(***************************************************************************)
(* selection-verdict.ts                                                    *)
(***************************************************************************)
VerdictOf(score) ==
    CASE score >= AdmitThreshold -> [verdict |-> "admit", rule |-> "none"]
      [] score <= RejectThreshold -> [verdict |-> "reject", rule |-> "score.at.or.below.reject"]
      [] OTHER -> [verdict |-> "defer", rule |-> "score.below.admit"]

(* The outcomes in rank order. *)
JudgeCandidates(ids, scores) ==
    LET ranked == RankedBy(ids, scores)
    IN [k \in DOMAIN ranked |->
           [card |-> ranked[k], score |-> scores[ranked[k]],
            verdict |-> VerdictOf(scores[ranked[k]]).verdict, rule |-> VerdictOf(scores[ranked[k]]).rule]]

AdmittedIn(outcomes) == {outcomes[k].card : k \in {n \in DOMAIN outcomes : outcomes[n].verdict = "admit"}}

(* A set plan may take out admitted cards, never all of them. *)
MayApplySetPlan(outcomes, selected) ==
    /\ selected \subseteq AdmittedIn(outcomes)
    /\ AdmittedIn(outcomes) # {} => selected # {}

ApplySetPlanningDecision(outcomes, selected) ==
    [k \in DOMAIN outcomes |->
        IF outcomes[k].verdict = "admit" /\ outcomes[k].card \notin selected
        THEN [outcomes[k] EXCEPT !.verdict = "defer", !.rule = "plan.covered_by_selected_set"]
        ELSE outcomes[k]]
=============================================================================
