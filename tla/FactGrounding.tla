--------------------------- MODULE FactGrounding ----------------------------
(***************************************************************************)
(* How the expression of a card version comes about and is judged in       *)
(* toCardVersion (packages/registry-lifecycle/src/application/             *)
(* claim-publication.ts): a model writes what it likes, the rules of       *)
(* DeterministicCardMeaningGenerator restate the facts of the unit when    *)
(* there is no model or it fails, and groundCardVersion                    *)
(* (domain/fact-grounding.ts) accepts a text only if what is               *)
(* machine-readable in it is in the facts, the coordinate or the scopes.   *)
(*                                                                         *)
(* A text is a sequence of words.  A word has a stem, a number in front of *)
(* or behind it, <<18, 2>> for 18.2, and a kind; its length is one.  The   *)
(* separators a text is joined with are not words.  A line break, which a  *)
(* heading of two lines keeps, is a word of kind "break" without a length. *)
(* Only Markdown sources publish units, so a coordinate is a document's    *)
(* and its ids are digests of one length.                                  *)
(***************************************************************************)
EXTENDS Integers, FiniteSets, SequencesExt

CONSTANTS UnitRequests,     \* units to express: facts, coordinate and scopes
          ModelAnswers,     \* expressions a model may write
          PromptBudget,     \* words of a prompt that leave room for the answer
          DescriptionMax, QuestionMax, AliasMax, KeywordMax, NameMax,
          QuestionCount, AliasCount, KeywordCount, NameCount, ScopeCount

VARIABLES claim     \* the card version being made

Machine == {"identifier", "path", "method"}

WordsOf(text) == {text[i] : i \in DOMAIN text}

\* collapseWhitespace: a line break becomes a space.  A text is blank, and as
\* long, as what is then left of it.
Folded(text) == SelectSeq(text, LAMBDA w : w.kind # "break")
Size(text) == Len(Folded(text))
IsBlank(text) == Size(text) = 0

\* CONTROL_CHARACTERS
HasControl(text) == Size(text) < Len(text)

Value(word) == [stem |-> word.stem, num |-> word.num]      \* letters in lower case
Bare(word) == word.stem = "" /\ word.num # <<>>

\* digitRuns: 18.2 is one run.
DigitRuns(text) == {[stem |-> "", num |-> w.num] : w \in {v \in WordsOf(text) : v.num # <<>>}}

-----------------------------------------------------------------------------
(* DeterministicCardMeaningGenerator                                       *)

\* stringValues: facts is a function from names of facts to sequences of texts.
StringValues(facts, name) ==
    IF name \in DOMAIN facts THEN SelectSeq(facts[name], LAMBDA text : ~IsBlank(text)) ELSE <<>>

\* takeWithin: repeats and over-long entries are dropped, the first ones stay.
TakeWithin(groups, count, each) ==
    FoldLeft(LAMBDA kept, text :
               IF Len(kept) = count \/ Size(text) > each \/ Contains(kept, text)
               THEN kept ELSE Append(kept, text),
             <<>>, FlattenSeq(groups))

\* Joined with a separator.
Join(texts) == FlattenSeq(texts)

\* documentHumanNames, subjectOf and describe.
DocumentHumanNames(facts) ==
    TakeWithin(<<StringValues(facts, "document.title"), StringValues(facts, "section.label"),
                 StringValues(facts, "section.path")>>, NameCount, NameMax)

SubjectOf(coordinate) == <<coordinate.unit, coordinate.document>>

Describe(coordinate, facts) ==
    IF DocumentHumanNames(facts) = <<>> THEN SubjectOf(coordinate)
    ELSE Join(DocumentHumanNames(facts))

\* askAbout
AskAbout(coordinate, facts) ==
    LET label == StringValues(facts, "section.label")
        title == StringValues(facts, "document.title")
        path == StringValues(facts, "section.path")
    IN  IF label # <<>> THEN label[1] ELSE IF title # <<>> THEN title[1]
        ELSE IF path # <<>> THEN Last(path) ELSE SubjectOf(coordinate)

\* aliasesFor
AliasesFor(coordinate, facts) ==
    LET names == TakeWithin(<<StringValues(facts, "section.label"),
                              StringValues(facts, "document.title")>>, AliasCount, AliasMax)
    IN  IF names = <<>> THEN TakeWithin(<<<<<<coordinate.document>>, <<coordinate.unit>>>>>>, AliasCount, AliasMax)
        ELSE names

\* tokenize: split at everything that is neither letter nor digit, so 18.2 falls
\* apart, and tokens of digits alone are dropped.
Tokenize(text) ==
    {[w EXCEPT !.kind = "plain",
               !.num = IF Len(@) < 2 THEN @ ELSE IF w.front THEN <<@[2]>> ELSE <<@[1]>>] :
       w \in {v \in WordsOf(text) : v.stem # ""}}

\* keywordsFor
KeywordsFor(facts) ==
    LET group(name) ==
            SetToSeq({<<w>> : w \in UNION {Tokenize(t) : t \in WordsOf(StringValues(facts, name))}})
    IN  TakeWithin(<<group("section.label"), group("document.title"), group("section.path"),
                     group("keywords.derived")>>, KeywordCount, KeywordMax)

Deterministic(request) ==
    [description |-> Describe(request.coordinate, request.facts),
     questions   |-> <<AskAbout(request.coordinate, request.facts)>>,
     aliases     |-> AliasesFor(request.coordinate, request.facts),
     keywords    |-> KeywordsFor(request.facts)]

-----------------------------------------------------------------------------
(* groundCardVersion                                                       *)

MeaningTexts(meaning) ==
    {meaning.description} \cup WordsOf(meaning.questions) \cup WordsOf(meaning.aliases)
      \cup WordsOf(meaning.keywords)

\* Mutation of MachineFragments: digits within a word go unnoticed.
MachineFragmentsWhole(text) == {Value(w) : w \in {v \in WordsOf(text) : v.kind \in Machine \/ Bare(v)}}

\* machineFragments: identifiers, paths, methods, numbers, and digits anywhere.
MachineFragments(text) ==
    {Value(w) : w \in {v \in WordsOf(text) : v.kind \in Machine \/ Bare(v)}} \cup DigitRuns(text)

CoordinateValues(coordinate) == {<<coordinate.source>>, <<coordinate.document>>, <<coordinate.unit>>}

ScopeValues(scope) == {<<scope.id>>, <<scope.source>>, <<scope.document>>} \cup {<<u>> : u \in scope.units}

FactValues(facts) == UNION {WordsOf(facts[name]) : name \in DOMAIN facts}

\* allowedTokens: whole values, their tokens and their digit runs.
AllowedTokens(request) ==
    LET values == FactValues(request.facts) \cup CoordinateValues(request.coordinate)
                    \cup UNION {ScopeValues(s) : s \in request.scopes}
    IN  UNION {{Value(w) : w \in WordsOf(v)} \cup DigitRuns(v) : v \in values}

\* checkMachineFragments
Fabricated(request, meaning) ==
    UNION {MachineFragments(t) : t \in MeaningTexts(meaning)} \ AllowedTokens(request)

\* checkText and checkTextList
TextFindings(rule, text, max) ==
    LET because(why, holds) == IF holds THEN {[rule |-> rule, why |-> why]} ELSE {}
    IN  because("blank", IsBlank(text))
          \cup because("long", Size(text) > max)
          \cup because("control", HasControl(text) /\ ~IsBlank(text))

ListFindings(rule, texts, count, max) ==
    (IF Len(texts) > count THEN {[rule |-> rule, why |-> "count"]} ELSE {})
      \cup UNION {TextFindings(rule, texts[i], max) : i \in DOMAIN texts}

\* checkMeaning
CheckMeaning(meaning) ==
    TextFindings("description", meaning.description, DescriptionMax)
      \cup (IF meaning.questions = <<>> THEN {[rule |-> "questions", why |-> "none"]} ELSE {})
      \cup ListFindings("questions", meaning.questions, QuestionCount, QuestionMax)
      \cup ListFindings("aliases", meaning.aliases, AliasCount, AliasMax)
      \cup ListFindings("keywords", meaning.keywords, KeywordCount, KeywordMax)

\* checkManagedDocumentScope
CheckScope(coordinate, scope) ==
    IF /\ scope.source = coordinate.source /\ scope.document = coordinate.document
       /\ scope.units # {} => coordinate.unit \in scope.units
    THEN {} ELSE {[rule |-> "scope", why |-> "coordinate"]}

Findings(request, meaning) ==
    CheckMeaning(meaning)
      \cup UNION {CheckScope(request.coordinate, s) : s \in request.scopes}
      \cup (IF request.scopes = {} THEN {[rule |-> "scope", why |-> "none"]} ELSE {})
      \cup (IF Cardinality(request.scopes) > ScopeCount THEN {[rule |-> "scope", why |-> "count"]} ELSE {})
      \cup (IF Fabricated(request, meaning) # {} THEN {[rule |-> "meaning", why |-> "fabricated"]} ELSE {})

\* verdictOf; the expression of a model awaits a person's review.
VerdictOf(findings, origin) ==
    IF findings # {} THEN "rejected" ELSE IF origin = "model" THEN "needs_review" ELSE "validated"

\* computeFactCoverage: the facts whose values all occur in the text.
FactCoverage(facts, meaning) ==
    {name \in DOMAIN facts : \A i \in DOMAIN facts[name] :
        \E t \in MeaningTexts(meaning) : \E j \in 1 .. Len(t) - Len(facts[name][i]) + 1 :
            SubSeq(t, j, j + Len(facts[name][i]) - 1) = facts[name][i]}

-----------------------------------------------------------------------------
(* The generator with a model, and toCardVersion                           *)

\* buildPrompt and estimateTokens
PromptSize(request) ==
    2 + FoldSet(LAMBDA name, n : n + Size(FlattenSeq(request.facts[name])), 0, DOMAIN request.facts)

\* readStrings: line breaks are folded and blank entries are dropped.
ReadStrings(texts) ==
    SelectSeq([i \in DOMAIN texts |-> Folded(texts[i])], LAMBDA text : text # <<>>)

\* readMeaning: an answer without a description or a question is malformed.
WellFormed(answer) == ~IsBlank(answer.description) /\ ReadStrings(answer.questions) # <<>>

ReadMeaning(answer) ==
    [description |-> Folded(answer.description), questions |-> ReadStrings(answer.questions),
     aliases |-> ReadStrings(answer.aliases), keywords |-> ReadStrings(answer.keywords)]

GroundingInit == \E request \in UnitRequests : claim = [pc |-> "generate", request |-> request]

Expressed(origin, meaning) ==
    claim' = [pc |-> "ground", request |-> claim.request, origin |-> origin, meaning |-> meaning]

\* A model answers within its time: its expression is taken as it reads.
GenerateByModel ==
    /\ claim.pc = "generate" /\ PromptSize(claim.request) <= PromptBudget
    /\ \E answer \in ModelAnswers :
         WellFormed(answer) /\ Expressed("model", ReadMeaning(answer))

\* No model is configured, the prompt is over its budget, the request fails or
\* its answer is malformed: the rules express the unit.
GenerateByRules ==
    claim.pc = "generate" /\ Expressed("deterministic", Deterministic(claim.request))

GroundCardVersion ==
    /\ claim.pc = "ground"
    /\ LET findings == Findings(claim.request, claim.meaning)
       IN  claim' = [pc |-> "done", request |-> claim.request, origin |-> claim.origin,
                     meaning |-> claim.meaning, findings |-> findings,
                     fabricated |-> Fabricated(claim.request, claim.meaning),
                     coverage |-> FactCoverage(claim.request.facts, claim.meaning),
                     verdict |-> VerdictOf(findings, claim.origin)]

GroundingNext == GenerateByModel \/ GenerateByRules \/ GroundCardVersion

-----------------------------------------------------------------------------

\* The texts a request was made from, without what generator and rules do to them.
Stated(request) ==
    FactValues(request.facts) \cup {SubjectOf(request.coordinate)}
      \cup UNION {{<<s.id, s.source, s.document>>} \cup {<<u>> : u \in s.units} : s \in request.scopes}
      \cup {<<request.coordinate.source>>}

NumbersIn(texts) == {w.num : w \in UNION {WordsOf(t) : t \in texts}} \ {<<>>}

\* What passes grounding has no number and no identifier its sources do not state
\* whole, whoever wrote it, and what a model wrote never passes without a person.
\* The generator that only restates is never refused for what it says, apart from
\* the pieces its keywords cut out of a decimal, and its lists stay within the
\* limits, so that it is refused for nothing but a description or a question that
\* the facts make too long, or a line break that a heading keeps and every text
\* but a keyword copies.
NothingIsMadeUp ==
    claim.pc = "done" =>
      /\ claim.verdict # "rejected" =>
           /\ NumbersIn(MeaningTexts(claim.meaning)) \subseteq NumbersIn(Stated(claim.request))
           /\ {w \in UNION {WordsOf(t) : t \in MeaningTexts(claim.meaning)} : w.kind \in Machine}
                \subseteq UNION {WordsOf(t) : t \in Stated(claim.request)}
      /\ claim.origin = "model" => claim.verdict # "validated"
      /\ claim.origin = "deterministic" =>
           /\ \A f \in claim.fabricated : \E n \in NumbersIn(Stated(claim.request)) :
                 Len(n) = 2 /\ f.num \in {<<n[1]>>, <<n[2]>>}
           /\ \A f \in claim.findings : f.why \in {"fabricated", "long", "control"} \/ f.rule = "scope"
           /\ \A f \in claim.findings : f.why = "long" => f.rule \in {"description", "questions"}
           /\ \A f \in claim.findings : f.why = "control" =>
                 /\ f.rule \in {"description", "questions", "aliases"}
                 /\ \E t \in FactValues(claim.request.facts) : HasControl(t)
           /\ \A name \in DOMAIN claim.request.facts \ claim.coverage :
                 \/ name = "keywords.derived"
                 \/ \E i \in DOMAIN claim.request.facts[name] : Size(claim.request.facts[name][i]) > NameMax
                 \/ Len(DocumentHumanNames(claim.request.facts)) = NameCount
=============================================================================
