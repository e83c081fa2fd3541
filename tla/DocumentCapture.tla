--------------------------- MODULE DocumentCapture --------------------------
(* From a Markdown file to a document whose blocks keep their identities:    *)
(* the parser's walk (remark-markdown-parser.ts) and the matching of the     *)
(* blocks of a new capture with those of the previous one                    *)
(* (document-capture.ts). A file is a sequence of nodes [kind, level, text]; *)
(* a list item carries its depth as level, a table its header rows.          *)
(* Before them, the records of the document pipeline and the validators      *)
(* every stage runs on what it is given and on what it made                  *)
(* (document-model.ts). A text is a sequence of marks: words, full stops and *)
(* newlines. A digest is the text itself, a revision id the value that is    *)
(* hashed into it.                                                           *)
EXTENDS Integers, SequencesExt

CONSTANTS
    MaxChunkTokens, TargetChunkTokens, OverlapTokens,
    MaxUnitTokens, TargetUnitTokens, MinUnitTokens

(* validateDocumentIndexingPolicy: what the numbers of a policy must satisfy. *)
ASSUME PolicyAssumption ==
    /\ {MaxChunkTokens, TargetChunkTokens, MaxUnitTokens, TargetUnitTokens, MinUnitTokens} \subseteq Nat \ {0}
    /\ OverlapTokens \in Nat
    /\ MinUnitTokens <= TargetUnitTokens /\ TargetUnitTokens <= MaxUnitTokens
    /\ TargetChunkTokens <= MaxChunkTokens /\ OverlapTokens < TargetChunkTokens
    /\ MaxChunkTokens <= MaxUnitTokens

Newline == 0
Stop == 99
Fold(mark) == IF mark \in 51..98 THEN mark - 50 ELSE mark   \* 51..98 are the capitals of 1..48
Nobody == 0                                                  \* no parent, no neighbour

(* measureText: a newline measures nothing, every other mark one token. *)
MeasureText(text) == Len(SelectSeq(text, LAMBDA mark : mark # Newline))

(* toAnalysisText: capitals folded, white space collapsed and trimmed. *)
AnalysisText(text) ==
    LET words == SelectSeq(text, LAMBDA mark : mark # Newline)
    IN [i \in DOMAIN words |-> Fold(words[i])]

Slice(text, from, to) == SubSeq(text, from + 1, to)

(* The numbers of a set in their order. *)
Ascending(S) == [k \in 1 .. Cardinality(S) |-> CHOOSE x \in S : Cardinality({y \in S : y < x}) = k - 1]

Total(values) == FoldLeft(LAMBDA sum, v : sum + v, 0, values)
Elements(s) == {s[i] : i \in DOMAIN s}
NoRepeats(s) == \A i, j \in DOMAIN s : s[i] = s[j] => i = j
IdsOf(records) == {records[i].id : i \in DOMAIN records}
ById(records, id) == records[CHOOSE i \in DOMAIN records : records[i].id = id]
OrderOf(blocks, id) == CHOOSE i \in DOMAIN blocks : blocks[i].id = id

(* What is hashed into the revision of a block: not its place. *)
BlockRevision(b) == b

(* validateNormalizedDocument *)
StructuralKinds == {"divider", "code", "page_break"}

ValidNormalizedDocument(blocks) ==
    /\ NoRepeats([i \in DOMAIN blocks |-> blocks[i].id])
    /\ \A i \in DOMAIN blocks :
          LET b == blocks[i]
              before == 1 .. i - 1
          IN /\ b.text = << >> => b.kind \in StructuralKinds
             /\ b.text # << >> => AnalysisText(b.text) # << >>
             /\ \A k \in DOMAIN b.path :
                   \/ \E j \in before : blocks[j].kind = "heading" /\ blocks[j].id = b.path[k]
                   \/ b.kind = "heading" /\ b.path[k] = b.id
             /\ b.kind = "heading" => b.path # << >> /\ Last(b.path) = b.id
             /\ b.parent # Nobody => \E j \in before : blocks[j].id = b.parent

(* validateUnitGraph: every unit is reached from the root, none twice on a   *)
(* path; with reciprocal parents this says that the parents lead to the root *)
(* in fewer steps than there are units.                                      *)
Ancestor(units, id) ==
    LET up[n \in 0 .. Len(units)] ==
            IF n = 0 THEN id
            ELSE IF up[n - 1] \notin IdsOf(units) THEN up[n - 1]
            ELSE ById(units, up[n - 1]).parent
    IN up[Len(units)]

HeadingFirst(u, blocks) ==
    u.boundary = "explicit_heading" => ById(blocks, u.blocks[1]).kind = "heading"

(* validateDocumentSemanticUnits *)
ValidUnit(u, blocks) ==
    /\ NoRepeats(u.children) /\ NoRepeats(u.blocks)
    /\ IF u.kind = "document"
       THEN u.parent = Nobody /\ u.boundary = "document_root"
       ELSE u.parent # Nobody /\ u.blocks # << >>
    /\ u.kind = "section" => u.boundary = "explicit_heading"
    /\ u.kind = "segment" => u.boundary \in {"lexical", "size_fallback"}
    /\ Elements(u.blocks) \subseteq IdsOf(blocks)
    /\ \A i, j \in DOMAIN u.blocks : i < j => OrderOf(blocks, u.blocks[i]) < OrderOf(blocks, u.blocks[j])
    /\ HeadingFirst(u, blocks)

ValidSemanticUnits(blocks, units) ==
    /\ NoRepeats([i \in DOMAIN units |-> units[i].id])
    /\ \A i \in DOMAIN units : ValidUnit(units[i], blocks)
    /\ \A i, j \in DOMAIN units : i # j => Elements(units[i].blocks) \cap Elements(units[j].blocks) = {}
    /\ Len(SelectSeq(units, LAMBDA u : u.kind = "document")) = 1
    /\ \A i \in DOMAIN units :
          LET u == units[i] IN
          /\ u.parent # Nobody => u.parent \in IdsOf(units) /\ u.id \in Elements(ById(units, u.parent).children)
          /\ \A c \in Elements(u.children) : c \in IdsOf(units) /\ ById(units, c).parent = u.id
          /\ Ancestor(units, u.id) = Nobody
    /\ IdsOf(blocks) = UNION {Elements(units[i].blocks) : i \in DOMAIN units}

(* A chunk is made of slices of blocks; blank lines stand between blocks. *)
Separator == <<Newline, Newline>>

Reconstruct(slices, blocks) ==
    LET part(i) ==
            (IF i > 1 /\ slices[i - 1].block # slices[i].block THEN Separator ELSE << >>)
                \o Slice(ById(blocks, slices[i].block).text, slices[i].from, slices[i].to)
    IN FlattenSeq([i \in DOMAIN slices |-> part(i)])

MeasureSlices(slices, blocks) == MeasureText(Reconstruct(slices, blocks))

IsSearchable(b) == b.text # << >> /\ MeasureText(b.text) > 0

MeasureChunkOverlap(left, right, blocks) ==
    LET shared(i, j) ==
            LET a == left.slices[i]
                b == right.slices[j]
                from == IF a.from > b.from THEN a.from ELSE b.from
                to == IF a.to < b.to THEN a.to ELSE b.to
            IN IF a.block = b.block /\ from < to
               THEN MeasureText(Slice(ById(blocks, a.block).text, from, to)) ELSE 0
    IN FoldLeft(LAMBDA sum, i : FoldLeft(LAMBDA s, j : s + shared(i, j), sum, [j \in DOMAIN right.slices |-> j]),
                0, [i \in DOMAIN left.slices |-> i])

ValidSlices(c, blocks, units) ==
    /\ c.slices # << >>
    /\ \A i \in DOMAIN c.slices :
          LET s == c.slices[i] IN
          /\ s.block \in IdsOf(blocks)
          /\ s.block \in Elements(ById(units, c.unit).blocks)
          /\ 0 <= s.from /\ s.from < s.to /\ s.to <= Len(ById(blocks, s.block).text)
          /\ i > 1 => LET p == c.slices[i - 1] IN
                 \/ OrderOf(blocks, p.block) < OrderOf(blocks, s.block)
                 \/ p.block = s.block /\ p.to <= s.from
    /\ Reconstruct(c.slices, blocks) = c.text

(* validateChunkNeighbor *)
ValidNeighbours(chunks, i) ==
    LET c == chunks[i]
        neighbour(id, ordinal) ==
            /\ id \in IdsOf(chunks)
            /\ ById(chunks, id).unit = c.unit
            /\ ById(chunks, id).ordinal = ordinal
    IN /\ c.previous # Nobody => neighbour(c.previous, c.ordinal - 1) /\ ById(chunks, c.previous).next = c.id
       /\ c.next # Nobody => neighbour(c.next, c.ordinal + 1) /\ ById(chunks, c.next).previous = c.id

(* A searchable block is read from end to end by the slices on it. *)
CoveredUntil(chunks, id) ==
    LET ranges == UNION {{<<s.from, s.to>> : s \in {t \in Elements(chunks[i].slices) : t.block = id}} : i \in DOMAIN chunks}
        reach[n \in 0 .. Cardinality(ranges)] ==
            IF n = 0 THEN 0
            ELSE LET from == reach[n - 1]
                 IN Max({from} \cup {r[2] : r \in {q \in ranges : q[1] <= from}})
    IN reach[Cardinality(ranges)]

ChunksOf(chunks, unit) == SelectSeq(chunks, LAMBDA c : c.unit = unit)

SearchableHasChunk(unit, own, blocks) ==
    (\E b \in Elements(unit.blocks) : IsSearchable(ById(blocks, b))) => own # << >>

OverlapWithinPolicy(own, blocks) ==
    \A i, j \in DOMAIN own : own[j].ordinal = own[i].ordinal + 1
        => MeasureChunkOverlap(own[i], own[j], blocks) <= OverlapTokens

(* validateManagedChunks *)
ValidManagedChunks(blocks, units, chunks) ==
    /\ NoRepeats([i \in DOMAIN chunks |-> chunks[i].id])
    /\ \A i \in DOMAIN chunks :
          /\ chunks[i].unit \in IdsOf(units)
          /\ MeasureText(chunks[i].text) \in 1 .. MaxChunkTokens
          /\ ValidSlices(chunks[i], blocks, units)
          /\ ValidNeighbours(chunks, i)
    /\ \A k \in DOMAIN units :
          LET own == ChunksOf(chunks, units[k].id) IN
          /\ {own[i].ordinal : i \in DOMAIN own} = 0 .. Len(own) - 1
          /\ SearchableHasChunk(units[k], own, blocks)
          /\ OverlapWithinPolicy(own, blocks)
    /\ \A i \in DOMAIN blocks : IsSearchable(blocks[i]) => CoveredUntil(chunks, blocks[i].id) = Len(blocks[i].text)

-----------------------------------------------------------------------------
(* Parsing and block matching *)

(* The walk of the parser: blocks so far, the stack of open headings. *)
PoppedStack(stack, blocks, level) ==
    SelectSeq(stack, LAMBDA i : blocks[i].level < level)

BlockKind(node) ==
    CASE node.kind \in {"html", "unsupported"} -> "paragraph"
      [] node.kind = "item_text" -> "list_item"
      [] OTHER -> node.kind

(* The enclosing item of a list item; of a further text of an item, the item. *)
ParentIndex(blocks, node) ==
    LET depth == IF node.kind = "item_text" THEN node.level ELSE node.level - 1
        items == {i \in DOMAIN blocks : blocks[i].kind = "list_item" /\ blocks[i].level = depth /\ blocks[i].first}
    IN IF node.kind \notin {"list_item", "item_text"} \/ depth < 0 \/ items = {} THEN 0 ELSE Max(items)

VisitNode(walk, node) ==
    LET n == Len(walk.blocks) + 1
        open == IF node.kind = "heading" THEN PoppedStack(walk.stack, walk.blocks, node.level) ELSE walk.stack
        path == IF node.kind = "heading" THEN Append(open, n) ELSE open
        block == [kind |-> BlockKind(node), level |-> node.level, parent |-> ParentIndex(walk.blocks, node),
                  path |-> path, text |-> node.text, first |-> node.kind # "item_text"]
    IN IF node.kind = "definition"
       THEN [walk EXCEPT !.complete = FALSE]
       ELSE [blocks |-> Append(walk.blocks, block), stack |-> path,
             title |-> IF walk.title = << >> /\ node.kind = "heading" /\ node.level = 1 THEN node.text ELSE walk.title,
             complete |-> walk.complete /\ node.kind \notin {"html", "unsupported"}]

Parse(file) ==
    FoldLeft(VisitNode, [blocks |-> << >>, stack |-> << >>, title |-> << >>, complete |-> TRUE], file)

(* assertCandidateDocument *)
ValidCandidate(cands) ==
    \A i \in DOMAIN cands :
        /\ \A h \in Elements(cands[i].path) : h <= i /\ cands[h].kind = "heading" /\ (h < i \/ cands[i].kind = "heading")
        /\ cands[i].kind = "heading" => Last(cands[i].path) = i
        /\ cands[i].parent < i

-----------------------------------------------------------------------------
(* Matching. m[i] is the previous block that candidate i continues, or 0.    *)

Free(m) == {i \in DOMAIN m : m[i] = 0}
FreePrevious(m, previous) == DOMAIN previous \ Elements(m)

(* A key that one free candidate and one free previous block have. *)
MatchUnique(m, previous, candidateKey, previousKey) ==
    LET free == Free(m)
        old == FreePrevious(m, previous)
        alone(i) == \A j \in free : candidateKey[j] = candidateKey[i] => j = i
        heirs(i) == {p \in old : previousKey[p] = candidateKey[i]}
    IN [i \in DOMAIN m |->
          IF i \in free /\ alone(i) /\ Cardinality(heirs(i)) = 1
          THEN CHOOSE p \in heirs(i) : TRUE ELSE m[i]]

CandidateSectionSignature(cands, i) == [k \in DOMAIN cands[i].path |-> cands[cands[i].path[k]].text]
PreviousSectionSignature(previous, p) == [k \in DOMAIN previous[p].path |-> ById(previous, previous[p].path[k]).text]
AnalysisKey(block) == <<block.kind, AnalysisText(block.text)>>

(* longestIncreasingPairs: patience sorting on the places of the previous    *)
(* blocks, with the choice among equals that the algorithm makes.            *)
LongestIncreasing(places) ==
    LET place(state, i) ==
            LET low == Cardinality({k \in DOMAIN state.tails : places[state.tails[k]] < places[i]})
            IN [tails |-> [k \in 1 .. Max({low + 1, Len(state.tails)}) |-> IF k = low + 1 THEN i ELSE state.tails[k]],
                before |-> [state.before EXCEPT ![i] = IF low = 0 THEN 0 ELSE state.tails[low]]]
        run == FoldLeft(place, [tails |-> << >>, before |-> [i \in DOMAIN places |-> 0]], [i \in DOMAIN places |-> i])
        back[n \in 0 .. Len(run.tails)] ==
            IF n = 0 THEN {}
            ELSE IF back[n - 1] = {} THEN {run.tails[Len(run.tails)]}
            ELSE back[n - 1] \cup ({run.before[i] : i \in back[n - 1]} \ {0})
    IN back[Len(run.tails)]

MatchPatienceSequence(m, cands, previous) ==
    LET keys == [i \in DOMAIN cands |-> AnalysisKey(cands[i])]
        proposed == MatchUnique(m, previous, keys, [p \in DOMAIN previous |-> AnalysisKey(previous[p])])
        pairs == Ascending({i \in Free(m) : proposed[i] # 0})
        kept == {pairs[k] : k \in LongestIncreasing([k \in DOMAIN pairs |-> proposed[pairs[k]]])}
    IN [i \in DOMAIN m |-> IF i \in kept THEN proposed[i] ELSE m[i]]

(* tokenJaccard as a fraction. *)
TokenJaccard(left, right) ==
    LET a == Elements(AnalysisText(left))
        b == Elements(AnalysisText(right))
    IN IF a = {} \/ b = {} THEN <<0, 1>> ELSE <<Cardinality(a \cap b), Cardinality(a \cup b)>>

AtLeast(score, percent) == score[1] * 100 >= percent * score[2]
Leads(score, other, percent) == 100 * (score[1] * other[2] - other[1] * score[2]) >= percent * score[2] * other[2]

BlockMinTokenJaccard == 85
BlockMinRunnerUpMargin == 10

(* A pair is proposed when it leads clearly on both sides. *)
MatchFuzzy(m, cands, previous) ==
    LET free == {i \in Free(m) : AnalysisText(cands[i].text) # << >>}
        old == {p \in FreePrevious(m, previous) : AnalysisText(previous[p].text) # << >>}
        score(i, p) == TokenJaccard(cands[i].text, previous[p].text)
        clear(i, p) ==
            /\ cands[i].kind = previous[p].kind
            /\ AtLeast(score(i, p), BlockMinTokenJaccard)
            /\ \A q \in old \ {p} : previous[q].kind = cands[i].kind => Leads(score(i, p), score(i, q), BlockMinRunnerUpMargin)
            /\ \A j \in free \ {i} : cands[j].kind = previous[p].kind => Leads(score(i, p), score(j, p), BlockMinRunnerUpMargin)
    IN [i \in DOMAIN m |->
          IF i \in free /\ \E p \in old : clear(i, p) THEN CHOOSE p \in old : clear(i, p) ELSE m[i]]

(* findSectionAnchor: the first matched block of the heading's section. *)
SectionAnchor(m, cands, i) ==
    LET ends == {j \in i + 1 .. Len(cands) : cands[j].kind = "heading" /\ cands[j].level <= cands[i].level}
        limit == IF ends = {} THEN Len(cands) ELSE Min(ends) - 1
        matched == {j \in i + 1 .. limit : cands[j].kind # "heading" /\ m[j] # 0}
    IN IF matched = {} THEN 0 ELSE Min(matched)

(* A renamed heading is the one that stood last before its section's anchor. *)
MatchHeadingsByAnchoredContent(m, cands, previous) ==
    LET headings == {i \in Free(m) : cands[i].kind = "heading" /\ SectionAnchor(m, cands, i) # 0}
        before(i) == {p \in FreePrevious(m, previous) :
                        p < m[SectionAnchor(m, cands, i)] /\ previous[p].kind = "heading"
                            /\ previous[p].level = cands[i].level}
        proposal == [i \in {h \in headings : before(h) # {}} |-> Max(before(i))]
        alone(i) == \A j \in DOMAIN proposal : proposal[j] = proposal[i] => j = i
    IN [i \in DOMAIN m |-> IF i \in DOMAIN proposal /\ alone(i) THEN proposal[i] ELSE m[i]]

(* Between two anchors, one block left on each side: it was rewritten. *)
MatchAnchoredReplacements(m, cands, previous) ==
    LET anchors == Ascending(DOMAIN m \ Free(m))
        bounds == <<[c |-> 0, p |-> 0]>> \o [k \in DOMAIN anchors |-> [c |-> anchors[k], p |-> m[anchors[k]]]]
                      \o <<[c |-> Len(cands) + 1, p |-> Len(previous) + 1]>>
        gap(now, k) ==
            LET current == {i \in Free(now) : bounds[k].c < i /\ i < bounds[k + 1].c}
                old == {p \in FreePrevious(now, previous) : bounds[k].p < p /\ p < bounds[k + 1].p}
            IN IF /\ bounds[k].p < bounds[k + 1].p
                  /\ Cardinality(current) = 1 /\ Cardinality(old) = 1
                  /\ \A i \in current, p \in old : cands[i].kind = previous[p].kind
               THEN [i \in DOMAIN now |-> IF i \in current THEN CHOOSE p \in old : TRUE ELSE now[i]]
               ELSE now
    IN IF anchors = << >> THEN m ELSE FoldLeft(gap, m, [k \in 1 .. Len(bounds) - 1 |-> k])

MatchBlockIds(cands, previous) ==
    LET none == [i \in DOMAIN cands |-> 0]
        inSection == MatchUnique(none, previous,
            [i \in DOMAIN cands |-> <<cands[i].kind, cands[i].text, CandidateSectionSignature(cands, i)>>],
            [p \in DOMAIN previous |-> <<previous[p].kind, previous[p].text, PreviousSectionSignature(previous, p)>>])
        anywhere == MatchUnique(inSection, previous,
            [i \in DOMAIN cands |-> <<cands[i].kind, cands[i].text>>],
            [p \in DOMAIN previous |-> <<previous[p].kind, previous[p].text>>])
        inSequence == MatchPatienceSequence(anywhere, cands, previous)
        similar == MatchFuzzy(inSequence, cands, previous)
        renamed == MatchHeadingsByAnchoredContent(similar, cands, previous)
    IN MatchAnchoredReplacements(renamed, cands, previous)

(* Mutation of AssembleMatched: a matched block keeps its text as well. *)
AssembleMatchedKeepsText(m, cands, previous, nextId) ==
    LET id == [i \in DOMAIN cands |->
                 IF m[i] # 0 THEN previous[m[i]].id ELSE nextId + Cardinality({j \in Free(m) : j < i})]
    IN [i \in DOMAIN cands |->
          [id |-> id[i], kind |-> cands[i].kind, level |-> cands[i].level,
           text |-> IF m[i] # 0 THEN previous[m[i]].text ELSE cands[i].text,
           parent |-> IF cands[i].parent = 0 THEN Nobody ELSE id[cands[i].parent],
           path |-> [k \in DOMAIN cands[i].path |-> id[cands[i].path[k]]]]]

(* assembleNormalizedMarkdownDocument: a matched block keeps its id, another *)
(* one takes the next that was never used.                                   *)
AssembleMatched(m, cands, previous, nextId) ==
    LET fresh(i) == nextId + Cardinality({j \in Free(m) : j < i})
        id == [i \in DOMAIN cands |-> IF m[i] # 0 THEN previous[m[i]].id ELSE fresh(i)]
    IN [i \in DOMAIN cands |->
          [id |-> id[i], kind |-> cands[i].kind, level |-> cands[i].level, text |-> cands[i].text,
           parent |-> IF cands[i].parent = 0 THEN Nobody ELSE id[cands[i].parent],
           path |-> [k \in DOMAIN cands[i].path |-> id[cands[i].path[k]]]]]

AssembleBlocks(cands, previous, nextId) == AssembleMatched(MatchBlockIds(cands, previous), cands, previous, nextId)
=============================================================================
