---------------------------- MODULE DocumentUnits ---------------------------
(* The semantic units of a document: sections by its headings, segments      *)
(* where an owner is too large or the document has no headings               *)
(* (document-segmentation.ts, lexical-cohesion.ts), and the identities units *)
(* inherit from those of the previous capture (semantic-unit-lineage.ts).    *)
(* The chunks of a unit (managed-chunk-generation.ts): whole blocks packed   *)
(* together, a block beyond the limit split by its structure and then by     *)
(* token windows, the last small blocks of a chunk repeated in the next one. *)
EXTENDS DocumentCapture

CONSTANTS
    Similarity(_, _),     \* cosine of two windows of texts, in thousandths
    LexicalWindowBlocks

ZeroMadMinDepth == 350    \* thousandths
UnitMinBlockIdJaccard == 60
UnitMinRunnerUpMargin == 15

MeasureBlocks(blocks, region) == Total([k \in DOMAIN region |-> MeasureText(AnalysisText(blocks[region[k]].text))])

IsParagraphLike(b) == b.kind \in {"paragraph", "quote", "list_item"}

Median(values) ==
    LET sorted == SortSeq(values, <)
        middle == Len(sorted) \div 2 + 1
    IN IF Len(sorted) % 2 = 1 THEN sorted[middle] ELSE (sorted[middle - 1] + sorted[middle]) \div 2

(* The gaps between neighbouring paragraphs and how alike their windows are. *)
ScoredGaps(blocks, region) ==
    LET prose == SelectSeq(region, LAMBDA i : IsParagraphLike(blocks[i]))
        place(i) == CHOOSE k \in DOMAIN prose : prose[k] = i
        gaps == SelectSeq([g \in 1 .. Len(region) - 1 |-> g],
                    LAMBDA g : IsParagraphLike(blocks[region[g]]) /\ IsParagraphLike(blocks[region[g + 1]]))
        texts(from, to) == [k \in 1 .. to - from + 1 |-> AnalysisText(blocks[prose[from + k - 1]].text)]
        score(g) == LET p == place(region[g]) IN
            Similarity(texts(Max({1, p - LexicalWindowBlocks + 1}), p),
                       texts(p + 1, Min({Len(prose), p + LexicalWindowBlocks})))
    IN [k \in DOMAIN gaps |-> [gap |-> gaps[k], similarity |-> score(gaps[k])]]

(* calculateDepths, in eighths of a thousandth so that medians are whole. *)
Depths(scored) ==
    LET peak(S) == Max({scored[k].similarity : k \in S})
    IN [k \in DOMAIN scored |-> 4 * (peak(1 .. k) + peak(k .. Len(scored)) - 2 * scored[k].similarity)]

(* findLexicalBoundaries: the gaps deep enough, with enough on either side. *)
FindLexicalBoundaries(blocks, region) ==
    LET scored == ScoredGaps(blocks, region)
        depths == Depths(scored)
        center == Median(depths)
        deviation == Median([k \in DOMAIN depths |-> IF depths[k] < center THEN center - depths[k] ELSE depths[k] - center])
        threshold == IF deviation = 0 THEN 8 * ZeroMadMinDepth ELSE center + deviation
        take(accepted, k) ==
            LET gap == scored[k].gap
                start == IF accepted = << >> THEN 0 ELSE Last(accepted).gap
            IN IF /\ depths[k] >= threshold
                  /\ MeasureBlocks(blocks, SubSeq(region, start + 1, gap)) >= MinUnitTokens
                  /\ MeasureBlocks(blocks, SubSeq(region, gap + 1, Len(region))) >= MinUnitTokens
               THEN Append(accepted, [gap |-> gap, strength |-> depths[k]]) ELSE accepted
    IN IF Len(scored) < 3 THEN << >> ELSE FoldLeft(take, << >>, [k \in DOMAIN scored |-> k])

(* sizeFallbackPlans *)
SizeFallbackGroups(blocks, region) ==
    LET size(i) == MeasureText(AnalysisText(blocks[i].text))
        flush(s) == IF s.current = << >> THEN s ELSE [groups |-> Append(s.groups, s.current), current |-> << >>]
        add(s, i) ==
            IF size(i) > MaxUnitTokens
            THEN [flush(s) EXCEPT !.groups = Append(@, <<i>>)]
            ELSE LET held == MeasureBlocks(blocks, s.current)
                     room == IF held + size(i) > MaxUnitTokens \/ held >= TargetUnitTokens THEN flush(s) ELSE s
                 IN [room EXCEPT !.current = Append(@, i)]
        groups == flush(FoldLeft(add, [groups |-> << >>, current |-> << >>], region)).groups
        n == Len(groups)
    IN IF /\ n > 1
          /\ MeasureBlocks(blocks, groups[n]) < MinUnitTokens
          /\ MeasureBlocks(blocks, groups[n - 1] \o groups[n]) <= MaxUnitTokens
       THEN Append(SubSeq(groups, 1, n - 2), groups[n - 1] \o groups[n])
       ELSE groups

(* segmentBlockRegion: cut at the gaps found, and by size where a piece is   *)
(* still too large.                                                          *)
SegmentsAt(gaps, blocks, region) ==
    LET cuts == <<0>> \o [k \in DOMAIN gaps |-> gaps[k].gap] \o <<Len(region)>>
        segment(kind, strength, group) == [boundary |-> kind, strength |-> strength, blocks |-> group]
        fallback(group) == LET g == SizeFallbackGroups(blocks, group) IN [k \in DOMAIN g |-> segment("size_fallback", 0, g[k])]
        pieces(k) == LET group == SubSeq(region, cuts[k] + 1, cuts[k + 1]) IN
            IF MeasureBlocks(blocks, group) > MaxUnitTokens THEN fallback(group)
            ELSE <<segment("lexical", gaps[IF k = 1 THEN 1 ELSE k - 1].strength, group)>>
    IN IF gaps = << >> THEN fallback(region)
       ELSE FlattenSeq([k \in 1 .. Len(cuts) - 1 |-> pieces(k)])

SegmentsOf(blocks, region) == SegmentsAt(FindLexicalBoundaries(blocks, region), blocks, region)

(* The owners a document's structure gives: the root (at 0) and a section at *)
(* every heading. createSectionPlans, assignNonHeadingBlocks.                *)
HeadingAt(blocks, path, k) == IF Len(path) < k THEN 0 ELSE OrderOf(blocks, path[Len(path) - k + 1])

OwnersOf(blocks) ==
    LET headings == {i \in DOMAIN blocks : blocks[i].kind = "heading"}
        body(at) == SelectSeq([i \in DOMAIN blocks |-> i],
                        LAMBDA i : i \notin headings /\ HeadingAt(blocks, blocks[i].path, 1) = at)
    IN [at \in {0} \cup headings |->
          [parent |-> IF at = 0 THEN -1 ELSE HeadingAt(blocks, blocks[at].path, 2),
           head |-> IF at = 0 THEN << >> ELSE <<at>>, body |-> body(at)]]

(* splitOversizedOwners: a document without headings is always segmented,    *)
(* another owner only when it is too large.                                  *)
Splits(blocks, owners, at) ==
    LET o == owners[at]
        headingless == at = 0 /\ DOMAIN owners = {0}
    IN /\ o.body # << >>
       /\ headingless \/ MeasureBlocks(blocks, o.head \o o.body) > MaxUnitTokens
       /\ at = 0 /\ ~headingless => MeasureBlocks(blocks, o.body) > MaxUnitTokens

(* The plan of an owner, and createSegmentPlan for a piece of one. *)
OwnerPlan(blocks, owners, at, title) ==
    [kind |-> IF at = 0 THEN "document" ELSE "section", at |-> at, parent |-> owners[at].parent,
     boundary |-> IF at = 0 THEN "document_root" ELSE "explicit_heading", strength |-> 0,
     title |-> IF at = 0 THEN title ELSE blocks[at].text,
     blocks |-> owners[at].head \o (IF Splits(blocks, owners, at) THEN << >> ELSE owners[at].body)]

SegmentPlan(at, s) ==
    [kind |-> "segment", at |-> s.blocks[1], parent |-> at, boundary |-> s.boundary, strength |-> s.strength,
     title |-> << >>, blocks |-> s.blocks]

(* orderPlans: in document order, the root first. *)
OrderPlans(plans) ==
    LET places == Ascending({p.at : p \in plans})
    IN [k \in DOMAIN places |-> CHOOSE p \in plans : p.at = places[k]]

(* allocateUnitIds: provisional ids counted from nextId. *)
UnitIdAt(ordered, nextId, at) == nextId - 1 + CHOOSE k \in DOMAIN ordered : ordered[k].at = at

(* materializeUnit *)
MaterializeUnit(p, ordered, blocks, nextId) ==
    LET children == SelectSeq(ordered, LAMBDA q : q.parent = p.at)
        idAt(at) == UnitIdAt(ordered, nextId, at)
    IN [id |-> idAt(p.at), kind |-> p.kind, title |-> p.title, boundary |-> p.boundary, strength |-> p.strength,
        parent |-> IF p.parent = -1 THEN Nobody ELSE idAt(p.parent),
        children |-> [c \in DOMAIN children |-> idAt(children[c].at)],
        blocks |-> [k \in DOMAIN p.blocks |-> blocks[p.blocks[k]].id]]

MaterializeUnits(ordered, blocks, nextId) ==
    [k \in DOMAIN ordered |-> MaterializeUnit(ordered[k], ordered, blocks, nextId)]

PlansOf(blocks, owners, title) ==
    LET pieces(at) == IF Splits(blocks, owners, at) THEN SegmentsOf(blocks, owners[at].body) ELSE << >>
    IN {OwnerPlan(blocks, owners, at, title) : at \in DOMAIN owners}
         \cup UNION {{SegmentPlan(at, s) : s \in Elements(pieces(at))} : at \in DOMAIN owners}

SegmentNormalizedDocument(blocks, title, nextId) ==
    MaterializeUnits(OrderPlans(PlansOf(blocks, OwnersOf(blocks), title)), blocks, nextId)

(* semanticUnitRevisionId: what a unit says of itself and of its blocks; the *)
(* root's digest is that of the whole file.                                  *)
UnitRevision(u, blocks, file) ==
    [unit |-> u, blocks |-> [k \in DOMAIN u.blocks |-> BlockRevision(ById(blocks, u.blocks[k]))],
     digest |-> IF u.kind = "document" THEN file ELSE << >>]

-----------------------------------------------------------------------------
(* Lineage. *)

BlockIdJaccard(u, v) ==
    LET a == Elements(u.blocks)
        b == Elements(v.blocks)
    IN IF a \cup b = {} THEN <<0, 1>> ELSE <<Cardinality(a \cap b), Cardinality(a \cup b)>>

(* isClearBest, among the units of the same kind that share a block. *)
ClearBest(u, v, rivals) ==
    LET s == BlockIdJaccard(u, v) IN
    /\ s[1] * 100 >= UnitMinBlockIdJaccard * s[2]
    /\ \A w \in rivals \ {v} :
          LET t == BlockIdJaccard(u, w) IN
          100 * (s[1] * t[2] - t[1] * s[2]) >= UnitMinRunnerUpMargin * s[2] * t[2]

(* matchUnits: the root, then sections whose heading is the same block, then *)
(* units that lead clearly in both directions. The previous id, or its own.  *)
InheritedId(u, current, previous) ==
    LET heading(w) == IF w.kind = "section" THEN w.blocks[1] ELSE Nobody
        byHeading(w, others) == {v \in others : v.kind = "section" /\ w.kind = "section" /\ heading(v) = heading(w)}
        left == {w \in current : w.kind # "document" /\ byHeading(w, previous) = {}}
        old == {v \in previous : v.kind # "document" /\ byHeading(v, current) = {}}
        mutual(w, v) == /\ v.kind = w.kind
                        /\ ClearBest(w, v, {x \in old : x.kind = w.kind})
                        /\ ClearBest(v, w, {x \in left : x.kind = w.kind})
    IN IF u.kind = "document" THEN (CHOOSE v \in previous : v.kind = "document").id
       ELSE IF byHeading(u, previous) # {} THEN (CHOOSE v \in byHeading(u, previous) : TRUE).id
       ELSE IF \E v \in old : mutual(u, v) THEN (CHOOSE v \in old : mutual(u, v)).id
       ELSE u.id

(* remapUnits *)
ReconcileSemanticUnitLineage(units, previous) ==
    LET final == [id \in IdsOf(units) \cup {Nobody} |->
                    IF id = Nobody THEN Nobody ELSE InheritedId(ById(units, id), Elements(units), Elements(previous))]
    IN [k \in DOMAIN units |->
          [units[k] EXCEPT !.id = final[@], !.parent = final[@], !.children = [c \in DOMAIN @ |-> final[@[c]]]]]

-----------------------------------------------------------------------------
(* Chunks *)

Span(from, to, kind) == [from |-> from, to |-> to, kind |-> kind]
SliceOf(b, from, to) == [block |-> b.id, from |-> from, to |-> to]
WholeBlock(b) == SliceOf(b, 0, Len(b.text))

(* Spans between cut points. *)
SpansAt(cuts, kind) == [k \in 1 .. Len(cuts) - 1 |-> Span(cuts[k], cuts[k + 1], kind)]

(* sentenceSpans: a sentence takes the white space after its full stop. *)
SentenceSpans(text) ==
    LET ends == {i \in 1 .. Len(text) - 1 :
                   /\ text[i + 1] # Newline
                   /\ \E j \in 1 .. i : text[j] = Stop /\ \A k \in j + 1 .. i : text[k] = Newline}
    IN SpansAt(Ascending({0, Len(text)} \cup ends), "sentence")

LineSpans(text, kind) ==
    SpansAt(Ascending({0, Len(text)} \cup {i \in DOMAIN text : text[i] = Newline}), kind)

(* largestBoundaryWithinTokenLimit; the measure grows with the end. *)
WindowEnd(text, from, to, limit) ==
    LET fits == {end \in from + 1 .. to : MeasureText(Slice(text, from, end)) <= limit}
    IN IF fits = {} THEN from ELSE Max(fits)

TokenWindowSpans(text, from, to, target, limit) ==
    LET next(start) ==
            LET t == WindowEnd(text, start, to, target)
                m == WindowEnd(text, start, to, limit)
            IN IF t > start THEN t ELSE IF m > start THEN m ELSE start + 1
        windows[start \in from .. to] ==
            IF start = to THEN << >> ELSE <<Span(start, next(start), "token_window")>> \o windows[next(start)]
    IN windows[from]

StructuralSpans(b) ==
    CASE b.kind \in {"paragraph", "quote"} -> SentenceSpans(b.text)
      [] b.kind = "code" -> LineSpans(b.text, "line")
      [] b.kind = "list_item" -> IF Len(SentenceSpans(b.text)) > 1 THEN SentenceSpans(b.text) ELSE LineSpans(b.text, "line")
      [] OTHER -> <<Span(0, Len(b.text), "token_window")>>

(* Spans are added until the pack has reached the target or would pass the   *)
(* limit; head is what every pack begins with, and is measured with it.      *)
PackSpans(b, head, spans) ==
    LET size(pack) == Total([k \in DOMAIN pack |-> MeasureText(Slice(b.text, pack[k].from, pack[k].to))])
        add(packs, span) ==
            LET current == IF packs = << >> THEN << >> ELSE Last(packs)
            IN IF current = << >> \/ size(head \o current) >= TargetChunkTokens
                    \/ size(head \o Append(current, span)) > MaxChunkTokens
               THEN Append(packs, <<span>>)
               ELSE [packs EXCEPT ![Len(packs)] = Append(@, span)]
    IN FoldLeft(add, << >>, spans)

SlicesOfSpans(b, spans) == [k \in DOMAIN spans |-> SliceOf(b, spans[k].from, spans[k].to)]

(* packBlockSpans *)
PlansOfSpans(b, spans) ==
    LET packs == PackSpans(b, << >>, spans)
        kind(pack) == IF \E k \in DOMAIN pack : pack[k].kind = "token_window" THEN "token_window" ELSE pack[1].kind
    IN [k \in DOMAIN packs |-> [split |-> kind(packs[k]), slices |-> SlicesOfSpans(b, packs[k])]]

(* splitTable: the header rows begin every chunk unless they are too large   *)
(* to be repeated.                                                           *)
SplitTable(b) ==
    LET rows == LineSpans(b.text, "table_row")
        count == Min({b.level, Len(rows)})
        headers == SubSeq(rows, 1, count)
        body == SubSeq(rows, count + 1, Len(rows))
        headerTokens == Total([k \in DOMAIN headers |-> MeasureText(Slice(b.text, headers[k].from, headers[k].to))])
        parts(row) ==
            IF MeasureText(Slice(b.text, row.from, row.to)) <= MaxChunkTokens - headerTokens THEN <<row>>
            ELSE TokenWindowSpans(b.text, row.from, row.to, Max({1, TargetChunkTokens - headerTokens}),
                                  MaxChunkTokens - headerTokens)
        packs == PackSpans(b, headers, FlattenSeq([k \in DOMAIN body |-> parts(body[k])]))
        kind(pack) == IF \E k \in DOMAIN pack : pack[k].kind = "token_window" THEN "token_window" ELSE "table_row"
    IN IF body = << >> \/ headerTokens > OverlapTokens \/ headerTokens >= MaxChunkTokens
       THEN PlansOfSpans(b, TokenWindowSpans(b.text, 0, Len(b.text), TargetChunkTokens, MaxChunkTokens))
       ELSE [k \in DOMAIN packs |-> [split |-> kind(packs[k]), slices |-> SlicesOfSpans(b, headers \o packs[k])]]

SplitOversizedBlock(b) ==
    LET bounded(span) ==
            IF MeasureText(Slice(b.text, span.from, span.to)) <= MaxChunkTokens THEN <<span>>
            ELSE TokenWindowSpans(b.text, span.from, span.to, TargetChunkTokens, MaxChunkTokens)
        structural == StructuralSpans(b)
    IN IF b.kind = "table" THEN SplitTable(b)
       ELSE PlansOfSpans(b, FlattenSeq([k \in DOMAIN structural |-> bounded(structural[k])]))

(* createChunkPlans *)
CreateChunkPlans(own, blocks) ==
    LET measure(packed) == MeasureSlices(packed, blocks)
        flush(s) == [plans |-> IF measure(s.packed) = 0 THEN s.plans
                               ELSE Append(s.plans, [split |-> "block_pack", slices |-> s.packed]),
                     packed |-> << >>]
        add(s, b) ==
            IF b.text = << >> THEN s
            ELSE IF MeasureText(b.text) > MaxChunkTokens
            THEN LET t == flush(s) IN [t EXCEPT !.plans = @ \o SplitOversizedBlock(b)]
            ELSE LET t == IF /\ s.packed # << >>
                             /\ \/ measure(s.packed) >= TargetChunkTokens
                                \/ measure(Append(s.packed, WholeBlock(b))) > MaxChunkTokens
                          THEN flush(s) ELSE s
                 IN [t EXCEPT !.packed = Append(@, WholeBlock(b))]
    IN flush(FoldLeft(add, [plans |-> << >>, packed |-> << >>], own)).plans

(* addWholeBlockOverlap: the last whole blocks of the chunk before, as many  *)
(* as the overlap allows, if the chunk then still fits.                      *)
OverlapFrom(before, current, blocks) ==
    LET n == Len(before.slices)
        whole(s) == /\ s.from = 0 /\ s.to = Len(ById(blocks, s.block).text)
                    /\ \A t \in Elements(current.slices) : t.block # s.block
        tail(k) == SubSeq(before.slices, k, n)
        tokens(k) == Total([i \in DOMAIN tail(k) |-> MeasureText(ById(blocks, tail(k)[i].block).text)])
        fits == {k \in 1 .. n : (\A i \in k .. n : whole(before.slices[i])) /\ tokens(k) <= OverlapTokens}
    IN IF fits = {} THEN << >> ELSE tail(Min(fits))

(* Mutation of AddWholeBlockOverlap: the chunk is not measured again. *)
AddWholeBlockOverlapUnmeasured(plans, blocks) ==
    FoldLeft(LAMBDA done, plan :
                Append(done, [plan EXCEPT !.slices = (IF done = << >> THEN << >> ELSE OverlapFrom(Last(done), plan, blocks)) \o @]),
             << >>, plans)

AddWholeBlockOverlap(plans, blocks) ==
    LET add(done, plan) ==
            LET overlap == IF done = << >> THEN << >> ELSE OverlapFrom(Last(done), plan, blocks)
                longer == [plan EXCEPT !.slices = overlap \o @]
            IN Append(done, IF MeasureSlices(longer.slices, blocks) <= MaxChunkTokens THEN longer ELSE plan)
    IN FoldLeft(add, << >>, plans)

(* The chunks the plans of every unit stand for; provisional ids are counted *)
(* from nextId.                                                              *)
ChunksOfPlans(plans, ordered, blocks, nextId) ==
    LET base(k) == nextId + Total([j \in 1 .. k - 1 |-> Len(plans[j])])
        chunk(k, i) ==
            [id |-> base(k) + i - 1, unit |-> ordered[k].id, ordinal |-> i - 1,
             split |-> plans[k][i].split, slices |-> plans[k][i].slices,
             text |-> Reconstruct(plans[k][i].slices, blocks),
             previous |-> IF i = 1 THEN Nobody ELSE base(k) + i - 2,
             next |-> IF i = Len(plans[k]) THEN Nobody ELSE base(k) + i]
    IN FlattenSeq([k \in DOMAIN ordered |-> [i \in DOMAIN plans[k] |-> chunk(k, i)]])

(* generateManagedChunks *)
GenerateManagedChunks(blocks, units, nextId) ==
    LET searchable(u) == \E id \in Elements(u.blocks) : IsSearchable(ById(blocks, id))
        ordered == SelectSeq(units, searchable)
        own(u) == [k \in DOMAIN u.blocks |-> ById(blocks, u.blocks[k])]
    IN ChunksOfPlans([k \in DOMAIN ordered |-> AddWholeBlockOverlap(CreateChunkPlans(own(ordered[k]), blocks), blocks)],
                     ordered, blocks, nextId)

(* createManagedChunkRevisionId: neither the ordinal nor the neighbours. *)
ChunkRevision(c) == [id |-> c.id, unit |-> c.unit, slices |-> c.slices, text |-> c.text, split |-> c.split]
=============================================================================
