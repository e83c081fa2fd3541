----------------------------- MODULE MCContent ------------------------------
(* The inputs of the two specifications that work on content, for MCRequests: *)
(* what a query selects from, and what a document is rewritten to.           *)
EXTENDS SelectContext, DocumentReindex, TLC

(* Catalogs, queries and reads: small ones in which cards share words,       *)
(* scopes and documents, and reads that agree, repeat each other and         *)
(* conflict.                                                                 *)
Field(kind, tokens) == [field |-> kind, tokens |-> tokens, opaque |-> FALSE]
Scope(ref, kind, def) == [ref |-> ref, kind |-> kind, def |-> def, bytes |-> 2]
Open == [allowedUsage |-> {"answer"}, sensitive |-> FALSE]
Card(fields, scopes) == [policy |-> Open, fields |-> fields, scopes |-> scopes]

Doc1 == Scope(1, "managed_document", "d1")
Doc2 == Scope(2, "managed_document", "d2")
Doc3 == Scope(3, "managed_document", "d3")
Sql4 == Scope(4, "sql_source", "q4")
Other1 == Scope(1, "managed_document", "other")

Refund == Card({Field("keyword", <<"refund">>), Field("alias", <<"refund", "rule">>), Field("alias", <<"money", "back">>)}, {Doc1, Doc2})
Rules == Card({Field("keyword", <<"refund">>), Field("keyword", <<"rule">>), Field("scope", <<"rule", "book">>)}, {Doc2})
Ledger == Card({Field("alias", <<"ledger">>), Field("alias", <<"refund", "table">>), Field("keyword", <<"table">>)}, {Sql4, Doc2})
Payments == Card({Field("keyword", <<"refund">>), Field("description", <<"money", "back", "refund">>)}, {Doc3})
Broad == Card({Field("keyword", <<"refund", "rule">>), Field("alias", <<"table", "ledger">>), Field("alias", <<"money", "back">>)}, {Doc1, Doc2, Doc3})
Guide == Card({Field("alias", <<"refund", "desk">>), Field("keyword", <<"refund">>), Field("alias", <<"desk">>),
               Field("description", <<"rate", "rule", "book">>)}, {Doc1})
Tariff == Card({Field("alias", <<"rate">>), Field("alias", <<"tariff">>)}, {Doc3})
Book == Card({Field("alias", <<"rule", "book">>), Field("alias", <<"manual">>)}, {Doc1, Doc2})
Conflicting == Card({Field("alias", <<"refund", "rule">>)}, {Other1})
Secret == [Rules EXCEPT !.policy = [allowedUsage |-> {"answer"}, sensitive |-> TRUE]]
Foreign == [Ledger EXCEPT !.policy = [allowedUsage |-> {"train"}, sensitive |-> FALSE]]
Unreadable == [Payments EXCEPT !.policy = [allowedUsage |-> {}, sensitive |-> FALSE]]

Numbered(list) == [i \in DOMAIN list |-> [id |-> i] @@ list[i]]

MCCatalogs == {Numbered(list) : list \in
    {<< >>, <<Refund>>, <<Refund, Rules, Ledger>>, <<Broad, Refund, Rules>>, <<Refund, Conflicting>>,
     <<Secret, Foreign, Payments>>, <<Refund, Unreadable>>, <<Ledger, Payments>>, <<Refund, Rules, Ledger, Payments>>,
     <<Guide, Tariff, Book>>}}

MCQueries ==
    {<< >>, <<"refund">>, <<"refund", "rule">>, <<"refund", "and", "ledger">>, <<"the">>,
     <<"refund", "sep", "table", "sep", "money", "back">>,
     <<"quote", "refund", "and", "rule", "quote">>, <<"quote", "refund", "escape", "quote", "rule">>,
     <<"refund", "sep", "rule", "sep", "ledger", "sep", "money">>, <<"refunds", "of">>,
     <<"refund", "rate", "rule", "book">>, <<"refund", "rate", "sep", "rule", "book">>}

\* log(1 + n / f) / log(1 + n), for catalogs of up to four cards.
MCLogRatio == <<<<100>>, <<100, 63>>, <<100, 66, 50>>, <<100, 68, 52, 43>>>>

Vocabulary == {"refund", "refunds", "rule", "book", "ledger", "table", "money", "back", "the", "and", "of",
          "desk", "rate", "tariff", "manual"}
MCStemOf == [w \in Vocabulary |-> IF w = "refunds" THEN "refund" ELSE w]
MCIntentsOf == [w \in Vocabulary |-> IF w = "table" THEN {"sql_source"} ELSE IF w = "rule" THEN {"managed_document"} ELSE {}]
MCStartsWith == {<<"refunds", "refund">>}
MCContexts == {[usage |-> "answer", sensitiveAccess |-> a] : a \in {"allow", "deny"}}
MCLongQueries == {<<"refund", "sep", "rule", "sep", "ledger", "sep", "money">>}

C(rank, rev, text, digest) == [rank |-> rank, rev |-> rev, id |-> rev, text |-> text, digest |-> digest]
Got(chunks) == [status |-> "fulfilled", chunks |-> chunks]
MCReads ==
    {[status |-> "managed_search", chunks |-> << >>], [status |-> "deadline", chunks |-> << >>],
     Got(<< >>), Got(<<C(1, 1, "a", "A")>>), Got(<<C(1, 2, "b", "B"), C(2, 1, "a", "A")>>),
     Got(<<C(1, 3, "a", "A"), C(2, 2, "b", "B")>>), Got(<<C(1, 4, "c", "A")>>),
     Got(<<C(1, 1, "b", "B")>>), Got(<<C(1, 5, "b", "B"), C(1, 6, "c", "C")>>),
     Got(<<C(1, 7, "c", "C"), C(2, 7, "c", "C")>>), Got(<<C(2, 8, "long", "L")>>),
     Got(<<C(1, 8, "long", "L"), C(2, 6, "c", "C"), C(3, 1, "a", "A")>>), Got(<<C(1, 9, "empty", "E")>>)}
MCTextLength == [t \in {"a", "b", "c", "long", "empty"} |->
                    CASE t = "long" -> 3 [] t = "empty" -> 0 [] OTHER -> 1]

-----------------------------------------------------------------------------
(* One document and the rewritings of it that decide identity, under a       *)
(* policy scaled down to a chunk of at most 12 tokens.                       *)
Words(from, to) == [k \in 1 .. to - from + 1 |-> from + k - 1]
Node(kind, level, text) == [kind |-> kind, level |-> level, text |-> text]
Heading(level, word) == Node("heading", level, <<word>>)
Para(text) == Node("paragraph", 0, text)

Intro == <<Heading(1, 40), Para(<<1, 2, 3>>)>>
Long == Words(4, 16)                                             \* more than a chunk holds
Setup == <<Heading(2, 41), Para(Long), Para(<<17, 18, Stop>>)>>
Usage == <<Heading(2, 42), Para(<<19, 20>>), Para(<<21, 22, Stop, 23>>)>>
Base == Intro \o Setup \o Usage

OneWordEdited == Intro \o <<Heading(2, 41), Para([Long EXCEPT ![7] = 30]), Para(<<17, 18, Stop>>)>> \o Usage
Swapped == Intro \o Usage \o Setup
TitleRenamed == <<Heading(1, 43), Para(<<1, 2, 3>>)>> \o Setup \o Usage
SectionRewritten == Intro \o <<Heading(2, 44), Para(Long), Para(<<24, 25, 26>>)>> \o Usage
RepeatedParagraphs == Intro \o Setup \o Usage \o <<Para(<<17, 18, Stop>>), Para(<<19, 20>>)>>
Raised == Intro \o Setup \o <<Heading(1, 42)>> \o Tail(Usage) \o <<Para(<<24, 25>>), Para(Words(26, 36))>>
Capitals == Intro \o <<Heading(2, 41), Para(<<17, 68, Stop>>), Para(Long)>> \o Usage
Structured ==
    Intro \o Setup \o
    <<Heading(2, 42), Para(<<19, 20>>),
      Node("table", 1, <<31, 32, 0>> \o Words(1, 5) \o <<0>> \o Words(6, 10) \o <<0>> \o Words(11, 24)),
      Node("list_item", 0, <<33>>), Node("list_item", 1, <<34>>), Node("item_text", 0, <<35>>),
      Node("code", 0, Words(1, 7) \o <<0>> \o Words(8, 14) \o <<0, 15>>), Node("divider", 0, << >>)>>
Crowded ==                                                       \* a section beyond a unit
    Intro \o <<Heading(2, 41)>> \o [k \in 1 .. 5 |-> Para(Words(6 * k - 5, 6 * k))] \o <<Para(<<45, Stop>>)>>
Flat == [k \in 1 .. 5 |-> Para(Words(6 * k - 5, 6 * k))]         \* no headings
FlatLonger == Append(Flat, Para(<<31, 32, 33, 34, 35>>))
Partial == Intro \o <<Node("html", 0, <<36>>), Node("definition", 0, << >>)>>
Empty == << >>
Hollow == Intro \o <<Para(<< >>)>>

MCFiles == {Base, OneWordEdited, Swapped, TitleRenamed, SectionRewritten, RepeatedParagraphs, Raised, Capitals,
            Structured, Crowded, Flat, FlatLonger, Partial, Empty, Hollow}

MCFirstFiles == {Base}

(* Two windows are alike when they are about the same third of the words. *)
MCSimilarity(left, right) ==
    LET topic(texts) == {w \div 12 : w \in UNION {Elements(texts[k]) : k \in DOMAIN texts}}
    IN (1000 * Cardinality(topic(left) \cap topic(right))) \div Max({1, Cardinality(topic(left) \cup topic(right))})

=============================================================================
