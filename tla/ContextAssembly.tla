-------------------------- MODULE ContextAssembly ---------------------------
(* How the reads of a plan become one answer: which results are believed,    *)
(* conflicts put aside, occurrences of a chunk fused, repeated content       *)
(* dropped and the rest cut to the budget. Pure operators of                 *)
(* selection-delivery: context-assembly.ts, assemble-context.ts and the      *)
(* budget of context-application.ts.                                         *)
(*                                                                           *)
(* A read is [target, status, chunks] with chunks a sequence of              *)
(* [rank, rev, id, text, digest]; a candidate is a chunk with its target,    *)
(* which stands for the one item that reads it.                              *)
EXTENDS SelectionPlanning

CONSTANTS
    TextLength,        \* text -> its characters
    MaxCharacters,     \* the configured budget
    MaxChunks

ASSUME AssemblyAssumption ==
    /\ {MaxCharacters, MaxChunks} \subseteq Nat \ {0}
    /\ \A t \in DOMAIN TextLength : TextLength[t] \in Nat

(* narrowContextBudget: a request may ask for less, never for more. *)
BudgetRefused(requested) == requested <= 0 \/ requested > MaxCharacters

(***************************************************************************)
(* indexOutcomes and judgeOutcome                                          *)
(***************************************************************************)
(* Every read answers a planned target, and no target is answered twice. *)
ReadsIndexable(reads, targets) ==
    /\ \A k \in DOMAIN reads : reads[k].target \in targets
    /\ \A j, k \in DOMAIN reads : reads[j].target = reads[k].target => j = k

OutcomeHoldsTogether(chunks, limit) ==
    /\ Len(chunks) <= limit
    /\ \A j, k \in DOMAIN chunks : j # k =>
          chunks[j].rank # chunks[k].rank /\ chunks[j].rev # chunks[k].rev
    /\ \A k \in DOMAIN chunks : chunks[k].rank \in 1..Len(chunks) /\ TextLength[chunks[k].text] > 0


JudgeOutcome(target, reads, limit) ==
    LET own == {k \in DOMAIN reads : reads[k].target = target}
        failed(stage) == [kind |-> "failed", stage |-> stage, chunks |-> << >>]
    IN IF own = {} THEN failed("assembly")
       ELSE LET read == reads[CHOOSE k \in own : TRUE]
            IN CASE read.status # "fulfilled" -> failed(read.status)
                 [] read.status = "fulfilled" /\ ~OutcomeHoldsTogether(read.chunks, limit) -> failed("assembly")
                 [] OTHER -> [kind |-> "fulfilled", stage |-> "none", chunks |-> read.chunks]

Candidate(t, c) ==
    [target |-> t, rank |-> c.rank, rev |-> c.rev, id |-> c.id, text |-> c.text, digest |-> c.digest]

CandidatesOf(verdicts) ==
    UNION {{Candidate(t, verdicts[t].chunks[k]) : k \in DOMAIN verdicts[t].chunks} :
           t \in {u \in DOMAIN verdicts : verdicts[u].kind = "fulfilled"}}

(***************************************************************************)
(* quarantineConflicts                                                     *)
(***************************************************************************)
SameRevision(a, b) == a.id = b.id /\ a.text = b.text /\ a.digest = b.digest

SameContent(a, b) == a.text = b.text

(* A group of one revision, or of one digest, that does not agree takes every *)
(* target of its members with it.                                             *)
FindConflictingTargets(candidates) ==
    {c.target : c \in {d \in candidates :
        \/ \E a, b \in candidates : a.rev = d.rev /\ b.rev = d.rev /\ ~SameRevision(a, b)
        \/ \E a, b \in candidates : a.digest = d.digest /\ b.digest = d.digest /\ ~SameContent(a, b)}}

QuarantinedTargets(candidates) ==
    LET first == FindConflictingTargets(candidates)
        second == FindConflictingTargets({c \in candidates : c.target \notin first})
    IN first \cup second

(***************************************************************************)
(* fuseByChunkRevision, dropRepeatedContent, applyBudget                   *)
(***************************************************************************)
(* 1 / (60 + rank) for ranks 1 to 3, as multiples of 1 / (61 * 62 * 63). *)
ReciprocalRank(rank) == 238266 \div (60 + rank)

FuseRevision(candidates, rev) ==
    LET group == {c \in candidates : c.rev = rev}
        best == CHOOSE c \in group : \A d \in group \ {c} :
                    c.rank < d.rank \/ (c.rank = d.rank /\ c.target < d.target)
    IN [score |-> SumFunction([c \in group |-> ReciprocalRank(c.rank)]),
        target |-> best.target, rev |-> rev, text |-> best.text, digest |-> best.digest]

FusedSet(candidates) == {FuseRevision(candidates, r) : r \in {c.rev : c \in candidates}}

Fused(candidates) ==
    LET all == FusedSet(candidates)
    IN Ordered(all, {p \in all \X all :
           p[1].score > p[2].score \/ (p[1].score = p[2].score /\ p[1].rev < p[2].rev)})

FusedAway(candidates) ==
    {[target |-> c.target, rev |-> c.rev, reason |-> "duplicate_chunk_revision"] :
        c \in {d \in candidates : d.target # FuseRevision(candidates, d.rev).target}}

(* The first of each content, in their order. *)
FirstPlaces(fused) == {k \in DOMAIN fused : \A j \in 1..k - 1 : fused[j].digest # fused[k].digest}

Distinct(fused) ==
    LET places == Increasing(FirstPlaces(fused))
    IN [n \in DOMAIN places |-> fused[places[n]]]

Repeated(fused) ==
    {[target |-> fused[k].target, rev |-> fused[k].rev, reason |-> "duplicate_content"] :
        k \in DOMAIN fused \ FirstPlaces(fused)}

CharactersOf(chunks) == SumFunction([k \in DOMAIN chunks |-> TextLength[chunks[k].text]])

(* The longest start of the sequence that fits: the first chunk that does    *)
(* not fit ends it, also when a later one would.                             *)
WithinBudget(distinct, n, characters) ==
    n <= MaxChunks /\ CharactersOf(SubSeq(distinct, 1, n)) <= characters

(* The mutant: the chunk that reaches the limit is still taken. *)
AppliedBudgetOneMore(distinct, characters) ==
    LET fitting == {n \in 0..Len(distinct) : WithinBudget(distinct, n, characters)}
    IN SubSeq(distinct, 1, Min({Len(distinct), Max(fitting) + 1}))

AppliedBudget(distinct, characters) ==
    LET fitting == {n \in 0..Len(distinct) : WithinBudget(distinct, n, characters)}
    IN SubSeq(distinct, 1, Max(fitting))


Exhausted(distinct, admitted) ==
    {[target |-> distinct[k].target, rev |-> distinct[k].rev, reason |-> "budget_exhausted"] :
        k \in Len(admitted) + 1..Len(distinct)}

(***************************************************************************)
(* assembleContext: the answer, one item for every read of the plan.       *)
(***************************************************************************)
AssembleContext(targets, reads, limit, characters) ==
    LET verdicts == [t \in targets |-> JudgeOutcome(t, reads, limit)]
        candidates == CandidatesOf(verdicts)
        quarantined == QuarantinedTargets(candidates)
        sound == {c \in candidates : c.target \notin quarantined}
        fused == Fused(sound)
        distinct == Distinct(fused)
        admitted == AppliedBudget(distinct, characters)
        omitted == FusedAway(sound) \cup Repeated(fused) \cup Exhausted(distinct, admitted)
    IN [t \in targets |->
           IF verdicts[t].kind = "failed" \/ t \in quarantined
           THEN [status |-> "failed",
                 stage |-> IF t \in quarantined THEN "assembly" ELSE verdicts[t].stage,
                 chunks |-> {}, omitted |-> {}]
           ELSE [status |-> "fulfilled", stage |-> "none",
                 chunks |-> {[contextRank |-> k, rev |-> admitted[k].rev, text |-> admitted[k].text,
                              digest |-> admitted[k].digest] :
                                k \in {n \in DOMAIN admitted : admitted[n].target = t}},
                 omitted |-> {o \in omitted : o.target = t}]]
=============================================================================
