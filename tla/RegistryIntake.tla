--------------------------- MODULE RegistryIntake ---------------------------
(***************************************************************************)
(* Registry (packages/registry-lifecycle) for one source: consumers that   *)
(* take publications in (claimPublication and intakePublication) and       *)
(* operators who decide about cards (approve, rollback, reject, disable),  *)
(* over registry.db.                                                       *)
(*                                                                         *)
(* A consumer is a process: its registry_consume lane admits one claim at  *)
(* a time.  The daemon is one, every `ingest` command is another.  An      *)
(* operator is a process as well.  A use case reads its rows one by one    *)
(* and ends with a single transaction that checks nothing again, so the    *)
(* steps of two processes interleave between any two reads.  The           *)
(* notifications a consumer gets may be late, repeated and out of order;   *)
(* a run may end after any step.                                           *)
(*                                                                         *)
(* A card is its unit.  A version is named by its publication and the      *)
(* consumer that made it, which the random ids of the code keep apart.     *)
(* All units live in the one index of the source's document, rebuilt by    *)
(* each publication; only Markdown sources exist, so a coordinate a card   *)
(* names is never lost while its unit is there (findLostCoordinates).      *)
(***************************************************************************)
EXTENDS Integers, Sequences, FiniteSets

CONSTANTS Units,        \* knowledge units, and so cards
          Consumers,    \* processes that take publications in
          Operators,    \* operator commands that may run at the same time
          NoVersion,    \* no current version
          MaxCards,     \* ceiling on the cards of the catalog
          MaxPublications,  \* bound on the chain
          MaxDecisions,     \* bound on operator commands
          MaxFaults         \* bound on intakes cut short

Version == [pub : Nat, by : Consumers, valid : BOOLEAN]

ASSUME RegistryAssumption ==
    /\ IsFiniteSet(Units) /\ NoVersion \notin Version
    /\ MaxCards \in Nat /\ MaxPublications \in Nat
    /\ MaxDecisions \in Nat /\ MaxFaults \in Nat

VARIABLES feed,         \* publications: sequence of unit -> kind of change
          cards,        \* cards and card_versions
          trail,        \* unit -> the pointer the lifecycle events account for
          processed,    \* consumer_checkpoints
          cursor,       \* consumer_source_cursors, 0 before the first
          intake,       \* consumer -> locals of intakePublication
          desk,         \* operator -> locals of an operator command
          overlapped,   \* whether two processes have ever worked at the same time
          decisions, faults

registryVars == <<cards, trail, processed, cursor>>
vars == <<feed, cards, trail, processed, cursor, intake, desk, overlapped, decisions,
          faults>>

Kinds == {"absent", "added", "updated", "unchanged", "removed"}
Present == {"added", "updated", "unchanged"}

\* A card row with its versions in append order, the pointer to the version it
\* serves, and the version whose words the row shows.
Card == [versions : Seq(Version), current : Version \cup {NoVersion},
         meaning : Version \cup {NoVersion}]

\* createCardVersionHistory, and a row that does not exist.
NoCard == [versions |-> <<>>, current |-> NoVersion, meaning |-> NoVersion]
Exists(u) == cards[u].versions # <<>>
VersionsOf(u) == {cards[u].versions[i] : i \in DOMAIN cards[u].versions}
Serving == {u \in Units : cards[u].current # NoVersion}

\* The copy of a card a use case works on: the pointer and the words it read
\* or decided on and the version it appends, if any.  Versions already stored
\* are never rewritten, so the rest of the copy writes nothing.
Copy == [pointer : Version \cup {NoVersion}, meaning : Version \cup {NoVersion},
         fresh : Version \cup {NoVersion}]

\* findCard
CopyOf(u) == [pointer |-> cards[u].current, meaning |-> cards[u].meaning,
              fresh |-> NoVersion]

IdleIntake == [pc |-> "idle", pub |-> 0, draft |-> <<>>, withdrawn |-> {},
               impacted |-> {}]
IdleDesk == [pc |-> "idle", kind |-> "reject", card |-> NoVersion,
             version |-> NoVersion, pointer |-> NoVersion, meaning |-> NoVersion]

Init ==
    /\ feed = <<>>
    /\ cards = [u \in Units |-> NoCard]
    /\ trail = [u \in Units |-> NoVersion]
    /\ processed = {} /\ cursor = 0
    /\ intake = [c \in Consumers |-> IdleIntake]
    /\ desk = [o \in Operators |-> IdleDesk]
    /\ overlapped = FALSE /\ decisions = 0 /\ faults = 0

AllIdle == /\ \A c \in Consumers : intake[c].pc = "idle"
           /\ \A o \in Operators : desk[o].pc = "idle"

\* A use case begins, alone or not.
Begin == overlapped' = (overlapped \/ ~AllIdle)

-----------------------------------------------------------------------------
(* Ingestion                                                               *)

\* computePublicationChanges: a publication and the changes it declares
\* against its predecessor.
Delta(previous, present, edited) ==
    [u \in Units |->
        CASE u \in present /\ u \notin previous -> "added"
          [] u \in present /\ u \in previous /\ u \in edited -> "updated"
          [] u \in present /\ u \in previous /\ u \notin edited -> "unchanged"
          [] u \notin present /\ u \in previous -> "removed"
          [] OTHER -> "absent"]

UnitsOf(p) == IF p = 0 THEN {} ELSE {u \in Units : feed[p][u] \in Present}

Publish ==
    /\ Len(feed) < MaxPublications
    /\ \E present, edited \in SUBSET Units :
         /\ edited \subseteq present \cap UnitsOf(Len(feed))
         /\ present # UnitsOf(Len(feed)) \/ edited # {}
         /\ feed' = Append(feed, Delta(UnitsOf(Len(feed)), present, edited))
    /\ UNCHANGED <<registryVars, intake, desk, overlapped, decisions, faults>>

-----------------------------------------------------------------------------
(* Rows                                                                    *)

\* Mutation of WriteCard: the newest version comes first.
WriteCardNewestFirst(u, copy) ==
    [versions |-> IF copy.fresh = NoVersion THEN cards[u].versions
                  ELSE <<copy.fresh>> \o cards[u].versions,
     current  |-> copy.pointer,
     meaning  |-> copy.meaning]

\* writeCard: the card row is overwritten, a version is only ever appended.
WriteCard(u, copy) ==
    [versions |-> IF copy.fresh = NoVersion THEN cards[u].versions
                  ELSE Append(cards[u].versions, copy.fresh),
     current  |-> copy.pointer,
     meaning  |-> copy.meaning]

\* Mutation of WriteConsumption: the cursor moves without the claim record.
WriteCursorOnly(p) == cursor' = p /\ UNCHANGED processed

\* writeConsumption: the claim record, and the cursor whatever it was.
WriteConsumption(p) == processed' = processed \cup {p} /\ cursor' = p

-----------------------------------------------------------------------------
(* Intake                                                                  *)

\* locateInChain for publication p, whose predecessor is p - 1.
Locate(at, p) == CASE at = 0 /\ p = 1 -> "first"
                   [] at # 0 /\ p = 1 -> "fork"
                   [] p # 1 /\ p - 1 = at -> "next"
                   [] OTHER -> "gap"

\* claimPublication up to hasProcessed.  A publication that was processed is
\* answered with already_claimed and nothing happens.
Claim(c, p) ==
    /\ intake[c].pc = "idle" /\ Begin
    /\ p \in DOMAIN feed /\ p \notin processed
    /\ intake' = [intake EXCEPT ![c] = [IdleIntake EXCEPT !.pc = "locate", !.pub = p]]
    /\ UNCHANGED <<feed, registryVars, desk, decisions, faults>>

\* Mutation of Follow: a deferred publication holds the lane until its
\* predecessor lands.
FollowWaits(c) ==
    /\ intake[c].pc = "locate"
    /\ Locate(cursor, intake[c].pub) \in {"first", "next"}
    /\ intake' = [intake EXCEPT ![c].pc = "cards"]
    /\ UNCHANGED <<feed, registryVars, desk, overlapped, decisions, faults>>

\* findCursor and refuse: a gap is deferred and a fork reported, both
\* without a trace.
Follow(c) ==
    /\ intake[c].pc = "locate"
    /\ intake' = [intake EXCEPT ![c] =
                    IF Locate(cursor, intake[c].pub) \in {"first", "next"}
                    THEN [@ EXCEPT !.pc = "cards"] ELSE IdleIntake]
    /\ UNCHANGED <<feed, registryVars, desk, overlapped, decisions, faults>>

\* appendCardVersion: the new version goes behind the ones the card has.
AppendVersion(copy, v) == [copy EXCEPT !.fresh = v]

\* withdrawCurrentVersion: the pointer goes, words and versions stay.
WithdrawCurrentVersion(copy) == [copy EXCEPT !.pointer = NoVersion]

\* loadOrCreateCard: the stored card, or a new one with the words of its
\* first version.
LoadOrCreateCard(u, v) ==
    IF Exists(u) THEN CopyOf(u)
    ELSE [pointer |-> NoVersion, meaning |-> v, fresh |-> NoVersion]

\* toCardVersion: the verdict of the grounding rules on generated text is
\* either.
ClaimedVersions(c) ==
    {[pub |-> intake[c].pub, by |-> c, valid |-> valid] : valid \in BOOLEAN}

\* addClaimedVersions for one unit.
AddClaimedVersion(c, u) ==
    /\ intake[c].pc = "cards"
    /\ u \in UnitsOf(intake[c].pub) \ DOMAIN intake[c].draft
    /\ \E v \in ClaimedVersions(c) :
         LET copy == AppendVersion(LoadOrCreateCard(u, v), v)
         IN  intake' = [intake EXCEPT ![c].draft =
                [w \in DOMAIN @ \cup {u} |-> IF w = u THEN copy ELSE @[w]]]
    /\ UNCHANGED <<feed, registryVars, desk, overlapped, decisions, faults>>

\* The search scope of a unit as publication p states it: a unit that did not
\* change is published again as it was, with the index it was built into.
ScopeAt(u, p) ==
    [index |-> CHOOSE q \in 1..p :
                 /\ feed[q][u] \in {"added", "updated"}
                 /\ \A r \in (q + 1)..p : feed[r][u] = "unchanged",
     selection |-> {u}]

\* findLostCoordinates: the scope of a card no longer covers its own unit.
LosesCoordinate(scope, u) == u \notin scope.selection

\* documentIndexesWithRemovals: a card that serves what p removed names the
\* index the removed knowledge is in.
HasRemovals(p) == \E w \in Serving : feed[p][w] = "removed"

\* findIndexDrift
FindIndexDrift(scope, p, u) ==
    IF scope.index = ScopeAt(u, p).index THEN {}
    ELSE {IF HasRemovals(p) THEN "indexVersionSupersededByRemoval"
                            ELSE "indexVersionChanged"}

\* describeContentChange: any updated unit has a new scope, which is told
\* apart from drift only where there is none.
DescribeContentChange(u, p, drifted) ==
    IF feed[p][u] = "updated" /\ ~drifted THEN {"publishedScopes"} ELSE {}

\* Mutation of Impact: knowledge that disappeared is put up for review.
ImpactKeepsRemoved(u, p) ==
    IF feed[p][u] \in {"removed", "updated"} THEN "review" ELSE "none"

\* analyzeCardImpact: what the change of its unit means for a serving card.
Impact(u, p) ==
    LET scope == ScopeAt(u, cards[u].current.pub)
        drift == FindIndexDrift(scope, p, u)
        reasons == drift \cup DescribeContentChange(u, p, drift # {})
    IN  IF feed[p][u] = "removed" THEN "disable"
        ELSE IF feed[p][u] \notin {"added", "updated"} THEN "none"
        ELSE IF LosesCoordinate(scope, u)
                \/ "indexVersionSupersededByRemoval" \in reasons THEN "block"
        ELSE IF reasons # {} THEN "review" ELSE "none"

\* withdraws
Withdraws(decision) == decision \in {"disable", "block"}

\* Mutation of AssessImpact: the impacts are applied to copies read from the
\* store, which the drafted cards then overwrite.
AssessImpactBesideDraft(c) ==
    /\ intake[c].pc = "cards"
    /\ UnitsOf(intake[c].pub) \subseteq DOMAIN intake[c].draft
    /\ LET p == intake[c].pub
           impacted == {u \in Serving : Impact(u, p) # "none"}
           gone == {u \in Serving : Withdraws(Impact(u, p))}
       IN  intake' = [intake EXCEPT ![c] =
             [@ EXCEPT !.pc = "impacts", !.withdrawn = gone, !.impacted = impacted]]
    /\ UNCHANGED <<feed, registryVars, desk, overlapped, decisions, faults>>

\* applyImpacts: the current versions are listed and judged; the cards that
\* have to stop serving lose the pointer in the draft.
AssessImpact(c) ==
    /\ intake[c].pc = "cards"
    /\ UnitsOf(intake[c].pub) \subseteq DOMAIN intake[c].draft
    /\ LET p == intake[c].pub
           draft == intake[c].draft
           impacted == {u \in Serving : Impact(u, p) # "none"}
           gone == {u \in Serving : Withdraws(Impact(u, p))}
       IN  intake' = [intake EXCEPT ![c] =
             [@ EXCEPT !.pc = "impacts", !.withdrawn = gone, !.impacted = impacted,
                       !.draft = [u \in DOMAIN draft |->
                           IF u \in gone THEN WithdrawCurrentVersion(draft[u])
                                         ELSE draft[u]]]]
    /\ UNCHANGED <<feed, registryVars, desk, overlapped, decisions, faults>>

\* cardUnderImpact for a card the draft does not hold.
LoadImpacted(c, u) ==
    /\ intake[c].pc = "impacts"
    /\ u \in intake[c].impacted \ DOMAIN intake[c].draft
    /\ LET copy == IF u \in intake[c].withdrawn
                   THEN WithdrawCurrentVersion(CopyOf(u)) ELSE CopyOf(u)
       IN  intake' = [intake EXCEPT ![c].draft =
                [w \in DOMAIN @ \cup {u} |-> IF w = u THEN copy ELSE @[w]]]
    /\ UNCHANGED <<feed, registryVars, desk, overlapped, decisions, faults>>

\* SqliteIntakeStore.commit: cards, events, claim record and cursor together.
Commit(c) ==
    /\ intake[c].pc = "impacts"
    /\ intake[c].impacted \subseteq DOMAIN intake[c].draft
    /\ cards' = [u \in Units |-> IF u \in DOMAIN intake[c].draft
                                 THEN WriteCard(u, intake[c].draft[u])
                                 ELSE cards[u]]
    /\ trail' = [u \in Units |-> IF u \in intake[c].withdrawn THEN NoVersion
                                                              ELSE trail[u]]
    /\ WriteConsumption(intake[c].pub)
    /\ intake' = [intake EXCEPT ![c] = IdleIntake]
    /\ UNCHANGED <<feed, desk, overlapped, decisions, faults>>

\* An error (a busy database, a generator that fails) or the end of the
\* process: what was read is lost, nothing was written.
Stop(c) ==
    /\ intake[c].pc # "idle"
    /\ faults < MaxFaults
    /\ faults' = faults + 1
    /\ intake' = [intake EXCEPT ![c] = IdleIntake]
    /\ UNCHANGED <<feed, registryVars, desk, overlapped, decisions>>

-----------------------------------------------------------------------------
(* Operator commands                                                       *)

\* precedesCurrentCardVersion
Precedes(u, v) ==
    \E i, j \in DOMAIN cards[u].versions :
        /\ i < j
        /\ cards[u].versions[i] = v /\ cards[u].versions[j] = cards[u].current

\* Mutation of MayPromote: the verdict is not looked at.
MayPromoteAny(u, v) == v \in VersionsOf(u)

\* promoteCardVersion accepts a validated version of the card.
MayPromote(u, v) == v \in VersionsOf(u) /\ v.valid

BeginCommand(o) ==
    /\ desk[o].pc = "idle" /\ Begin
    /\ decisions < MaxDecisions
    /\ decisions' = decisions + 1

\* The card a command has loaded, and what it will write of it.
Load(o, step, kind, u, v, pointer, meaning) ==
    desk' = [desk EXCEPT ![o] = [pc |-> step, kind |-> kind, card |-> u,
                                 version |-> v, pointer |-> pointer,
                                 meaning |-> meaning]]

\* approveCardVersion: the card is loaded and the promotion decided; the
\* promoted version's words become the card's.
Approve(o, u) ==
    /\ BeginCommand(o)
    /\ \E v \in VersionsOf(u) :
         MayPromote(u, v) /\ Load(o, "limits", "promote", u, v, v, v)
    /\ UNCHANGED <<feed, registryVars, intake, faults>>

\* rollbackCardVersion: the direction is checked on one reading of the card,
\* and approveCardVersion loads it again.
Rollback(o, u) ==
    /\ BeginCommand(o)
    /\ \E v \in VersionsOf(u) :
         Precedes(u, v) /\ Load(o, "reload", "promote", u, v, NoVersion, NoVersion)
    /\ UNCHANGED <<feed, registryVars, intake, faults>>

RollbackReload(o) ==
    /\ desk[o].pc = "reload"
    /\ LET u == desk[o].card
           v == desk[o].version
       IN  IF MayPromote(u, v) THEN Load(o, "limits", "promote", u, v, v, v)
           ELSE desk' = [desk EXCEPT ![o] = IdleDesk]
    /\ UNCHANGED <<feed, registryVars, intake, overlapped, decisions, faults>>

\* rejectCardVersion: the card is saved as it was read, with the refusal.
Reject(o, u) ==
    /\ BeginCommand(o)
    /\ \E v \in VersionsOf(u) :
         Load(o, "save", "reject", u, v, cards[u].current, cards[u].meaning)
    /\ UNCHANGED <<feed, registryVars, intake, faults>>

\* disableCard
Disable(o, u) ==
    /\ BeginCommand(o)
    /\ Exists(u)
    /\ Load(o, "save", "withdraw", u, NoVersion, NoVersion, cards[u].meaning)
    /\ UNCHANGED <<feed, registryVars, intake, faults>>

\* checkCatalogSnapshotLimits on the catalog the promotion would produce.
FitsCatalog(u) == Cardinality(Serving \ {u}) + 1 <= MaxCards

\* refuseOversizedCatalog
CheckLimits(o) ==
    /\ desk[o].pc = "limits"
    /\ desk' = [desk EXCEPT ![o] =
                  IF FitsCatalog(desk[o].card) THEN [@ EXCEPT !.pc = "save"] ELSE IdleDesk]
    /\ UNCHANGED <<feed, registryVars, intake, overlapped, decisions, faults>>

\* saveCard: the copy and the event that explains it, in one transaction.
SaveCard(o) ==
    /\ desk[o].pc = "save"
    /\ LET u == desk[o].card
       IN  /\ cards' = [cards EXCEPT ![u] =
                 WriteCard(u, [pointer |-> desk[o].pointer,
                               meaning |-> desk[o].meaning, fresh |-> NoVersion])]
           /\ trail' = [trail EXCEPT ![u] =
                 IF desk[o].kind = "reject" THEN @ ELSE desk[o].pointer]
    /\ desk' = [desk EXCEPT ![o] = IdleDesk]
    /\ UNCHANGED <<feed, processed, cursor, intake, overlapped, decisions, faults>>

-----------------------------------------------------------------------------
ConsumerStep(c) ==
    \/ Follow(c) \/ AssessImpact(c) \/ Commit(c)
    \/ \E u \in Units : AddClaimedVersion(c, u) \/ LoadImpacted(c, u)

OperatorStep(o) ==
    \/ \E u \in Units : Approve(o, u) \/ Rollback(o, u) \/ Reject(o, u) \/ Disable(o, u)
    \/ RollbackReload(o) \/ CheckLimits(o) \/ SaveCard(o)

Next ==
    \/ Publish
    \/ \E c \in Consumers : \/ \E p \in DOMAIN feed : Claim(c, p)
                            \/ ConsumerStep(c)
                            \/ Stop(c)
    \/ \E o \in Operators : OperatorStep(o)

\* An intake that has begun goes on; a publication that is not processed is
\* notified again and again (the outbox reschedules it), so a consumer that
\* keeps becoming idle takes it up in the end.
Fairness ==
    \A c \in Consumers :
        /\ WF_vars(ConsumerStep(c))
        /\ \A p \in 1..MaxPublications : SF_vars(Claim(c, p))

Spec == Init /\ [][Next]_vars
FairSpec == Spec /\ Fairness
-----------------------------------------------------------------------------
(* Properties                                                              *)

Steps == {"idle", "locate", "cards", "impacts"}

\* Types of the rows and of the locals of every running use case.
RegistryTypeOK ==
    /\ feed \in Seq([Units -> Kinds])
    /\ cards \in [Units -> Card]
    /\ trail \in [Units -> Version \cup {NoVersion}]
    /\ processed \subseteq DOMAIN feed /\ cursor \in 0..Len(feed)
    /\ \A c \in Consumers :
         /\ intake[c].pc \in Steps
         /\ intake[c].pub \in 0..Len(feed)
         /\ DOMAIN intake[c].draft \subseteq Units
         /\ \A u \in DOMAIN intake[c].draft : intake[c].draft[u] \in Copy
         /\ intake[c].withdrawn \subseteq intake[c].impacted
         /\ intake[c].impacted \subseteq Units
    /\ \A o \in Operators :
         /\ desk[o].pc \in {"idle", "reload", "limits", "save"}
         /\ desk[o].kind \in {"promote", "reject", "withdraw"}
         /\ desk[o].pc # "idle" => desk[o].card \in Units
         /\ {desk[o].pointer, desk[o].meaning} \subseteq Version \cup {NoVersion}
    /\ overlapped \in BOOLEAN /\ decisions \in 0..MaxDecisions /\ faults \in 0..MaxFaults

\* A card only ever serves one of its own stored versions, one that passed
\* grounding, in the very words that were judged, however old the copy is that
\* a use case writes back (approve-card-version.ts: "an approval cannot push an
\* unvalidated version into service"; loadOrCreateCard: a card whose words
\* differed "would make the grounding report describe words the catalog never
\* serves").
ServedIsValidated ==
    \A u \in Serving :
        /\ cards[u].current \in VersionsOf(u) /\ cards[u].current.valid
        /\ cards[u].meaning = cards[u].current

\* As long as use cases take turns, replaying the lifecycle events of a card
\* gives its current pointer, however drafts and impacts fall together
\* (saveCard: "a decision is never visible without the audit record that
\* explains it"), and the catalog stays within its ceiling, although intakes
\* and other decisions change it between two approvals (refuseOversizedCatalog).
CatalogAsDecided ==
    ~overlapped => /\ \A u \in Units : cards[u].current = trail[u]
                   /\ Cardinality(Serving) <= MaxCards

\* As long as use cases take turns, the step that consumes a publication takes
\* every card whose unit it removed out of service (applyImpacts: disable).
RemovedStopsServing ==
    [][\A u \in Units :
          ~overlapped /\ cursor' # cursor /\ feed[cursor'][u] = "removed"
          => cards'[u].current = NoVersion]_vars

\* Every publication is consumed in the end, in whatever order the
\* notifications arrive: one that is deferred becomes consumable once its
\* predecessor has been processed.
EventuallyConsumed ==
    \A p \in 1..MaxPublications : p \in DOMAIN feed ~> p \in processed

\* Registry implements the abstract consumption of a chain.
PubsOf(u) == [i \in DOMAIN cards[u].versions |-> cards[u].versions[i].pub]
ChainBar == [p \in DOMAIN feed |-> UnitsOf(p)]
AddedBar == [u \in Units |-> PubsOf(u)]

Abstract == INSTANCE PublicationConsumption WITH
    chain <- ChainBar, consumed <- cursor, added <- AddedBar

\* Publications take effect whole, one at a time and in chain order.
ConsumesInOrder == Abstract!Spec
=============================================================================
