------------------------ MODULE RegistryIntakeProofs ------------------------
(***************************************************************************)
(* Proofs about RegistryIntake, for any units, consumers, operators and    *)
(* bounds: what a card serves was validated, the catalog is what the       *)
(* events say as long as use cases take turns, and a single consumer takes *)
(* publications in in chain order.                                         *)
(***************************************************************************)
EXTENDS RegistryIntake, FiniteSetTheorems, TLAPS

MaybeVersion == Version \cup {NoVersion}

Drafts == UNION {[S -> Copy] : S \in SUBSET Units}

IntakeLocals == [pc : Steps, pub : Nat, draft : Drafts, withdrawn : SUBSET Units,
                 impacted : SUBSET Units]

DeskLocals == [pc : {"idle", "reload", "limits", "save"},
               kind : {"promote", "reject", "withdraw"},
               card : Units \cup {NoVersion}, version : MaybeVersion,
               pointer : MaybeVersion, meaning : MaybeVersion]

\* The rows and the locals are what RegistryTypeOK says, in a form that record
\* updates are easy to reason about with.
RowsOK ==
    /\ feed \in Seq([Units -> Kinds])
    /\ cards \in [Units -> Card]
    /\ trail \in [Units -> MaybeVersion]
    /\ processed \subseteq DOMAIN feed /\ cursor \in 0..Len(feed)
    /\ overlapped \in BOOLEAN /\ decisions \in 0..MaxDecisions /\ faults \in 0..MaxFaults

IntakesOK ==
    /\ intake \in [Consumers -> IntakeLocals]
    /\ \A c \in Consumers :
         /\ intake[c].pub \in 0..Len(feed)
         /\ intake[c].pc # "idle" => intake[c].pub \in DOMAIN feed
         /\ intake[c].withdrawn \subseteq intake[c].impacted

DesksOK ==
    /\ desk \in [Operators -> DeskLocals]
    /\ \A o \in Operators : desk[o].pc # "idle" => desk[o].card \in Units

TypesOK == RowsOK /\ IntakesOK /\ DesksOK

\* A pointer that may be written into the row of card u, with these words.
Honest(u, pointer, meaning) ==
    pointer # NoVersion => /\ pointer \in VersionsOf(u) /\ pointer.valid
                           /\ meaning = pointer

\* Every copy a use case holds, however old, may still be written.
CopiesHonest ==
    \A c \in Consumers : \A u \in DOMAIN intake[c].draft :
        Honest(u, intake[c].draft[u].pointer, intake[c].draft[u].meaning)

DesksHonest ==
    \A o \in Operators :
        desk[o].pc \in {"limits", "save"} =>
            Honest(desk[o].card, desk[o].pointer, desk[o].meaning)

CardsHonest == \A u \in Units : Honest(u, cards[u].current, cards[u].meaning)

ServiceInv == TypesOK /\ CopiesHonest /\ DesksHonest /\ CardsHonest

-----------------------------------------------------------------------------
(* Types                                                                   *)

LEMMA EmptyDraft == <<>> \in Drafts /\ DOMAIN <<>> = {}
<1>1. <<>> \in [{} -> Copy] /\ {} \in SUBSET Units
  OBVIOUS
<1> QED  BY <1>1 DEF Drafts

LEMMA DraftShape ==
    ASSUME NEW d \in Drafts
    PROVE  /\ DOMAIN d \subseteq Units
           /\ d \in [DOMAIN d -> Copy]
BY DEF Drafts

LEMMA DraftExtended ==
    ASSUME NEW d \in Drafts, NEW u \in Units, NEW copy \in Copy
    PROVE  [w \in DOMAIN d \cup {u} |-> IF w = u THEN copy ELSE d[w]] \in Drafts
<1>1. [w \in DOMAIN d \cup {u} |-> IF w = u THEN copy ELSE d[w]]
         \in [DOMAIN d \cup {u} -> Copy]
  BY DraftShape
<1>2. DOMAIN d \cup {u} \in SUBSET Units
  BY DraftShape
<1> QED  BY <1>1, <1>2 DEF Drafts

LEMMA IdleTyped ==
    /\ IdleIntake \in IntakeLocals
    /\ IdleDesk \in DeskLocals
<1>1. IdleIntake \in IntakeLocals
  BY EmptyDraft DEF IdleIntake, IntakeLocals, Steps
<1>2. IdleDesk \in DeskLocals
  BY DEF IdleDesk, DeskLocals, MaybeVersion
<1> QED  BY <1>1, <1>2

\* One consumer's locals change to well-typed ones.
LEMMA IntakeReplaced ==
    ASSUME TypesOK, NEW c \in Consumers, NEW local \in IntakeLocals,
           local.pub \in 0..Len(feed), local.pc # "idle" => local.pub \in DOMAIN feed,
           local.withdrawn \subseteq local.impacted,
           intake' = [intake EXCEPT ![c] = local],
           UNCHANGED feed
    PROVE  IntakesOK'
BY DEF TypesOK, IntakesOK

LEMMA DeskReplaced ==
    ASSUME TypesOK, NEW o \in Operators, NEW local \in DeskLocals,
           local.pc # "idle" => local.card \in Units,
           desk' = [desk EXCEPT ![o] = local]
    PROVE  DesksOK'
BY DEF TypesOK, DesksOK

-----------------------------------------------------------------------------
(* What is served                                                          *)

\* Versions are only ever appended, so an honest copy stays honest.
VersionsGrow ==
    \A u \in Units : VersionsOf(u) \subseteq VersionsOf(u)'

LEMMA HonestStays ==
    ASSUME VersionsGrow, NEW u \in Units, NEW pointer, NEW meaning,
           Honest(u, pointer, meaning)
    PROVE  pointer # NoVersion => /\ pointer \in VersionsOf(u)' /\ pointer.valid
                                  /\ meaning = pointer
BY DEF VersionsGrow, Honest

\* A consumer changes its locals and nothing else.
LEMMA ConsumerKeepsService ==
    ASSUME ServiceInv, NEW c \in Consumers, NEW local \in IntakeLocals,
           local.pub \in 0..Len(feed), local.pc # "idle" => local.pub \in DOMAIN feed,
           local.withdrawn \subseteq local.impacted,
           \A u \in DOMAIN local.draft :
               Honest(u, local.draft[u].pointer, local.draft[u].meaning),
           intake' = [intake EXCEPT ![c] = local],
           UNCHANGED <<feed, cards, trail, processed, cursor, desk, decisions>>,
           overlapped' \in BOOLEAN, faults' \in 0..MaxFaults
    PROVE  ServiceInv'
<1>1. RowsOK' /\ DesksOK'
  BY DEF ServiceInv, TypesOK, RowsOK, DesksOK
<1>2. IntakesOK'
  BY IntakeReplaced DEF ServiceInv
<1>3. CopiesHonest'
  BY DEF ServiceInv, TypesOK, IntakesOK, CopiesHonest, Honest, VersionsOf
<1>4. DesksHonest' /\ CardsHonest'
  BY DEF ServiceInv, DesksHonest, CardsHonest, Honest, VersionsOf
<1> QED  BY <1>1, <1>2, <1>3, <1>4 DEF ServiceInv, TypesOK

\* An operator changes its locals and nothing else.
LEMMA OperatorKeepsService ==
    ASSUME ServiceInv, NEW o \in Operators, NEW local \in DeskLocals,
           local.pc # "idle" => local.card \in Units,
           local.pc \in {"limits", "save"} =>
               Honest(local.card, local.pointer, local.meaning),
           desk' = [desk EXCEPT ![o] = local],
           UNCHANGED <<feed, cards, trail, processed, cursor, intake, faults>>,
           overlapped' \in BOOLEAN, decisions' \in 0..MaxDecisions
    PROVE  ServiceInv'
<1>1. RowsOK' /\ IntakesOK'
  BY DEF ServiceInv, TypesOK, RowsOK, IntakesOK
<1>2. DesksOK'
  BY DeskReplaced DEF ServiceInv
<1>3. DesksHonest'
  BY DEF ServiceInv, TypesOK, DesksOK, DesksHonest, Honest, VersionsOf
<1>4. CopiesHonest' /\ CardsHonest'
  BY DEF ServiceInv, CopiesHonest, CardsHonest, Honest, VersionsOf
<1> QED  BY <1>1, <1>2, <1>3, <1>4 DEF ServiceInv, TypesOK

LEMMA CopyTyped ==
    ASSUME ServiceInv, NEW u \in Units
    PROVE  CopyOf(u) \in Copy /\ Honest(u, CopyOf(u).pointer, CopyOf(u).meaning)
BY DEF ServiceInv, TypesOK, RowsOK, CopyOf, Copy, Card, CardsHonest

LEMMA WithdrawnTyped ==
    ASSUME NEW copy \in Copy, NEW u \in Units
    PROVE  /\ WithdrawCurrentVersion(copy) \in Copy
           /\ WithdrawCurrentVersion(copy).pointer = NoVersion
           /\ WithdrawCurrentVersion(copy).fresh = copy.fresh
BY DEF WithdrawCurrentVersion, Copy

\* Intake reads and drafts.
LEMMA ClaimService ==
    ASSUME ServiceInv, NEW c \in Consumers, NEW p \in DOMAIN feed, Claim(c, p)
    PROVE  ServiceInv'
<1> DEFINE local == [IdleIntake EXCEPT !.pc = "locate", !.pub = p]
<1>2. p \in 0..Len(feed) /\ p \in Nat
  BY DEF ServiceInv, TypesOK, RowsOK
<1>1. /\ local \in IntakeLocals /\ local.pub = p /\ local.withdrawn = local.impacted
      /\ local.draft = <<>>
  <2>1. local \in IntakeLocals /\ local.pub = p
    BY <1>2, IdleTyped DEF IntakeLocals, Steps
  <2>2. /\ local.draft = IdleIntake.draft /\ local.withdrawn = IdleIntake.withdrawn
        /\ local.impacted = IdleIntake.impacted
    BY <1>2, IdleTyped DEF IntakeLocals
  <2> HIDE DEF local
  <2> QED  BY <2>1, <2>2 DEF IdleIntake
<1>3. /\ intake' = [intake EXCEPT ![c] = local] /\ overlapped' \in BOOLEAN
      /\ UNCHANGED <<feed, cards, trail, processed, cursor, desk, decisions>>
      /\ faults' \in 0..MaxFaults
  BY DEF Claim, Begin, ServiceInv, TypesOK, RowsOK, registryVars
<1> HIDE DEF local
<1> QED  BY <1>1, <1>2, <1>3, EmptyDraft, ConsumerKeepsService

LEMMA IdleService ==
    ASSUME ServiceInv, NEW c \in Consumers,
           intake' = [intake EXCEPT ![c] = IdleIntake],
           UNCHANGED <<feed, cards, trail, processed, cursor, desk, decisions, overlapped>>,
           faults' \in 0..MaxFaults
    PROVE  ServiceInv'
<1>1. /\ IdleIntake.pub \in 0..Len(feed) /\ IdleIntake.pc = "idle"
      /\ IdleIntake.withdrawn = IdleIntake.impacted /\ IdleIntake.draft = <<>>
      /\ overlapped' \in BOOLEAN
  BY DEF IdleIntake, ServiceInv, TypesOK, RowsOK
<1> QED  BY <1>1, IdleTyped, EmptyDraft, ConsumerKeepsService

LEMMA FollowService ==
    ASSUME ServiceInv, NEW c \in Consumers, Follow(c)
    PROVE  ServiceInv'
<1>0. /\ UNCHANGED <<feed, cards, trail, processed, cursor, desk, decisions, overlapped, faults>>
      /\ overlapped' \in BOOLEAN /\ faults' \in 0..MaxFaults
  BY DEF Follow, registryVars, ServiceInv, TypesOK, RowsOK
<1>1. CASE Locate(cursor, intake[c].pub) \in {"first", "next"}
  <2> DEFINE local == [intake[c] EXCEPT !.pc = "cards"]
  <2>1. /\ local \in IntakeLocals /\ local.pub \in DOMAIN feed /\ local.pub \in 0..Len(feed)
        /\ local.withdrawn \subseteq local.impacted /\ local.draft = intake[c].draft
    BY DEF Follow, ServiceInv, TypesOK, IntakesOK, IntakeLocals, Steps
  <2>2. intake' = [intake EXCEPT ![c] = local]
    BY <1>1 DEF Follow
  <2>3. \A u \in DOMAIN local.draft :
           Honest(u, local.draft[u].pointer, local.draft[u].meaning)
    BY <2>1 DEF ServiceInv, CopiesHonest
  <2> HIDE DEF local
  <2> QED  BY <1>0, <2>1, <2>2, <2>3, ConsumerKeepsService
<1>2. CASE Locate(cursor, intake[c].pub) \notin {"first", "next"}
  <2>1. intake' = [intake EXCEPT ![c] = IdleIntake]
    BY <1>2 DEF Follow
  <2> QED  BY <1>0, <2>1, IdleService
<1> QED  BY <1>1, <1>2

LEMMA StopService ==
    ASSUME ServiceInv, NEW c \in Consumers, Stop(c)
    PROVE  ServiceInv'
<1>1. faults' \in 0..MaxFaults
  BY RegistryAssumption DEF Stop, ServiceInv, TypesOK, RowsOK
<1>2. /\ intake' = [intake EXCEPT ![c] = IdleIntake]
      /\ UNCHANGED <<feed, cards, trail, processed, cursor, desk, decisions, overlapped>>
  BY DEF Stop, registryVars
<1> QED  BY <1>1, <1>2, IdleService

\* The versions addClaimedVersions may add, and the copy it starts from.
LEMMA ClaimedTyped ==
    ASSUME ServiceInv, NEW c \in Consumers, NEW v \in ClaimedVersions(c), NEW u \in Units
    PROVE  /\ v \in Version /\ v # NoVersion /\ v.pub = intake[c].pub
           /\ LoadOrCreateCard(u, v) \in Copy
           /\ Honest(u, LoadOrCreateCard(u, v).pointer, LoadOrCreateCard(u, v).meaning)
           /\ LoadOrCreateCard(u, v).pointer = cards[u].current
<1>1. v \in Version /\ v.pub = intake[c].pub
  BY DEF ClaimedVersions, Version, ServiceInv, TypesOK, IntakesOK, IntakeLocals
<1>2. v # NoVersion
  BY <1>1, RegistryAssumption
<1>3. CASE Exists(u)
  BY <1>1, <1>2, <1>3, CopyTyped DEF LoadOrCreateCard, CopyOf
<1>4. CASE ~Exists(u)
  <2>1. LoadOrCreateCard(u, v) = [pointer |-> NoVersion, meaning |-> v, fresh |-> NoVersion]
    BY <1>4 DEF LoadOrCreateCard
  <2>2. cards[u].current = NoVersion
    BY <1>4 DEF Exists, ServiceInv, CardsHonest, Honest, VersionsOf
  <2> QED  BY <1>1, <1>2, <2>1, <2>2 DEF Copy, Honest
<1> QED  BY <1>3, <1>4

LEMMA AddClaimedVersionService ==
    ASSUME ServiceInv, NEW c \in Consumers, NEW u \in Units, AddClaimedVersion(c, u)
    PROVE  ServiceInv'
<1>0. /\ UNCHANGED <<feed, cards, trail, processed, cursor, desk, decisions, overlapped, faults>>
      /\ overlapped' \in BOOLEAN /\ faults' \in 0..MaxFaults
  BY DEF AddClaimedVersion, registryVars, ServiceInv, TypesOK, RowsOK
<1> DEFINE start(v) == LoadOrCreateCard(u, v)
           copy(v) == AppendVersion(LoadOrCreateCard(u, v), v)
           draft(v) == [w \in DOMAIN intake[c].draft \cup {u} |->
                           IF w = u THEN copy(v) ELSE intake[c].draft[w]]
<1>1. PICK v \in ClaimedVersions(c) :
        intake' = [intake EXCEPT ![c].draft = draft(v)]
  BY DEF AddClaimedVersion
<1>2. intake[c] \in IntakeLocals /\ intake[c].draft \in Drafts
  BY DEF ServiceInv, TypesOK, IntakesOK, IntakeLocals
<1>3. copy(v) \in Copy /\ Honest(u, copy(v).pointer, copy(v).meaning)
  <2>1. /\ start(v) \in Copy /\ v \in Version
        /\ Honest(u, start(v).pointer, start(v).meaning)
    BY ClaimedTyped
  <2>2. copy(v) = [start(v) EXCEPT !.fresh = v]
    BY DEF AppendVersion
  <2> HIDE DEF start, copy
  <2> QED  BY <2>1, <2>2 DEF Copy
<1> DEFINE local == [intake[c] EXCEPT !.draft = draft(v)]
<1>4. draft(v) \in Drafts
  <2> HIDE DEF copy
  <2> QED  BY <1>2, <1>3, DraftExtended
<1>5. /\ local \in IntakeLocals /\ local.pub \in DOMAIN feed /\ local.pub \in 0..Len(feed)
      /\ local.withdrawn \subseteq local.impacted /\ local.draft = draft(v)
  <2> HIDE DEF draft
  <2> QED  BY <1>2, <1>4 DEF AddClaimedVersion, ServiceInv, TypesOK, IntakesOK, IntakeLocals
<1>6. \A w \in DOMAIN draft(v) : Honest(w, draft(v)[w].pointer, draft(v)[w].meaning)
  <2> HIDE DEF copy
  <2> QED  BY <1>3 DEF ServiceInv, CopiesHonest
<1>7. intake' = [intake EXCEPT ![c] = local]
  BY <1>1
<1> HIDE DEF local, draft
<1> QED  BY <1>0, <1>5, <1>6, <1>7, ConsumerKeepsService

LEMMA AssessImpactService ==
    ASSUME ServiceInv, NEW c \in Consumers, AssessImpact(c)
    PROVE  ServiceInv'
<1>0. /\ UNCHANGED <<feed, cards, trail, processed, cursor, desk, decisions, overlapped, faults>>
      /\ overlapped' \in BOOLEAN /\ faults' \in 0..MaxFaults
  BY DEF AssessImpact, registryVars, ServiceInv, TypesOK, RowsOK
<1> DEFINE p == intake[c].pub
           impacted == {u \in Serving : Impact(u, p) # "none"}
           gone == {u \in Serving : Withdraws(Impact(u, p))}
           old == intake[c].draft
           draft == [u \in DOMAIN old |-> IF u \in gone THEN WithdrawCurrentVersion(old[u])
                                                        ELSE old[u]]
           local == [intake[c] EXCEPT !.pc = "impacts", !.withdrawn = gone,
                                      !.impacted = impacted, !.draft = draft]
<1>1. intake' = [intake EXCEPT ![c] = local]
  BY DEF AssessImpact
<1>2. intake[c] \in IntakeLocals /\ old \in Drafts /\ old \in [DOMAIN old -> Copy]
      /\ DOMAIN old \subseteq Units
  BY DraftShape DEF ServiceInv, TypesOK, IntakesOK, IntakeLocals
<1>3. gone \subseteq impacted /\ impacted \subseteq Units /\ gone \subseteq Units
  BY DEF Withdraws, Serving
<1> HIDE DEF gone, impacted
<1>4. draft \in Drafts
  <2>1. draft \in [DOMAIN old -> Copy]
    BY <1>2, WithdrawnTyped
  <2> QED  BY <2>1, <1>2 DEF Drafts
<1>5. \A u \in DOMAIN draft : Honest(u, draft[u].pointer, draft[u].meaning)
  <2> SUFFICES ASSUME NEW u \in DOMAIN old
               PROVE  Honest(u, draft[u].pointer, draft[u].meaning)
    OBVIOUS
  <2>1. CASE u \in gone
    BY <2>1, <1>2, WithdrawnTyped DEF Honest
  <2>2. CASE u \notin gone
    BY <2>2 DEF ServiceInv, CopiesHonest
  <2> QED  BY <2>1, <2>2
<1> HIDE DEF draft
<1>6. /\ local \in IntakeLocals /\ local.pub \in DOMAIN feed /\ local.pub \in 0..Len(feed)
      /\ local.withdrawn \subseteq local.impacted /\ local.draft = draft
  BY <1>2, <1>3, <1>4 DEF AssessImpact, ServiceInv, TypesOK, IntakesOK, IntakeLocals, Steps
<1> HIDE DEF local
<1> QED  BY <1>0, <1>1, <1>5, <1>6, ConsumerKeepsService

LEMMA LoadImpactedService ==
    ASSUME ServiceInv, NEW c \in Consumers, NEW u \in Units, LoadImpacted(c, u)
    PROVE  ServiceInv'
<1>0. /\ UNCHANGED <<feed, cards, trail, processed, cursor, desk, decisions, overlapped, faults>>
      /\ overlapped' \in BOOLEAN /\ faults' \in 0..MaxFaults
  BY DEF LoadImpacted, registryVars, ServiceInv, TypesOK, RowsOK
<1> DEFINE copy == IF u \in intake[c].withdrawn
                   THEN WithdrawCurrentVersion(CopyOf(u)) ELSE CopyOf(u)
           draft == [w \in DOMAIN intake[c].draft \cup {u} |->
                        IF w = u THEN copy ELSE intake[c].draft[w]]
           local == [intake[c] EXCEPT !.draft = draft]
<1>1. intake' = [intake EXCEPT ![c] = local]
  BY DEF LoadImpacted
<1>2. copy \in Copy /\ Honest(u, copy.pointer, copy.meaning)
  BY CopyTyped, WithdrawnTyped DEF Honest
<1>3. intake[c] \in IntakeLocals /\ intake[c].draft \in Drafts
  BY DEF ServiceInv, TypesOK, IntakesOK, IntakeLocals
<1> HIDE DEF copy
<1>4. draft \in Drafts
  BY <1>2, <1>3, DraftExtended
<1>5. \A w \in DOMAIN draft : Honest(w, draft[w].pointer, draft[w].meaning)
  BY <1>2 DEF ServiceInv, CopiesHonest
<1> HIDE DEF draft
<1>6. /\ local \in IntakeLocals /\ local.pub \in DOMAIN feed /\ local.pub \in 0..Len(feed)
      /\ local.withdrawn \subseteq local.impacted /\ local.draft = draft
  BY <1>3, <1>4 DEF LoadImpacted, ServiceInv, TypesOK, IntakesOK, IntakeLocals
<1> HIDE DEF local
<1> QED  BY <1>0, <1>1, <1>5, <1>6, ConsumerKeepsService

\* A row that a use case writes keeps every version it had.
LEMMA RowWritten ==
    ASSUME ServiceInv, NEW u \in Units, NEW copy \in Copy
    PROVE  /\ WriteCard(u, copy) \in Card
           /\ WriteCard(u, copy).current = copy.pointer
           /\ WriteCard(u, copy).meaning = copy.meaning
           /\ \A i \in DOMAIN cards[u].versions :
                 /\ i \in DOMAIN WriteCard(u, copy).versions
                 /\ WriteCard(u, copy).versions[i] = cards[u].versions[i]
<1> DEFINE old == cards[u].versions
           new == IF copy.fresh = NoVersion THEN old ELSE Append(old, copy.fresh)
<1>1. old \in Seq(Version)
  BY DEF ServiceInv, TypesOK, RowsOK, Card
<1>2. copy.fresh = NoVersion \/ copy.fresh \in Version
  BY DEF Copy
<1>3. new \in Seq(Version) /\ \A i \in DOMAIN old : i \in DOMAIN new /\ new[i] = old[i]
  BY <1>1, <1>2
<1>4. WriteCard(u, copy) = [versions |-> new, current |-> copy.pointer,
                            meaning |-> copy.meaning]
  BY DEF WriteCard
<1> HIDE DEF new
<1> QED  BY <1>3, <1>4 DEF Card, Copy

\* Rows of some units are written from honest copies.
LEMMA RowsWritten ==
    ASSUME ServiceInv, NEW S \in SUBSET Units, NEW copies \in [S -> Copy],
           \A u \in S : Honest(u, copies[u].pointer, copies[u].meaning),
           cards' = [u \in Units |-> IF u \in S THEN WriteCard(u, copies[u])
                                               ELSE cards[u]]
    PROVE  cards' \in [Units -> Card] /\ VersionsGrow /\ CardsHonest'
<1>1. cards' \in [Units -> Card]
  BY RowWritten DEF ServiceInv, TypesOK, RowsOK
<1>2. VersionsGrow
  <2> SUFFICES ASSUME NEW u \in Units, NEW i \in DOMAIN cards[u].versions
               PROVE  /\ i \in DOMAIN cards'[u].versions
                      /\ cards'[u].versions[i] = cards[u].versions[i]
    BY DEF VersionsGrow, VersionsOf
  <2> QED  BY RowWritten
<1>3. CardsHonest'
  <2> SUFFICES ASSUME NEW u \in Units
               PROVE  Honest(u, cards[u].current, cards[u].meaning)'
    BY DEF CardsHonest
  <2>1. Honest(u, cards'[u].current, cards'[u].meaning)
    <3>1. CASE u \in S
      BY <3>1, RowWritten
    <3>2. CASE u \notin S
      BY <3>2 DEF ServiceInv, CardsHonest
    <3> QED  BY <3>1, <3>2
  <2> QED  BY <2>1, <1>2 DEF VersionsGrow, Honest
<1> QED  BY <1>1, <1>2, <1>3

LEMMA CommitService ==
    ASSUME ServiceInv, NEW c \in Consumers, Commit(c)
    PROVE  ServiceInv'
<1> DEFINE draft == intake[c].draft
<1>1. draft \in [DOMAIN draft -> Copy] /\ DOMAIN draft \subseteq Units
  BY DraftShape DEF ServiceInv, TypesOK, IntakesOK, IntakeLocals
<1>2. /\ \A u \in DOMAIN draft : Honest(u, draft[u].pointer, draft[u].meaning)
      /\ cards' = [u \in Units |-> IF u \in DOMAIN draft THEN WriteCard(u, draft[u])
                                                         ELSE cards[u]]
  BY DEF ServiceInv, CopiesHonest, Commit
<1>3. cards' \in [Units -> Card] /\ VersionsGrow /\ CardsHonest'
  <2> HIDE DEF draft
  <2> QED  BY <1>1, <1>2, RowsWritten
<1>4. intake[c].pub \in DOMAIN feed /\ DOMAIN feed = 1..Len(feed) /\ Len(feed) \in Nat
  BY DEF ServiceInv, TypesOK, IntakesOK, RowsOK, Commit
<1>5. RowsOK'
  <2>1. trail' \in [Units -> MaybeVersion]
    BY DEF Commit, ServiceInv, TypesOK, RowsOK, MaybeVersion
  <2>2. processed' \subseteq DOMAIN feed' /\ cursor' \in 0..Len(feed')
    BY <1>4 DEF Commit, WriteConsumption, ServiceInv, TypesOK, RowsOK
  <2> QED  BY <1>3, <2>1, <2>2 DEF Commit, ServiceInv, TypesOK, RowsOK
<1>6. IntakesOK'
  <2>1. /\ IdleIntake.pub \in 0..Len(feed) /\ IdleIntake.pc = "idle"
        /\ IdleIntake.withdrawn = IdleIntake.impacted
    BY <1>4 DEF IdleIntake
  <2> QED  BY <2>1, IdleTyped, IntakeReplaced DEF Commit, ServiceInv
<1>7. DesksOK'
  BY DEF Commit, ServiceInv, TypesOK, DesksOK
<1>8. CopiesHonest'
  <2> SUFFICES ASSUME NEW d \in Consumers, NEW u \in DOMAIN intake'[d].draft
               PROVE  Honest(u, intake[d].draft[u].pointer, intake[d].draft[u].meaning)'
    BY DEF CopiesHonest
  <2>1. d # c /\ intake'[d] = intake[d]
    BY EmptyDraft DEF Commit, IdleIntake, ServiceInv, TypesOK, IntakesOK
  <2>2. u \in Units /\ Honest(u, intake[d].draft[u].pointer, intake[d].draft[u].meaning)
    BY <2>1, DraftShape DEF ServiceInv, TypesOK, IntakesOK, IntakeLocals, CopiesHonest
  <2> QED  BY <2>1, <2>2, <1>3, HonestStays DEF Honest
<1>9. DesksHonest'
  <2> SUFFICES ASSUME NEW o \in Operators, desk[o].pc \in {"limits", "save"}
               PROVE  Honest(desk[o].card, desk[o].pointer, desk[o].meaning)'
    BY DEF DesksHonest, Commit
  <2>1. /\ desk[o].card \in Units /\ desk' = desk
        /\ Honest(desk[o].card, desk[o].pointer, desk[o].meaning)
    BY DEF ServiceInv, TypesOK, DesksOK, DesksHonest, Commit
  <2> QED  BY <2>1, <1>3, HonestStays DEF Honest
<1> QED  BY <1>3, <1>5, <1>6, <1>7, <1>8, <1>9 DEF ServiceInv, TypesOK

-----------------------------------------------------------------------------
(* Operator commands                                                       *)

LEMMA SaveCardService ==
    ASSUME ServiceInv, NEW o \in Operators, SaveCard(o)
    PROVE  ServiceInv'
<1> DEFINE u == desk[o].card
           copy == [pointer |-> desk[o].pointer, meaning |-> desk[o].meaning,
                    fresh |-> NoVersion]
           copies == [w \in {u} |-> copy]
<1>1. u \in Units /\ desk[o] \in DeskLocals /\ Honest(u, copy.pointer, copy.meaning)
  BY DEF SaveCard, ServiceInv, TypesOK, DesksOK, DesksHonest
<1>2. copy \in Copy
  BY <1>1 DEF Copy, DeskLocals, MaybeVersion
<1>3. cards' = [cards EXCEPT ![u] = WriteCard(u, copy)]
  BY DEF SaveCard
<1> HIDE DEF copy
<1>4. cards' = [w \in Units |-> IF w \in {u} THEN WriteCard(w, copies[w]) ELSE cards[w]]
  BY <1>1, <1>3 DEF ServiceInv, TypesOK, RowsOK
<1>5. copies \in [{u} -> Copy] /\ {u} \in SUBSET Units
      /\ \A w \in {u} : Honest(w, copies[w].pointer, copies[w].meaning)
  BY <1>1, <1>2
<1>6. cards' \in [Units -> Card] /\ VersionsGrow /\ CardsHonest'
  <2> HIDE DEF copies
  <2> QED  BY <1>4, <1>5, RowsWritten
<1>7. RowsOK'
  <2>1. trail' \in [Units -> MaybeVersion]
    BY <1>1 DEF SaveCard, ServiceInv, TypesOK, RowsOK, MaybeVersion, DeskLocals
  <2> QED  BY <1>6, <2>1 DEF SaveCard, ServiceInv, TypesOK, RowsOK
<1>8. IntakesOK'
  BY DEF SaveCard, ServiceInv, TypesOK, IntakesOK
<1>9. DesksOK'
  BY IdleTyped, DeskReplaced DEF SaveCard, ServiceInv, IdleDesk
<1>10. CopiesHonest'
  <2> SUFFICES ASSUME NEW d \in Consumers, NEW w \in DOMAIN intake[d].draft
               PROVE  Honest(w, intake[d].draft[w].pointer, intake[d].draft[w].meaning)'
    BY DEF CopiesHonest, SaveCard
  <2>1. w \in Units /\ Honest(w, intake[d].draft[w].pointer, intake[d].draft[w].meaning)
    BY DraftShape DEF ServiceInv, TypesOK, IntakesOK, IntakeLocals, CopiesHonest
  <2> QED  BY <2>1, <1>6, HonestStays DEF Honest, SaveCard
<1>11. DesksHonest'
  <2> SUFFICES ASSUME NEW p \in Operators, desk'[p].pc \in {"limits", "save"}
               PROVE  Honest(desk[p].card, desk[p].pointer, desk[p].meaning)'
    BY DEF DesksHonest
  <2>1. p # o /\ desk'[p] = desk[p]
    BY DEF SaveCard, IdleDesk, ServiceInv, TypesOK, DesksOK
  <2>2. /\ desk[p].card \in Units
        /\ Honest(desk[p].card, desk[p].pointer, desk[p].meaning)
    BY <2>1 DEF ServiceInv, TypesOK, DesksOK, DesksHonest
  <2> QED  BY <2>1, <2>2, <1>6, HonestStays DEF Honest
<1> QED  BY <1>6, <1>7, <1>8, <1>9, <1>10, <1>11 DEF ServiceInv, TypesOK

\* A command that has loaded a card of the catalog.
LEMMA LoadService ==
    ASSUME ServiceInv, NEW o \in Operators, NEW u \in Units,
           NEW step \in {"reload", "limits", "save"},
           NEW kind \in {"promote", "reject", "withdraw"},
           NEW v \in MaybeVersion, NEW pointer \in MaybeVersion, NEW meaning \in MaybeVersion,
           Honest(u, pointer, meaning),
           Load(o, step, kind, u, v, pointer, meaning),
           UNCHANGED <<feed, cards, trail, processed, cursor, intake, faults>>,
           overlapped' \in BOOLEAN, decisions' \in 0..MaxDecisions
    PROVE  ServiceInv'
<1> DEFINE local == [pc |-> step, kind |-> kind, card |-> u, version |-> v,
                     pointer |-> pointer, meaning |-> meaning]
<1>1. local \in DeskLocals /\ desk' = [desk EXCEPT ![o] = local]
  BY DEF DeskLocals, Load
<1>2. local.card = u /\ local.pointer = pointer /\ local.meaning = meaning
  OBVIOUS
<1> HIDE DEF local
<1> QED  BY <1>1, <1>2, OperatorKeepsService

\* A version of a card is a version.
LEMMA StoredTyped ==
    ASSUME ServiceInv, NEW u \in Units
    PROVE  /\ VersionsOf(u) \subseteq Version
           /\ cards[u].current \in MaybeVersion /\ cards[u].meaning \in MaybeVersion
BY DEF ServiceInv, TypesOK, RowsOK, Card, VersionsOf, MaybeVersion

LEMMA BegunTyped ==
    ASSUME ServiceInv, NEW o \in Operators, BeginCommand(o)
    PROVE  overlapped' \in BOOLEAN /\ decisions' \in 0..MaxDecisions
<1>1. overlapped' \in BOOLEAN
  BY DEF BeginCommand, Begin
<1>2. decisions' \in 0..MaxDecisions
  BY RegistryAssumption DEF BeginCommand, ServiceInv, TypesOK, RowsOK
<1> QED  BY <1>1, <1>2

LEMMA ApproveService ==
    ASSUME ServiceInv, NEW o \in Operators, NEW u \in Units, Approve(o, u)
    PROVE  ServiceInv'
<1>1. PICK v \in VersionsOf(u) :
        MayPromote(u, v) /\ Load(o, "limits", "promote", u, v, v, v)
  BY DEF Approve
<1>2. v \in MaybeVersion /\ Honest(u, v, v)
  BY <1>1, StoredTyped DEF MayPromote, Honest, MaybeVersion
<1>3. UNCHANGED <<feed, cards, trail, processed, cursor, intake, faults>> /\ BeginCommand(o)
  BY DEF Approve, registryVars
<1> QED  BY <1>1, <1>2, <1>3, BegunTyped, LoadService

LEMMA RollbackService ==
    ASSUME ServiceInv, NEW o \in Operators, NEW u \in Units, Rollback(o, u)
    PROVE  ServiceInv'
<1>1. PICK v \in VersionsOf(u) :
        Load(o, "reload", "promote", u, v, NoVersion, NoVersion)
  BY DEF Rollback
<1>2. v \in MaybeVersion /\ NoVersion \in MaybeVersion /\ Honest(u, NoVersion, NoVersion)
  BY <1>1, StoredTyped DEF Honest, MaybeVersion
<1>3. UNCHANGED <<feed, cards, trail, processed, cursor, intake, faults>> /\ BeginCommand(o)
  BY DEF Rollback, registryVars
<1> QED  BY <1>1, <1>2, <1>3, BegunTyped, LoadService

\* The copy that goes back to the row is the row, or the row without a pointer.
LEMMA RejectService ==
    ASSUME ServiceInv, NEW o \in Operators, NEW u \in Units, Reject(o, u)
    PROVE  ServiceInv'
<1>1. PICK v \in VersionsOf(u) :
        Load(o, "save", "reject", u, v, cards[u].current, cards[u].meaning)
  BY DEF Reject
<1>2. /\ v \in MaybeVersion /\ Honest(u, cards[u].current, cards[u].meaning)
      /\ cards[u].current \in MaybeVersion /\ cards[u].meaning \in MaybeVersion
  BY <1>1, StoredTyped DEF MaybeVersion, ServiceInv, CardsHonest
<1>3. UNCHANGED <<feed, cards, trail, processed, cursor, intake, faults>> /\ BeginCommand(o)
  BY DEF Reject, registryVars
<1> QED  BY <1>1, <1>2, <1>3, BegunTyped, LoadService

LEMMA DisableService ==
    ASSUME ServiceInv, NEW o \in Operators, NEW u \in Units, Disable(o, u)
    PROVE  ServiceInv'
<1>1. Load(o, "save", "withdraw", u, NoVersion, NoVersion, cards[u].meaning)
  BY DEF Disable
<1>2. /\ NoVersion \in MaybeVersion /\ cards[u].meaning \in MaybeVersion
      /\ Honest(u, NoVersion, cards[u].meaning)
  BY StoredTyped DEF MaybeVersion, Honest
<1>3. UNCHANGED <<feed, cards, trail, processed, cursor, intake, faults>> /\ BeginCommand(o)
  BY DEF Disable, registryVars
<1> QED  BY <1>1, <1>2, <1>3, BegunTyped, LoadService

\* A command that is given up.
LEMMA DroppedService ==
    ASSUME ServiceInv, NEW o \in Operators, desk' = [desk EXCEPT ![o] = IdleDesk],
           UNCHANGED <<feed, cards, trail, processed, cursor, intake, faults>>,
           overlapped' \in BOOLEAN, decisions' \in 0..MaxDecisions
    PROVE  ServiceInv'
<1>1. IdleDesk.pc = "idle"
  BY DEF IdleDesk
<1> QED  BY <1>1, IdleTyped, OperatorKeepsService

LEMMA RollbackReloadService ==
    ASSUME ServiceInv, NEW o \in Operators, RollbackReload(o)
    PROVE  ServiceInv'
<1> DEFINE u == desk[o].card
           v == desk[o].version
<1>1. u \in Units /\ v \in MaybeVersion
  BY DEF RollbackReload, ServiceInv, TypesOK, DesksOK, DeskLocals
<1>2. /\ UNCHANGED <<feed, cards, trail, processed, cursor, intake, faults>>
      /\ overlapped' \in BOOLEAN /\ decisions' \in 0..MaxDecisions
  BY DEF RollbackReload, registryVars, ServiceInv, TypesOK, RowsOK
<1>3. CASE MayPromote(u, v)
  <2>1. Load(o, "limits", "promote", u, v, v, v)
    BY <1>3 DEF RollbackReload
  <2>2. Honest(u, v, v)
    BY <1>3 DEF MayPromote, Honest
  <2> HIDE DEF u, v
  <2> QED  BY <1>1, <1>2, <2>1, <2>2, LoadService
<1>4. CASE ~MayPromote(u, v)
  BY <1>2, <1>4, DroppedService DEF RollbackReload
<1> QED  BY <1>3, <1>4

LEMMA CheckLimitsService ==
    ASSUME ServiceInv, NEW o \in Operators, CheckLimits(o)
    PROVE  ServiceInv'
<1>1. /\ UNCHANGED <<feed, cards, trail, processed, cursor, intake, faults>>
      /\ overlapped' \in BOOLEAN /\ decisions' \in 0..MaxDecisions
  BY DEF CheckLimits, registryVars, ServiceInv, TypesOK, RowsOK
<1>2. CASE FitsCatalog(desk[o].card)
  <2> DEFINE local == [desk[o] EXCEPT !.pc = "save"]
  <2>1. desk' = [desk EXCEPT ![o] = local]
    BY <1>2 DEF CheckLimits
  <2>2. /\ local \in DeskLocals /\ local.card = desk[o].card /\ local.card \in Units
        /\ local.pointer = desk[o].pointer /\ local.meaning = desk[o].meaning
    BY DEF CheckLimits, ServiceInv, TypesOK, DesksOK, DeskLocals
  <2>3. Honest(local.card, local.pointer, local.meaning)
    BY <2>2 DEF CheckLimits, ServiceInv, DesksHonest
  <2> HIDE DEF local
  <2> QED  BY <1>1, <2>1, <2>2, <2>3, OperatorKeepsService
<1>3. CASE ~FitsCatalog(desk[o].card)
  BY <1>1, <1>3, DroppedService DEF CheckLimits
<1> QED  BY <1>2, <1>3

-----------------------------------------------------------------------------
\* A publication is added at the end of the feed.
LEMMA FeedGrows ==
    ASSUME ServiceInv, Publish
    PROVE  /\ feed' \in Seq([Units -> Kinds])
           /\ Len(feed') = Len(feed) + 1 /\ Len(feed) \in Nat
           /\ DOMAIN feed = 1..Len(feed) /\ DOMAIN feed' = 1..(Len(feed) + 1)
           /\ \A p \in DOMAIN feed : feed'[p] = feed[p]
<1>1. PICK present \in SUBSET Units, edited \in SUBSET Units :
        feed' = Append(feed, Delta(UnitsOf(Len(feed)), present, edited))
  BY DEF Publish
<1> DEFINE delta == Delta(UnitsOf(Len(feed)), present, edited)
<1>2. delta \in [Units -> Kinds]
  BY DEF Delta, Kinds
<1>3. feed \in Seq([Units -> Kinds]) /\ feed' = Append(feed, delta)
  BY <1>1 DEF ServiceInv, TypesOK, RowsOK
<1> HIDE DEF delta
<1> QED  BY <1>2, <1>3

LEMMA PublishService ==
    ASSUME ServiceInv, Publish
    PROVE  ServiceInv'
<1>1. UNCHANGED <<cards, trail, processed, cursor, intake, desk, overlapped, decisions, faults>>
  BY DEF Publish, registryVars
<1>2. RowsOK'
  BY <1>1, FeedGrows DEF ServiceInv, TypesOK, RowsOK
<1>3. IntakesOK' /\ DesksOK'
  BY <1>1, FeedGrows DEF ServiceInv, TypesOK, IntakesOK, DesksOK
<1>4. CopiesHonest' /\ DesksHonest' /\ CardsHonest'
  BY <1>1 DEF ServiceInv, CopiesHonest, DesksHonest, CardsHonest, Honest, VersionsOf
<1> QED  BY <1>2, <1>3, <1>4 DEF ServiceInv, TypesOK

LEMMA InitService ==
    ASSUME Init
    PROVE  ServiceInv
<1>1. RowsOK
  <2>1. NoCard \in Card /\ <<>> \in Seq([Units -> Kinds])
    BY DEF NoCard, Card
  <2>2. cards \in [Units -> Card] /\ trail \in [Units -> MaybeVersion]
    BY <2>1 DEF Init, MaybeVersion
  <2>3. Len(feed) = 0 /\ DOMAIN feed = {}
    BY EmptyDraft DEF Init
  <2>4. processed \subseteq DOMAIN feed /\ cursor \in 0..Len(feed)
    BY <2>3 DEF Init
  <2>5. decisions \in 0..MaxDecisions /\ faults \in 0..MaxFaults
    BY RegistryAssumption DEF Init
  <2>6. feed \in Seq([Units -> Kinds]) /\ overlapped \in BOOLEAN
    BY <2>1 DEF Init
  <2> QED  BY <2>2, <2>4, <2>5, <2>6 DEF RowsOK
<1>2. IntakesOK /\ CopiesHonest
  <2>1. /\ IdleIntake.pub \in 0..0 /\ IdleIntake.pc = "idle" /\ Len(feed) = 0
        /\ IdleIntake.withdrawn = IdleIntake.impacted /\ IdleIntake.draft = <<>>
    BY DEF IdleIntake, Init
  <2>2. intake = [c \in Consumers |-> IdleIntake]
    BY DEF Init
  <2> QED  BY <2>1, <2>2, IdleTyped, EmptyDraft DEF IntakesOK, CopiesHonest
<1>3. DesksOK /\ DesksHonest
  <2>1. IdleDesk.pc = "idle" /\ desk = [o \in Operators |-> IdleDesk]
    BY DEF IdleDesk, Init
  <2> QED  BY <2>1, IdleTyped DEF DesksOK, DesksHonest
<1>4. CardsHonest
  BY DEF Init, NoCard, CardsHonest, Honest
<1> QED  BY <1>1, <1>2, <1>3, <1>4 DEF ServiceInv, TypesOK

LEMMA StutterService ==
    ASSUME ServiceInv, UNCHANGED vars
    PROVE  ServiceInv'
BY DEF ServiceInv, TypesOK, RowsOK, IntakesOK, DesksOK, CopiesHonest, DesksHonest,
       CardsHonest, Honest, VersionsOf, vars

LEMMA NextService ==
    ASSUME ServiceInv, [Next]_vars
    PROVE  ServiceInv'
<1>1. CASE Publish
  BY <1>1, PublishService
<1>2. ASSUME NEW c \in Consumers, NEW p \in DOMAIN feed, Claim(c, p)
      PROVE  ServiceInv'
  BY <1>2, ClaimService
<1>3. ASSUME NEW c \in Consumers, ConsumerStep(c)
      PROVE  ServiceInv'
  BY <1>3, FollowService, AssessImpactService, CommitService, AddClaimedVersionService,
     LoadImpactedService DEF ConsumerStep
<1>4. ASSUME NEW c \in Consumers, Stop(c)
      PROVE  ServiceInv'
  BY <1>4, StopService
<1>5. ASSUME NEW o \in Operators, OperatorStep(o)
      PROVE  ServiceInv'
  BY <1>5, ApproveService, RollbackService, RejectService, DisableService,
     RollbackReloadService, CheckLimitsService, SaveCardService DEF OperatorStep
<1>6. CASE UNCHANGED vars
  BY <1>6, StutterService
<1> QED  BY <1>1, <1>2, <1>3, <1>4, <1>5, <1>6 DEF Next

\* The three parts of the invariant hold of every behaviour.
THEOREM ServiceInvariant == Spec => []ServiceInv
BY InitService, NextService, PTL DEF Spec

\* The rows of registry.db and the locals of every use case have their types.
THEOREM RegistryTypes == Spec => []RegistryTypeOK
<1>1. ServiceInv => RegistryTypeOK
  <2> SUFFICES ASSUME ServiceInv PROVE RegistryTypeOK
    OBVIOUS
  <2>1. ASSUME NEW c \in Consumers
        PROVE  /\ intake[c].pc \in Steps
               /\ intake[c].pub \in 0..Len(feed)
               /\ DOMAIN intake[c].draft \subseteq Units
               /\ \A u \in DOMAIN intake[c].draft : intake[c].draft[u] \in Copy
               /\ intake[c].withdrawn \subseteq intake[c].impacted
               /\ intake[c].impacted \subseteq Units
    BY DraftShape DEF ServiceInv, TypesOK, IntakesOK, IntakeLocals
  <2>2. ASSUME NEW o \in Operators
        PROVE  /\ desk[o].pc \in {"idle", "reload", "limits", "save"}
               /\ desk[o].kind \in {"promote", "reject", "withdraw"}
               /\ desk[o].pc # "idle" => desk[o].card \in Units
               /\ {desk[o].pointer, desk[o].meaning} \subseteq Version \cup {NoVersion}
    BY DEF ServiceInv, TypesOK, DesksOK, DeskLocals, MaybeVersion
  <2> QED  BY <2>1, <2>2 DEF ServiceInv, TypesOK, RowsOK, RegistryTypeOK, MaybeVersion
<1> QED  BY <1>1, ServiceInvariant, PTL

\* Whatever consumers and operators do at the same time, and however old the
\* copy is that a use case writes back, a card only ever serves one of its own
\* versions that passed grounding, in the words that were judged.
THEOREM ServedValidated == Spec => []ServedIsValidated
<1>1. ServiceInv => ServedIsValidated
  BY DEF ServiceInv, CardsHonest, Honest, ServedIsValidated, Serving
<1> QED  BY <1>1, ServiceInvariant, PTL

-----------------------------------------------------------------------------
(* Use cases that take turns                                               *)

\* As long as nothing has overlapped, at most one use case is at work.
Alone ==
    /\ \A c, d \in Consumers :
          intake[c].pc # "idle" /\ intake[d].pc # "idle" => c = d
    /\ \A o, p \in Operators : desk[o].pc # "idle" /\ desk[p].pc # "idle" => o = p
    /\ \A c \in Consumers, o \in Operators : intake[c].pc = "idle" \/ desk[o].pc = "idle"

\* What the use case at work has drafted still agrees with the rows: a copy has
\* the pointer of its row unless it was withdrawn, and every serving card whose
\* unit the publication removed has been marked as withdrawn.
DraftsCurrent ==
    \A c \in Consumers :
        intake[c].pc # "idle" =>
            /\ \A u \in DOMAIN intake[c].draft :
                  intake[c].draft[u].pointer =
                      IF u \in intake[c].withdrawn THEN NoVersion ELSE cards[u].current
            /\ intake[c].pc # "impacts" => intake[c].withdrawn = {}
            /\ intake[c].pc = "impacts" =>
                  \A u \in Serving :
                      feed[intake[c].pub][u] = "removed" => u \in intake[c].withdrawn

\* What the command at work is about to save: the pointer of the row, none, or
\* one there is room for.
DesksCurrent ==
    \A o \in Operators :
        /\ desk[o].pc = "save" =>
              \/ desk[o].kind = "reject" /\ desk[o].pointer = cards[desk[o].card].current
              \/ desk[o].kind = "withdraw" /\ desk[o].pointer = NoVersion
              \/ desk[o].kind = "promote" /\ FitsCatalog(desk[o].card)
        /\ desk[o].pc \in {"reload", "limits"} => desk[o].kind = "promote"

TurnsOK == ~overlapped => Alone /\ DraftsCurrent /\ DesksCurrent

TurnsInv == ServiceInv /\ TurnsOK /\ CatalogAsDecided

\* The clauses of the invariant for one set of locals.
DraftAgrees(local) ==
    local.pc # "idle" =>
        /\ \A u \in DOMAIN local.draft :
              local.draft[u].pointer =
                  IF u \in local.withdrawn THEN NoVersion ELSE cards[u].current
        /\ local.pc # "impacts" => local.withdrawn = {}
        /\ local.pc = "impacts" =>
              \A u \in Serving : feed[local.pub][u] = "removed" => u \in local.withdrawn

DeskAgrees(local) ==
    /\ local.pc = "save" =>
          \/ local.kind = "reject" /\ local.pointer = cards[local.card].current
          \/ local.kind = "withdraw" /\ local.pointer = NoVersion
          \/ local.kind = "promote" /\ FitsCatalog(local.card)
    /\ local.pc \in {"reload", "limits"} => local.kind = "promote"

Decided == TurnsOK /\ CatalogAsDecided

\* The consumer at work changes its locals and nothing else.
LEMMA ConsumerTurn ==
    ASSUME TurnsInv, NEW c \in Consumers, NEW local, intake[c].pc # "idle",
           intake' = [intake EXCEPT ![c] = local],
           UNCHANGED <<feed, cards, trail, desk, overlapped>>,
           ~overlapped => DraftAgrees(local)
    PROVE  Decided'
<1>1. CatalogAsDecided'
  BY DEF TurnsInv, CatalogAsDecided, Serving
<1> SUFFICES ASSUME ~overlapped PROVE Alone' /\ DraftsCurrent' /\ DesksCurrent'
  BY <1>1 DEF TurnsOK, Decided
<1>2. Alone /\ DraftsCurrent /\ DesksCurrent /\ DraftAgrees(local)
  BY DEF TurnsInv, TurnsOK
<1>3. intake \in [Consumers -> IntakeLocals]
  BY DEF TurnsInv, ServiceInv, TypesOK, IntakesOK
<1>4. Alone'
  BY <1>2, <1>3 DEF Alone
<1>5. DraftsCurrent'
  BY <1>2, <1>3 DEF Alone, DraftsCurrent, DraftAgrees, Serving
<1>6. DesksCurrent'
  BY <1>2 DEF DesksCurrent, FitsCatalog, Serving
<1> QED  BY <1>4, <1>5, <1>6

\* So does the operator at work.
LEMMA OperatorTurn ==
    ASSUME TurnsInv, NEW o \in Operators, NEW local, desk[o].pc # "idle",
           desk' = [desk EXCEPT ![o] = local],
           UNCHANGED <<feed, cards, trail, intake, overlapped>>,
           ~overlapped => DeskAgrees(local)
    PROVE  Decided'
<1>1. CatalogAsDecided'
  BY DEF TurnsInv, CatalogAsDecided, Serving
<1> SUFFICES ASSUME ~overlapped PROVE Alone' /\ DraftsCurrent' /\ DesksCurrent'
  BY <1>1 DEF TurnsOK, Decided
<1>2. Alone /\ DraftsCurrent /\ DesksCurrent /\ DeskAgrees(local)
  BY DEF TurnsInv, TurnsOK
<1>3. desk \in [Operators -> DeskLocals]
  BY DEF TurnsInv, ServiceInv, TypesOK, DesksOK
<1>4. Alone'
  BY <1>2, <1>3 DEF Alone
<1>5. DraftsCurrent'
  BY <1>2 DEF DraftsCurrent, Serving
<1>6. DesksCurrent'
  <2> SUFFICES ASSUME NEW p \in Operators
               PROVE  DeskAgrees(desk[p])'
    BY DEF DesksCurrent, DeskAgrees
  <2>1. DeskAgrees(desk'[p])
    <3>1. CASE p = o
      BY <3>1, <1>2, <1>3
    <3>2. CASE p # o
      BY <3>2, <1>2, <1>3 DEF DesksCurrent, DeskAgrees
    <3> QED  BY <3>1, <3>2
  <2> QED  BY <2>1 DEF DeskAgrees, FitsCatalog, Serving
<1> QED  BY <1>4, <1>5, <1>6

\* A use case begins while everything is idle, or is known to overlap.
LEMMA ClaimTurn ==
    ASSUME TurnsInv, NEW c \in Consumers, NEW p \in DOMAIN feed, Claim(c, p)
    PROVE  Decided'
<1> DEFINE local == [IdleIntake EXCEPT !.pc = "locate", !.pub = p]
<1>1. /\ intake' = [intake EXCEPT ![c] = local] /\ Begin
      /\ UNCHANGED <<feed, cards, trail, desk>>
  BY DEF Claim, registryVars
<1>2. CatalogAsDecided'
  BY <1>1 DEF TurnsInv, CatalogAsDecided, Serving, Begin
<1> SUFFICES ASSUME ~overlapped' PROVE Alone' /\ DraftsCurrent' /\ DesksCurrent'
  BY <1>2 DEF TurnsOK, Decided
<1>3. /\ \A d \in Consumers : intake[d].pc = "idle"
      /\ \A o \in Operators : desk[o].pc = "idle"
  BY <1>1 DEF Begin, AllIdle
<1>4. intake \in [Consumers -> IntakeLocals]
  BY DEF TurnsInv, ServiceInv, TypesOK, IntakesOK
<1>5. local.pc = "locate" /\ local.withdrawn = {} /\ DOMAIN local.draft = {}
  <2>1. /\ local.pc = "locate" /\ local.draft = IdleIntake.draft
        /\ local.withdrawn = IdleIntake.withdrawn
    BY IdleTyped DEF IntakeLocals
  <2> QED  BY <2>1, EmptyDraft DEF IdleIntake
<1> HIDE DEF local
<1>6. Alone' /\ DesksCurrent'
  BY <1>1, <1>3, <1>4 DEF Alone, DesksCurrent
<1>7. DraftsCurrent'
  BY <1>1, <1>3, <1>4, <1>5 DEF DraftsCurrent
<1> QED  BY <1>6, <1>7

LEMMA CommandTurn ==
    ASSUME TurnsInv, NEW o \in Operators, NEW local, Begin,
           desk' = [desk EXCEPT ![o] = local],
           UNCHANGED <<feed, cards, trail, intake>>, DeskAgrees(local)
    PROVE  Decided'
<1>1. CatalogAsDecided'
  BY DEF TurnsInv, CatalogAsDecided, Serving, Begin
<1> SUFFICES ASSUME ~overlapped' PROVE Alone' /\ DraftsCurrent' /\ DesksCurrent'
  BY <1>1 DEF TurnsOK, Decided
<1>2. /\ \A d \in Consumers : intake[d].pc = "idle"
      /\ \A p \in Operators : desk[p].pc = "idle"
  BY DEF Begin, AllIdle
<1>3. desk \in [Operators -> DeskLocals]
  BY DEF TurnsInv, ServiceInv, TypesOK, DesksOK
<1>4. Alone' /\ DraftsCurrent'
  BY <1>2, <1>3 DEF Alone, DraftsCurrent
<1>5. DesksCurrent'
  <2> SUFFICES ASSUME NEW p \in Operators
               PROVE  DeskAgrees(desk[p])'
    BY DEF DesksCurrent, DeskAgrees
  <2>1. DeskAgrees(desk'[p])
    <3>1. CASE p = o
      BY <3>1, <1>3
    <3>2. CASE p # o
      BY <3>2, <1>2, <1>3 DEF DeskAgrees
    <3> QED  BY <3>1, <3>2
  <2> QED  BY <2>1 DEF DeskAgrees, FitsCatalog, Serving
<1> QED  BY <1>4, <1>5

LEMMA FollowTurn ==
    ASSUME TurnsInv, NEW c \in Consumers, Follow(c)
    PROVE  Decided'
<1>0. intake[c].pc = "locate" /\ UNCHANGED <<feed, cards, trail, desk, overlapped>>
  BY DEF Follow, registryVars
<1>1. CASE Locate(cursor, intake[c].pub) \in {"first", "next"}
  <2> DEFINE local == [intake[c] EXCEPT !.pc = "cards"]
  <2>1. intake' = [intake EXCEPT ![c] = local]
    BY <1>1 DEF Follow
  <2>2. /\ local.pc = "cards" /\ local.draft = intake[c].draft
        /\ local.withdrawn = intake[c].withdrawn
    BY DEF TurnsInv, ServiceInv, TypesOK, IntakesOK, IntakeLocals
  <2>3. ~overlapped => DraftAgrees(local)
    <3> HIDE DEF local
    <3> QED  BY <1>0, <2>2 DEF TurnsInv, TurnsOK, DraftsCurrent, DraftAgrees
  <2> HIDE DEF local
  <2> QED  BY <1>0, <2>1, <2>3, ConsumerTurn
<1>2. CASE Locate(cursor, intake[c].pub) \notin {"first", "next"}
  <2>1. intake' = [intake EXCEPT ![c] = IdleIntake]
    BY <1>2 DEF Follow
  <2>2. DraftAgrees(IdleIntake)
    BY DEF IdleIntake, DraftAgrees
  <2> QED  BY <1>0, <2>1, <2>2, ConsumerTurn
<1> QED  BY <1>1, <1>2

LEMMA StopTurn ==
    ASSUME TurnsInv, NEW c \in Consumers, Stop(c)
    PROVE  Decided'
<1>1. DraftAgrees(IdleIntake)
  BY DEF IdleIntake, DraftAgrees
<1> QED  BY <1>1, ConsumerTurn DEF Stop, registryVars

LEMMA AddClaimedVersionTurn ==
    ASSUME TurnsInv, NEW c \in Consumers, NEW u \in Units, AddClaimedVersion(c, u)
    PROVE  Decided'
<1>0. intake[c].pc = "cards" /\ UNCHANGED <<feed, cards, trail, desk, overlapped>>
  BY DEF AddClaimedVersion, registryVars
<1> DEFINE copy(v) == AppendVersion(LoadOrCreateCard(u, v), v)
           draft(v) == [w \in DOMAIN intake[c].draft \cup {u} |->
                           IF w = u THEN copy(v) ELSE intake[c].draft[w]]
<1>1. PICK v \in ClaimedVersions(c) :
        intake' = [intake EXCEPT ![c].draft = draft(v)]
  BY DEF AddClaimedVersion
<1>2. copy(v).pointer = cards[u].current
  <2>1. /\ LoadOrCreateCard(u, v) \in Copy
        /\ LoadOrCreateCard(u, v).pointer = cards[u].current
    BY ClaimedTyped DEF TurnsInv
  <2> QED  BY <2>1 DEF AppendVersion, Copy
<1> DEFINE local == [intake[c] EXCEPT !.draft = draft(v)]
<1>3. intake' = [intake EXCEPT ![c] = local]
  BY <1>1
<1>4. /\ local.pc = "cards" /\ local.draft = draft(v)
      /\ local.withdrawn = intake[c].withdrawn
  <2> HIDE DEF draft
  <2> QED  BY <1>0 DEF TurnsInv, ServiceInv, TypesOK, IntakesOK, IntakeLocals
<1>5. ~overlapped => DraftAgrees(local)
  <2> SUFFICES ASSUME ~overlapped PROVE DraftAgrees(local)
    OBVIOUS
  <2>1. /\ intake[c].withdrawn = {}
        /\ \A w \in DOMAIN intake[c].draft : intake[c].draft[w].pointer = cards[w].current
    BY <1>0 DEF TurnsInv, TurnsOK, DraftsCurrent
  <2> HIDE DEF local, copy
  <2> QED  BY <1>2, <1>4, <2>1 DEF DraftAgrees
<1> HIDE DEF local
<1> QED  BY <1>0, <1>3, <1>5, ConsumerTurn

\* The copies of the cards that stop serving lose the pointer, and a serving
\* card whose unit was removed is one of them.
LEMMA AssessImpactTurn ==
    ASSUME TurnsInv, NEW c \in Consumers, AssessImpact(c)
    PROVE  Decided'
<1>0. intake[c].pc = "cards" /\ UNCHANGED <<feed, cards, trail, desk, overlapped>>
  BY DEF AssessImpact, registryVars
<1> DEFINE p == intake[c].pub
           impacted == {u \in Serving : Impact(u, p) # "none"}
           gone == {u \in Serving : Withdraws(Impact(u, p))}
           old == intake[c].draft
           draft == [u \in DOMAIN old |-> IF u \in gone THEN WithdrawCurrentVersion(old[u])
                                                        ELSE old[u]]
           local == [intake[c] EXCEPT !.pc = "impacts", !.withdrawn = gone,
                                      !.impacted = impacted, !.draft = draft]
<1>1. intake' = [intake EXCEPT ![c] = local]
  BY DEF AssessImpact
<1>2. \A u \in Serving : feed[p][u] = "removed" => u \in gone
  BY DEF Withdraws, Impact
<1>3. intake[c] \in IntakeLocals /\ old \in [DOMAIN old -> Copy] /\ DOMAIN old \subseteq Units
  BY DraftShape DEF TurnsInv, ServiceInv, TypesOK, IntakesOK, IntakeLocals
<1> HIDE DEF gone, impacted
<1>4. /\ local.pc = "impacts" /\ local.withdrawn = gone /\ local.draft = draft
      /\ local.pub = p
  <2> HIDE DEF draft
  <2> QED  BY <1>3 DEF IntakeLocals
<1>5. ~overlapped => DraftAgrees(local)
  <2> SUFFICES ASSUME ~overlapped PROVE DraftAgrees(local)
    OBVIOUS
  <2>1. \A w \in DOMAIN old : old[w].pointer = cards[w].current
    BY <1>0 DEF TurnsInv, TurnsOK, DraftsCurrent
  <2>2. \A w \in DOMAIN old :
           draft[w].pointer = IF w \in gone THEN NoVersion ELSE cards[w].current
    BY <2>1, <1>3, WithdrawnTyped
  <2>3. DOMAIN draft = DOMAIN old
    OBVIOUS
  <2> HIDE DEF local, draft
  <2> QED  BY <1>2, <1>4, <2>2, <2>3 DEF DraftAgrees
<1> HIDE DEF local
<1> QED  BY <1>0, <1>1, <1>5, ConsumerTurn

LEMMA LoadImpactedTurn ==
    ASSUME TurnsInv, NEW c \in Consumers, NEW u \in Units, LoadImpacted(c, u)
    PROVE  Decided'
<1>0. intake[c].pc = "impacts" /\ UNCHANGED <<feed, cards, trail, desk, overlapped>>
  BY DEF LoadImpacted, registryVars
<1> DEFINE copy == IF u \in intake[c].withdrawn
                   THEN WithdrawCurrentVersion(CopyOf(u)) ELSE CopyOf(u)
           draft == [w \in DOMAIN intake[c].draft \cup {u} |->
                        IF w = u THEN copy ELSE intake[c].draft[w]]
           local == [intake[c] EXCEPT !.draft = draft]
<1>1. intake' = [intake EXCEPT ![c] = local]
  BY DEF LoadImpacted
<1>2. copy.pointer = IF u \in intake[c].withdrawn THEN NoVersion ELSE cards[u].current
  <2>1. CopyOf(u) \in Copy /\ CopyOf(u).pointer = cards[u].current
    BY CopyTyped DEF TurnsInv, CopyOf
  <2> QED  BY <2>1, WithdrawnTyped
<1> HIDE DEF copy
<1>3. /\ local.pc = "impacts" /\ local.draft = draft /\ local.pub = intake[c].pub
      /\ local.withdrawn = intake[c].withdrawn
  <2> HIDE DEF draft
  <2> QED  BY <1>0 DEF TurnsInv, ServiceInv, TypesOK, IntakesOK, IntakeLocals
<1>4. ~overlapped => DraftAgrees(local)
  <2> SUFFICES ASSUME ~overlapped PROVE DraftAgrees(local)
    OBVIOUS
  <2>1. DraftAgrees(intake[c])
    BY DEF TurnsInv, TurnsOK, DraftsCurrent, DraftAgrees
  <2> HIDE DEF local
  <2> QED  BY <1>0, <1>2, <1>3, <2>1 DEF DraftAgrees
<1> HIDE DEF local
<1> QED  BY <1>0, <1>1, <1>4, ConsumerTurn

\* The one transaction of an intake: every pointer it changes, it withdraws.
LEMMA CommitPointers ==
    ASSUME TurnsInv, ~overlapped, NEW c \in Consumers, Commit(c), NEW u \in Units
    PROVE  /\ cards'[u].current = IF u \in intake[c].withdrawn THEN NoVersion
                                                              ELSE cards[u].current
           /\ trail'[u] = cards'[u].current
<1>1. /\ intake[c].draft \in [DOMAIN intake[c].draft -> Copy]
      /\ intake[c].withdrawn \subseteq DOMAIN intake[c].draft
  BY DraftShape DEF TurnsInv, ServiceInv, TypesOK, IntakesOK, IntakeLocals, Commit
<1>2. \A w \in DOMAIN intake[c].draft :
         intake[c].draft[w].pointer =
             IF w \in intake[c].withdrawn THEN NoVersion ELSE cards[w].current
  BY DEF TurnsInv, TurnsOK, DraftsCurrent, Commit
<1>3. cards'[u].current = IF u \in intake[c].withdrawn THEN NoVersion ELSE cards[u].current
  <2>1. CASE u \in DOMAIN intake[c].draft
    BY <2>1, <1>1, <1>2, RowWritten DEF Commit, TurnsInv
  <2>2. CASE u \notin DOMAIN intake[c].draft
    BY <2>2, <1>1 DEF Commit
  <2> QED  BY <2>1, <2>2
<1>4. trail'[u] = IF u \in intake[c].withdrawn THEN NoVersion ELSE trail[u]
  BY DEF Commit
<1>5. cards[u].current = trail[u]
  BY DEF TurnsInv, CatalogAsDecided
<1> QED  BY <1>3, <1>4, <1>5

\* The catalog is finite, and one that only lost cards still fits.
LEMMA SmallerFits ==
    ASSUME Serving' \subseteq Serving, Cardinality(Serving) <= MaxCards
    PROVE  Cardinality(Serving') <= MaxCards
<1>1. IsFiniteSet(Serving)
  BY RegistryAssumption, FS_Subset DEF Serving
<1>2. IsFiniteSet(Serving') /\ Cardinality(Serving') <= Cardinality(Serving)
  BY <1>1, FS_Subset
<1>3. Cardinality(Serving) \in Nat /\ Cardinality(Serving') \in Nat
  BY <1>1, <1>2, FS_CardinalityType
<1> QED  BY <1>2, <1>3, RegistryAssumption

LEMMA CommitTurn ==
    ASSUME TurnsInv, NEW c \in Consumers, Commit(c)
    PROVE  Decided'
<1>1. overlapped' = overlapped /\ desk' = desk /\ feed' = feed
  BY DEF Commit
<1> SUFFICES ASSUME ~overlapped
             PROVE  Alone' /\ DraftsCurrent' /\ DesksCurrent'
                    /\ (\A u \in Units : cards'[u].current = trail'[u])
                    /\ Cardinality(Serving') <= MaxCards
  BY <1>1 DEF TurnsOK, Decided, CatalogAsDecided
<1>2. \A u \in Units : cards'[u].current = trail'[u]
  BY CommitPointers
<1>3. Serving' \subseteq Serving
  BY CommitPointers DEF Serving
<1>4. Cardinality(Serving') <= MaxCards
  BY <1>3, SmallerFits DEF TurnsInv, CatalogAsDecided
<1>5. Alone /\ intake[c].pc # "idle" /\ intake \in [Consumers -> IntakeLocals]
  BY DEF TurnsInv, TurnsOK, Commit, ServiceInv, TypesOK, IntakesOK
<1>6. /\ \A d \in Consumers : intake'[d].pc = "idle"
      /\ \A o \in Operators : desk'[o].pc = "idle"
  BY <1>1, <1>5 DEF Alone, Commit, IdleIntake
<1>7. Alone' /\ DraftsCurrent' /\ DesksCurrent'
  BY <1>6 DEF Alone, DraftsCurrent, DesksCurrent
<1> QED  BY <1>2, <1>4, <1>7

\* saveCard: a promotion that was found to fit is still the only change.
LEMMA SaveCardTurn ==
    ASSUME TurnsInv, NEW o \in Operators, SaveCard(o)
    PROVE  Decided'
<1>1. overlapped' = overlapped /\ intake' = intake /\ feed' = feed
  BY DEF SaveCard
<1> SUFFICES ASSUME ~overlapped
             PROVE  Alone' /\ DraftsCurrent' /\ DesksCurrent'
                    /\ (\A u \in Units : cards'[u].current = trail'[u])
                    /\ Cardinality(Serving') <= MaxCards
  BY <1>1 DEF TurnsOK, Decided, CatalogAsDecided
<1> DEFINE u == desk[o].card
           copy == [pointer |-> desk[o].pointer, meaning |-> desk[o].meaning,
                    fresh |-> NoVersion]
<1>2. u \in Units /\ desk[o] \in DeskLocals
  BY DEF SaveCard, TurnsInv, ServiceInv, TypesOK, DesksOK
<1>3. copy \in Copy
  BY <1>2 DEF Copy, DeskLocals, MaybeVersion
<1>4. /\ cards' = [cards EXCEPT ![u] = WriteCard(u, copy)]
      /\ trail' = [trail EXCEPT ![u] = IF desk[o].kind = "reject" THEN trail[u]
                                       ELSE desk[o].pointer]
  BY DEF SaveCard
<1>5. WriteCard(u, copy).current = desk[o].pointer
  BY <1>2, <1>3, RowWritten DEF TurnsInv
<1>6. /\ cards \in [Units -> Card] /\ trail \in [Units -> MaybeVersion]
      /\ \A w \in Units : cards[w].current = trail[w]
      /\ Cardinality(Serving) <= MaxCards
  BY DEF TurnsInv, ServiceInv, TypesOK, RowsOK, CatalogAsDecided
<1>7. \/ desk[o].kind = "reject" /\ desk[o].pointer = cards[u].current
      \/ desk[o].kind = "withdraw" /\ desk[o].pointer = NoVersion
      \/ desk[o].kind = "promote" /\ FitsCatalog(u)
  BY DEF SaveCard, TurnsInv, TurnsOK, DesksCurrent
<1> HIDE DEF copy
<1>8. /\ cards'[u].current = desk[o].pointer
      /\ \A w \in Units \ {u} : cards'[w].current = cards[w].current
      /\ \A w \in Units \ {u} : trail'[w] = trail[w]
      /\ trail'[u] = IF desk[o].kind = "reject" THEN trail[u] ELSE desk[o].pointer
  BY <1>2, <1>4, <1>5, <1>6
<1>9. \A w \in Units : cards'[w].current = trail'[w]
  <2>1. cards'[u].current = trail'[u]
    BY <1>2, <1>6, <1>7, <1>8
  <2> QED  BY <1>6, <1>8, <2>1
<1>10. Cardinality(Serving') <= MaxCards
  <2>1. CASE desk[o].kind = "promote" /\ FitsCatalog(u)
    <3>1. Serving' \subseteq (Serving \ {u}) \cup {u}
      BY <1>8 DEF Serving
    <3>2. IsFiniteSet(Serving \ {u}) /\ u \notin Serving \ {u}
      BY RegistryAssumption, FS_Subset DEF Serving
    <3>3. /\ IsFiniteSet((Serving \ {u}) \cup {u})
          /\ Cardinality((Serving \ {u}) \cup {u}) = Cardinality(Serving \ {u}) + 1
      BY <3>2, FS_AddElement
    <3>4. /\ Cardinality(Serving') <= Cardinality((Serving \ {u}) \cup {u})
          /\ IsFiniteSet(Serving')
      BY <3>1, <3>3, FS_Subset
    <3>5. Cardinality(Serving') \in Nat /\ Cardinality(Serving \ {u}) \in Nat
      BY <3>2, <3>4, FS_CardinalityType
    <3>6. Cardinality(Serving \ {u}) + 1 <= MaxCards
      BY <2>1 DEF FitsCatalog
    <3> QED  BY <3>3, <3>4, <3>5, <3>6, RegistryAssumption
  <2>2. CASE desk[o].pointer = NoVersion \/ desk[o].pointer = cards[u].current
    <3>1. Serving' \subseteq Serving
      BY <2>2, <1>2, <1>8 DEF Serving
    <3> QED  BY <3>1, <1>6, SmallerFits
  <2> QED  BY <1>7, <2>1, <2>2
<1>11. Alone /\ desk[o].pc # "idle" /\ desk \in [Operators -> DeskLocals]
  BY DEF TurnsInv, TurnsOK, SaveCard, ServiceInv, TypesOK, DesksOK
<1>12. /\ \A d \in Consumers : intake'[d].pc = "idle"
       /\ \A p \in Operators : desk'[p].pc = "idle"
  BY <1>1, <1>11 DEF Alone, SaveCard, IdleDesk
<1>13. Alone' /\ DraftsCurrent' /\ DesksCurrent'
  BY <1>12 DEF Alone, DraftsCurrent, DesksCurrent
<1> QED  BY <1>9, <1>10, <1>13

LEMMA LoadTurn ==
    ASSUME TurnsInv, NEW o \in Operators, NEW u, NEW step, NEW kind, NEW v,
           NEW pointer, NEW meaning, BeginCommand(o),
           Load(o, step, kind, u, v, pointer, meaning),
           UNCHANGED <<feed, cards, trail, intake>>,
           \/ step \in {"reload", "limits"} /\ kind = "promote"
           \/ kind = "reject" /\ pointer = cards[u].current
           \/ kind = "withdraw" /\ pointer = NoVersion,
           kind # "promote" => step = "save"
    PROVE  Decided'
<1> DEFINE local == [pc |-> step, kind |-> kind, card |-> u, version |-> v,
                     pointer |-> pointer, meaning |-> meaning]
<1>1. desk' = [desk EXCEPT ![o] = local] /\ Begin
  BY DEF Load, BeginCommand
<1>2. DeskAgrees(local)
  BY DEF DeskAgrees
<1> HIDE DEF local
<1> QED  BY <1>1, <1>2, CommandTurn

LEMMA CommandsTurn ==
    ASSUME TurnsInv, NEW o \in Operators, NEW u \in Units,
           Approve(o, u) \/ Rollback(o, u) \/ Reject(o, u) \/ Disable(o, u)
    PROVE  Decided'
<1>1. CASE Approve(o, u)
  BY <1>1, LoadTurn DEF Approve, registryVars
<1>2. CASE Rollback(o, u)
  BY <1>2, LoadTurn DEF Rollback, registryVars
<1>3. CASE Reject(o, u)
  BY <1>3, LoadTurn DEF Reject, registryVars
<1>4. CASE Disable(o, u)
  BY <1>4, LoadTurn DEF Disable, registryVars
<1> QED  BY <1>1, <1>2, <1>3, <1>4

LEMMA RollbackReloadTurn ==
    ASSUME TurnsInv, NEW o \in Operators, RollbackReload(o)
    PROVE  Decided'
<1> DEFINE u == desk[o].card
           v == desk[o].version
           local == IF MayPromote(u, v)
                    THEN [pc |-> "limits", kind |-> "promote", card |-> u, version |-> v,
                          pointer |-> v, meaning |-> v]
                    ELSE IdleDesk
<1>1. desk' = [desk EXCEPT ![o] = local]
  BY DEF RollbackReload, Load
<1>2. DeskAgrees(local)
  BY DEF DeskAgrees, IdleDesk
<1>3. desk[o].pc # "idle" /\ UNCHANGED <<feed, cards, trail, intake, overlapped>>
  BY DEF RollbackReload, registryVars
<1> HIDE DEF local
<1> QED  BY <1>1, <1>2, <1>3, OperatorTurn

LEMMA CheckLimitsTurn ==
    ASSUME TurnsInv, NEW o \in Operators, CheckLimits(o)
    PROVE  Decided'
<1> DEFINE local == IF FitsCatalog(desk[o].card) THEN [desk[o] EXCEPT !.pc = "save"]
                                                 ELSE IdleDesk
<1>1. desk' = [desk EXCEPT ![o] = local]
  BY DEF CheckLimits
<1>2. ~overlapped => DeskAgrees(local)
  <2>1. CASE ~FitsCatalog(desk[o].card)
    BY <2>1 DEF DeskAgrees, IdleDesk
  <2>2. CASE FitsCatalog(desk[o].card)
    <3>1. /\ local.pc = "save" /\ local.kind = desk[o].kind
          /\ local.card = desk[o].card
      BY <2>2 DEF TurnsInv, ServiceInv, TypesOK, DesksOK, DeskLocals
    <3>2. ~overlapped => desk[o].kind = "promote"
      BY DEF CheckLimits, TurnsInv, TurnsOK, DesksCurrent
    <3> HIDE DEF local
    <3> QED  BY <2>2, <3>1, <3>2 DEF DeskAgrees
  <2> QED  BY <2>1, <2>2
<1>3. desk[o].pc # "idle" /\ UNCHANGED <<feed, cards, trail, intake, overlapped>>
  BY DEF CheckLimits, registryVars
<1> HIDE DEF local
<1> QED  BY <1>1, <1>2, <1>3, OperatorTurn

LEMMA PublishTurn ==
    ASSUME TurnsInv, Publish
    PROVE  Decided'
<1>1. UNCHANGED <<cards, trail, intake, desk, overlapped>>
  BY DEF Publish, registryVars
<1>2. \A p \in DOMAIN feed : feed'[p] = feed[p]
  BY FeedGrows DEF TurnsInv
<1>3. \A c \in Consumers : intake[c].pc # "idle" => intake[c].pub \in DOMAIN feed
  BY DEF TurnsInv, ServiceInv, TypesOK, IntakesOK
<1>4. CatalogAsDecided'
  BY <1>1 DEF TurnsInv, CatalogAsDecided, Serving
<1> SUFFICES ASSUME ~overlapped PROVE Alone' /\ DraftsCurrent' /\ DesksCurrent'
  BY <1>1, <1>4 DEF TurnsOK, Decided
<1>5. Alone /\ DraftsCurrent /\ DesksCurrent
  BY DEF TurnsInv, TurnsOK
<1>6. Alone' /\ DesksCurrent'
  BY <1>1, <1>5 DEF Alone, DesksCurrent, FitsCatalog, Serving
<1>7. DraftsCurrent'
  BY <1>1, <1>2, <1>3, <1>5 DEF DraftsCurrent, Serving
<1> QED  BY <1>6, <1>7

LEMMA InitTurn ==
    ASSUME Init
    PROVE  Decided
<1>1. Serving = {}
  BY DEF Init, NoCard, Serving
<1>2. Cardinality({}) = 0
  BY FS_EmptySet
<1>3. CatalogAsDecided
  BY <1>1, <1>2, RegistryAssumption DEF Init, NoCard, CatalogAsDecided
<1>4. /\ \A c \in Consumers : intake[c].pc = "idle"
      /\ \A o \in Operators : desk[o].pc = "idle"
  BY DEF Init, IdleIntake, IdleDesk
<1> QED  BY <1>3, <1>4 DEF Decided, TurnsOK, Alone, DraftsCurrent, DesksCurrent

LEMMA NextTurn ==
    ASSUME TurnsInv, [Next]_vars
    PROVE  TurnsInv'
<1>0. ServiceInv'
  BY NextService DEF TurnsInv
<1> SUFFICES Decided'
  BY <1>0 DEF Decided, TurnsInv
<1>1. CASE Publish
  BY <1>1, PublishTurn
<1>2. ASSUME NEW c \in Consumers, NEW p \in DOMAIN feed, Claim(c, p)
      PROVE  Decided'
  BY <1>2, ClaimTurn
<1>3. ASSUME NEW c \in Consumers, ConsumerStep(c)
      PROVE  Decided'
  BY <1>3, FollowTurn, AssessImpactTurn, CommitTurn, AddClaimedVersionTurn,
     LoadImpactedTurn DEF ConsumerStep
<1>4. ASSUME NEW c \in Consumers, Stop(c)
      PROVE  Decided'
  BY <1>4, StopTurn
<1>5. ASSUME NEW o \in Operators, OperatorStep(o)
      PROVE  Decided'
  BY <1>5, CommandsTurn, RollbackReloadTurn, CheckLimitsTurn, SaveCardTurn DEF OperatorStep
<1>6. CASE UNCHANGED vars
  BY <1>6 DEF vars, TurnsInv, Decided, TurnsOK, CatalogAsDecided, Alone, DraftsCurrent,
              DesksCurrent, FitsCatalog, Serving
<1> QED  BY <1>1, <1>2, <1>3, <1>4, <1>5, <1>6 DEF Next

\* The invariant of use cases that take turns.
THEOREM TurnsInvariant == Spec => []TurnsInv
<1>1. Init => TurnsInv
  BY InitService, InitTurn DEF Decided, TurnsInv
<1> QED  BY <1>1, NextTurn, PTL DEF Spec

\* As long as use cases take turns, the events account for every pointer and
\* the catalog keeps within its ceiling, whatever intakes and commands follow
\* each other.
THEOREM CatalogDecided == Spec => []CatalogAsDecided
<1>1. TurnsInv => CatalogAsDecided
  BY DEF TurnsInv
<1> QED  BY <1>1, TurnsInvariant, PTL

\* The cursor and the versions of the cards change only with the transaction of
\* an intake.
LEMMA OnlyCommitMoves ==
    ASSUME [Next]_vars
    PROVE  cursor' = cursor \/ \E c \in Consumers : Commit(c)
<1>1. ASSUME NEW c \in Consumers, NEW p \in DOMAIN feed, Claim(c, p)
      PROVE  cursor' = cursor
  BY <1>1 DEF Claim, registryVars
<1>2. ASSUME NEW c \in Consumers, ConsumerStep(c)
      PROVE  cursor' = cursor \/ Commit(c)
  BY <1>2 DEF ConsumerStep, Follow, AddClaimedVersion, AssessImpact, LoadImpacted,
              registryVars
<1>3. ASSUME NEW c \in Consumers, Stop(c)
      PROVE  cursor' = cursor
  BY <1>3 DEF Stop, registryVars
<1>4. ASSUME NEW o \in Operators, OperatorStep(o)
      PROVE  cursor' = cursor
  BY <1>4 DEF OperatorStep, Approve, Rollback, Reject, Disable, RollbackReload, CheckLimits,
              SaveCard, registryVars
<1>5. CASE Publish \/ UNCHANGED vars
  BY <1>5 DEF Publish, vars, registryVars
<1> QED  BY <1>1, <1>2, <1>3, <1>4, <1>5 DEF Next

\* As long as use cases take turns, only the transaction of an intake moves the
\* cursor, and it takes every card out of service whose unit the publication
\* removed, whether or not the draft held it.
THEOREM RemovedStops == Spec => RemovedStopsServing
<1>1. ASSUME TurnsInv, [Next]_vars
      PROVE  [\A u \in Units :
                ~overlapped /\ cursor' # cursor /\ feed[cursor'][u] = "removed"
                => cards'[u].current = NoVersion]_vars
  <2> SUFFICES ASSUME NEW u \in Units, ~overlapped, cursor' # cursor,
                      feed[cursor'][u] = "removed"
               PROVE  cards'[u].current = NoVersion
    OBVIOUS
  <2>1. PICK c \in Consumers : Commit(c)
    BY <1>1, OnlyCommitMoves
  <2>2. cursor' = intake[c].pub /\ intake[c].pc = "impacts"
    BY <2>1 DEF Commit, WriteConsumption
  <2>3. u \in Serving => u \in intake[c].withdrawn
    BY <1>1, <2>2 DEF TurnsInv, TurnsOK, DraftsCurrent
  <2>4. cards'[u].current = IF u \in intake[c].withdrawn THEN NoVersion ELSE cards[u].current
    BY <1>1, <2>1, CommitPointers
  <2> QED  BY <2>3, <2>4 DEF Serving
<1> QED  BY <1>1, TurnsInvariant, PTL DEF Spec, RemovedStopsServing

-----------------------------------------------------------------------------
(* The chain                                                               *)

\* The registry_consume lane of one process.
OneConsumer == \A c, d \in Consumers : c = d

\* An intake past locateInChain is about the publication after the cursor, and
\* its draft has a new version for exactly the units of that publication.
DraftOfNext(local) ==
    /\ local.pc \in {"cards", "impacts"} => cursor + 1 = local.pub
    /\ local.pc = "impacts" => UnitsOf(local.pub) \subseteq DOMAIN local.draft
    /\ \A u \in DOMAIN local.draft :
          IF u \in UnitsOf(local.pub)
          THEN local.draft[u].fresh # NoVersion /\ local.draft[u].fresh.pub = local.pub
          ELSE local.draft[u].fresh = NoVersion

ChainInv == ServiceInv /\ \A c \in Consumers : DraftOfNext(intake[c])

\* Only the consumer's own locals matter as long as the feed and the cursor stay.
LEMMA ConsumerChain ==
    ASSUME ChainInv, NEW c \in Consumers, NEW local,
           intake' = [intake EXCEPT ![c] = local],
           UNCHANGED <<feed, cursor>>, DraftOfNext(local)
    PROVE  \A d \in Consumers : DraftOfNext(intake[d])'
<1>1. \A d \in Consumers : DraftOfNext(intake'[d])
  BY DEF ChainInv, ServiceInv, TypesOK, IntakesOK
<1> QED  BY <1>1 DEF DraftOfNext, UnitsOf

LEMMA EmptyChain ==
    ASSUME NEW local, local.draft = <<>>, local.pc \in {"idle", "locate"}
    PROVE  DraftOfNext(local)
BY EmptyDraft DEF DraftOfNext

LEMMA ClaimChain ==
    ASSUME ChainInv, NEW c \in Consumers, NEW p \in DOMAIN feed, Claim(c, p)
    PROVE  \A d \in Consumers : DraftOfNext(intake[d])'
<1> DEFINE local == [IdleIntake EXCEPT !.pc = "locate", !.pub = p]
<1>1. local.draft = IdleIntake.draft /\ local.pc = "locate"
  BY IdleTyped DEF IntakeLocals
<1>2. intake' = [intake EXCEPT ![c] = local] /\ UNCHANGED <<feed, cursor>>
  BY DEF Claim, registryVars
<1>3. IdleIntake.draft = <<>>
  BY DEF IdleIntake
<1> HIDE DEF local
<1> QED  BY <1>1, <1>2, <1>3, EmptyChain, ConsumerChain

LEMMA IdleChain ==
    ASSUME ChainInv, NEW c \in Consumers, intake' = [intake EXCEPT ![c] = IdleIntake],
           UNCHANGED <<feed, cursor>>
    PROVE  \A d \in Consumers : DraftOfNext(intake[d])'
<1>1. IdleIntake.draft = <<>> /\ IdleIntake.pc = "idle"
  BY DEF IdleIntake
<1> QED  BY <1>1, EmptyChain, ConsumerChain

\* locateInChain lets only the publication after the cursor through.
LEMMA LocatedIsNext ==
    ASSUME NEW at \in Nat, NEW p \in Nat, Locate(at, p) \in {"first", "next"}
    PROVE  at + 1 = p
BY DEF Locate

LEMMA FollowChain ==
    ASSUME ChainInv, NEW c \in Consumers, Follow(c)
    PROVE  \A d \in Consumers : DraftOfNext(intake[d])'
<1>0. UNCHANGED <<feed, cursor>>
  BY DEF Follow, registryVars
<1>1. CASE Locate(cursor, intake[c].pub) \in {"first", "next"}
  <2> DEFINE local == [intake[c] EXCEPT !.pc = "cards"]
  <2>1. intake' = [intake EXCEPT ![c] = local]
    BY <1>1 DEF Follow
  <2>2. local.pc = "cards" /\ local.draft = intake[c].draft /\ local.pub = intake[c].pub
    BY DEF ChainInv, ServiceInv, TypesOK, IntakesOK, IntakeLocals
  <2>3. cursor \in Nat /\ intake[c].pub \in Nat
    BY DEF ChainInv, ServiceInv, TypesOK, RowsOK, IntakesOK, IntakeLocals
  <2>4. DraftOfNext(local)
    <3> HIDE DEF local
    <3> QED  BY <1>1, <2>2, <2>3, LocatedIsNext DEF ChainInv, DraftOfNext
  <2> HIDE DEF local
  <2> QED  BY <1>0, <2>1, <2>4, ConsumerChain
<1>2. CASE Locate(cursor, intake[c].pub) \notin {"first", "next"}
  BY <1>0, <1>2, IdleChain DEF Follow
<1> QED  BY <1>1, <1>2

LEMMA AddClaimedVersionChain ==
    ASSUME ChainInv, NEW c \in Consumers, NEW u \in Units, AddClaimedVersion(c, u)
    PROVE  \A d \in Consumers : DraftOfNext(intake[d])'
<1>0. UNCHANGED <<feed, cursor>> /\ intake[c].pc = "cards" /\ u \in UnitsOf(intake[c].pub)
  BY DEF AddClaimedVersion, registryVars
<1> DEFINE copy(v) == AppendVersion(LoadOrCreateCard(u, v), v)
           draft(v) == [w \in DOMAIN intake[c].draft \cup {u} |->
                           IF w = u THEN copy(v) ELSE intake[c].draft[w]]
<1>1. PICK v \in ClaimedVersions(c) :
        intake' = [intake EXCEPT ![c].draft = draft(v)]
  BY DEF AddClaimedVersion
<1>2. copy(v).fresh = v /\ v # NoVersion /\ v.pub = intake[c].pub
  <2>1. LoadOrCreateCard(u, v) \in Copy /\ v # NoVersion /\ v.pub = intake[c].pub
    BY ClaimedTyped DEF ChainInv
  <2> QED  BY <2>1 DEF AppendVersion, Copy
<1> DEFINE local == [intake[c] EXCEPT !.draft = draft(v)]
<1>3. intake' = [intake EXCEPT ![c] = local]
  BY <1>1
<1>4. local.pc = "cards" /\ local.draft = draft(v) /\ local.pub = intake[c].pub
  <2> HIDE DEF draft
  <2> QED  BY <1>0 DEF ChainInv, ServiceInv, TypesOK, IntakesOK, IntakeLocals
<1>5. DraftOfNext(local)
  <2>1. DraftOfNext(intake[c])
    BY DEF ChainInv
  <2> HIDE DEF local, copy
  <2> QED  BY <1>0, <1>2, <1>4, <2>1 DEF DraftOfNext
<1> HIDE DEF local
<1> QED  BY <1>0, <1>3, <1>5, ConsumerChain

LEMMA AssessImpactChain ==
    ASSUME ChainInv, NEW c \in Consumers, AssessImpact(c)
    PROVE  \A d \in Consumers : DraftOfNext(intake[d])'
<1>0. /\ intake[c].pc = "cards" /\ UNCHANGED <<feed, cursor>>
      /\ UnitsOf(intake[c].pub) \subseteq DOMAIN intake[c].draft
  BY DEF AssessImpact, registryVars
<1> DEFINE p == intake[c].pub
           impacted == {u \in Serving : Impact(u, p) # "none"}
           gone == {u \in Serving : Withdraws(Impact(u, p))}
           old == intake[c].draft
           draft == [u \in DOMAIN old |-> IF u \in gone THEN WithdrawCurrentVersion(old[u])
                                                        ELSE old[u]]
           local == [intake[c] EXCEPT !.pc = "impacts", !.withdrawn = gone,
                                      !.impacted = impacted, !.draft = draft]
<1>1. intake' = [intake EXCEPT ![c] = local]
  BY DEF AssessImpact
<1>2. intake[c] \in IntakeLocals /\ old \in [DOMAIN old -> Copy] /\ DOMAIN old \subseteq Units
  BY DraftShape DEF ChainInv, ServiceInv, TypesOK, IntakesOK, IntakeLocals
<1> HIDE DEF gone, impacted
<1>3. DOMAIN draft = DOMAIN old /\ \A w \in DOMAIN old : draft[w].fresh = old[w].fresh
  BY <1>2, WithdrawnTyped
<1> HIDE DEF draft
<1>4. local.pc = "impacts" /\ local.draft = draft /\ local.pub = p
  BY <1>2 DEF IntakeLocals
<1>5. DraftOfNext(local)
  <2>1. DraftOfNext(intake[c])
    BY DEF ChainInv
  <2> HIDE DEF local
  <2> QED  BY <1>0, <1>3, <1>4, <2>1 DEF DraftOfNext
<1> HIDE DEF local
<1> QED  BY <1>0, <1>1, <1>5, ConsumerChain

LEMMA LoadImpactedChain ==
    ASSUME ChainInv, NEW c \in Consumers, NEW u \in Units, LoadImpacted(c, u)
    PROVE  \A d \in Consumers : DraftOfNext(intake[d])'
<1>0. /\ intake[c].pc = "impacts" /\ UNCHANGED <<feed, cursor>>
      /\ u \notin DOMAIN intake[c].draft
  BY DEF LoadImpacted, registryVars
<1> DEFINE copy == IF u \in intake[c].withdrawn
                   THEN WithdrawCurrentVersion(CopyOf(u)) ELSE CopyOf(u)
           draft == [w \in DOMAIN intake[c].draft \cup {u} |->
                        IF w = u THEN copy ELSE intake[c].draft[w]]
           local == [intake[c] EXCEPT !.draft = draft]
<1>1. intake' = [intake EXCEPT ![c] = local]
  BY DEF LoadImpacted
<1>2. copy.fresh = NoVersion
  <2>1. CopyOf(u) \in Copy /\ CopyOf(u).fresh = NoVersion
    BY CopyTyped DEF ChainInv, CopyOf
  <2> QED  BY <2>1, WithdrawnTyped
<1> HIDE DEF copy
<1>3. local.pc = "impacts" /\ local.draft = draft /\ local.pub = intake[c].pub
  <2> HIDE DEF draft
  <2> QED  BY <1>0 DEF ChainInv, ServiceInv, TypesOK, IntakesOK, IntakeLocals
<1>4. DraftOfNext(local)
  <2>1. DraftOfNext(intake[c])
    BY DEF ChainInv
  <2> HIDE DEF local
  <2> QED  BY <1>0, <1>2, <1>3, <2>1 DEF DraftOfNext
<1> HIDE DEF local
<1> QED  BY <1>0, <1>1, <1>4, ConsumerChain

\* With one consumer, nobody else is at work when the cursor moves.
LEMMA CommitChain ==
    ASSUME OneConsumer, ChainInv, NEW c \in Consumers, Commit(c)
    PROVE  \A d \in Consumers : DraftOfNext(intake[d])'
<1> SUFFICES ASSUME NEW d \in Consumers PROVE DraftOfNext(intake[d])'
  OBVIOUS
<1>1. intake'[d] = IdleIntake
  BY DEF OneConsumer, Commit, ChainInv, ServiceInv, TypesOK, IntakesOK
<1>2. IdleIntake.draft = <<>> /\ IdleIntake.pc = "idle"
  BY DEF IdleIntake
<1> QED  BY <1>1, <1>2, EmptyDraft DEF DraftOfNext

LEMMA PublishChain ==
    ASSUME ChainInv, Publish
    PROVE  \A d \in Consumers : DraftOfNext(intake[d])'
<1> SUFFICES ASSUME NEW d \in Consumers PROVE DraftOfNext(intake[d])'
  OBVIOUS
<1>1. UNCHANGED <<intake, cursor>>
  BY DEF Publish, registryVars
<1>2. UnitsOf(intake[d].pub)' = UnitsOf(intake[d].pub)
  <2>1. \A p \in DOMAIN feed : feed'[p] = feed[p]
    BY FeedGrows DEF ChainInv
  <2>2. intake[d].pub = 0 \/ intake[d].pub \in DOMAIN feed
    BY DEF ChainInv, ServiceInv, TypesOK, IntakesOK, RowsOK
  <2> QED  BY <1>1, <2>1, <2>2 DEF UnitsOf
<1> QED  BY <1>1, <1>2 DEF ChainInv, DraftOfNext

LEMMA NextChain ==
    ASSUME OneConsumer, ChainInv, [Next]_vars
    PROVE  ChainInv'
<1>0. ServiceInv'
  BY NextService DEF ChainInv
<1> SUFFICES \A d \in Consumers : DraftOfNext(intake[d])'
  BY <1>0 DEF ChainInv
<1>1. CASE Publish
  BY <1>1, PublishChain
<1>2. ASSUME NEW c \in Consumers, NEW p \in DOMAIN feed, Claim(c, p)
      PROVE  \A d \in Consumers : DraftOfNext(intake[d])'
  BY <1>2, ClaimChain
<1>3. ASSUME NEW c \in Consumers, ConsumerStep(c)
      PROVE  \A d \in Consumers : DraftOfNext(intake[d])'
  BY <1>3, FollowChain, AssessImpactChain, CommitChain, AddClaimedVersionChain,
     LoadImpactedChain DEF ConsumerStep
<1>4. ASSUME NEW c \in Consumers, Stop(c)
      PROVE  \A d \in Consumers : DraftOfNext(intake[d])'
  BY <1>4, IdleChain DEF Stop, registryVars
<1>5. CASE UNCHANGED <<feed, cursor, intake>>
  BY <1>5 DEF ChainInv, DraftOfNext, UnitsOf
<1>6. ASSUME NEW o \in Operators, OperatorStep(o)
      PROVE  UNCHANGED <<feed, cursor, intake>>
  BY <1>6 DEF OperatorStep, Approve, Rollback, Reject, Disable, RollbackReload, CheckLimits,
              SaveCard, registryVars
<1> QED  BY <1>1, <1>2, <1>3, <1>4, <1>5, <1>6 DEF Next, vars

\* What a write does to the publications a card has versions of.
LEMMA PubsWritten ==
    ASSUME ServiceInv, NEW u \in Units, NEW copy \in Copy,
           cards'[u] = WriteCard(u, copy)
    PROVE  PubsOf(u)' = IF copy.fresh = NoVersion THEN PubsOf(u)
                        ELSE Append(PubsOf(u), copy.fresh.pub)
<1> DEFINE old == cards[u].versions
           new == IF copy.fresh = NoVersion THEN old ELSE Append(old, copy.fresh)
<1>1. old \in Seq(Version) /\ (copy.fresh = NoVersion \/ copy.fresh \in Version)
  BY DEF ServiceInv, TypesOK, RowsOK, Card, Copy
<1>2. cards'[u].versions = new
  BY DEF WriteCard
<1>3. CASE copy.fresh = NoVersion
  BY <1>2, <1>3 DEF PubsOf
<1>4. CASE copy.fresh # NoVersion
  <2> DEFINE pubs == [i \in DOMAIN old |-> old[i].pub]
             longer == Append(old, copy.fresh)
  <2>1. copy.fresh \in Version /\ copy.fresh.pub \in Nat /\ \A i \in DOMAIN old : old[i].pub \in Nat
    <3>1. copy.fresh \in Version /\ \A i \in DOMAIN old : old[i] \in Version
      BY <1>1, <1>4
    <3> QED  BY <3>1 DEF Version
  <2>2. pubs \in Seq(Nat) /\ Len(pubs) = Len(old)
    <3>1. DOMAIN old = 1..Len(old) /\ Len(old) \in Nat
      BY <1>1
    <3> QED  BY <2>1, <3>1
  <2>3. [i \in DOMAIN longer |-> longer[i].pub] = Append(pubs, copy.fresh.pub)
    <3>1. /\ DOMAIN longer = 1..(Len(old) + 1) /\ longer[Len(old) + 1] = copy.fresh
          /\ \A i \in 1..Len(old) : longer[i] = old[i]
      BY <1>1, <2>1
    <3>2. /\ DOMAIN Append(pubs, copy.fresh.pub) = 1..(Len(old) + 1)
          /\ Append(pubs, copy.fresh.pub)[Len(old) + 1] = copy.fresh.pub
          /\ \A i \in 1..Len(old) : Append(pubs, copy.fresh.pub)[i] = pubs[i]
      <4> HIDE DEF pubs
      <4> QED  BY <2>1, <2>2
    <3>3. \A i \in 1..Len(old) : pubs[i] = old[i].pub
      BY <1>1
    <3>4. \A i \in 1..(Len(old) + 1) : longer[i].pub = Append(pubs, copy.fresh.pub)[i]
      <4>1. Len(old) \in Nat
        BY <1>1
      <4>2. ASSUME NEW i \in 1..(Len(old) + 1)
            PROVE  i = Len(old) + 1 \/ i \in 1..Len(old)
        BY <4>1
      <4> HIDE DEF longer, pubs
      <4> QED  BY <3>1, <3>2, <3>3, <4>2
    <3>5. Append(pubs, copy.fresh.pub) =
            [i \in 1..(Len(old) + 1) |-> Append(pubs, copy.fresh.pub)[i]]
      <4> HIDE DEF pubs
      <4> QED  BY <2>1, <2>2, <3>2
    <3> HIDE DEF longer, pubs
    <3> QED  BY <3>1, <3>4, <3>5
  <2>4. cards'[u].versions = longer
    BY <1>2, <1>4
  <2> HIDE DEF longer
  <2> QED  BY <1>4, <2>3, <2>4 DEF PubsOf
<1> QED  BY <1>3, <1>4

\* The transaction of an intake is Consume.
LEMMA CommitRefines ==
    ASSUME ChainInv, NEW c \in Consumers, Commit(c)
    PROVE  Abstract!Consume
<1> DEFINE next == intake[c].pub
           draft == intake[c].draft
<1>1. /\ DraftOfNext(intake[c]) /\ intake[c].pc = "impacts" /\ next \in DOMAIN feed
      /\ draft \in [DOMAIN draft -> Copy] /\ DOMAIN draft \subseteq Units
  BY DraftShape DEF ChainInv, ServiceInv, TypesOK, IntakesOK, IntakeLocals, Commit
<1>2. cursor + 1 = next /\ cursor' = next /\ feed' = feed /\ UnitsOf(next) \subseteq DOMAIN draft
  BY <1>1 DEF DraftOfNext, Commit, WriteConsumption
<1>3. /\ feed \in Seq([Units -> Kinds]) /\ cursor \in Nat /\ DOMAIN feed = 1..Len(feed)
      /\ Len(feed) \in Nat
  BY DEF ChainInv, ServiceInv, TypesOK, RowsOK
<1>4. Len(ChainBar) = Len(feed)
  BY <1>3 DEF ChainBar
<1>5. cursor < Len(feed) /\ cursor' = cursor + 1
  BY <1>1, <1>2, <1>3
<1>6. ChainBar' = ChainBar
  BY <1>2 DEF UnitsOf, ChainBar
<1>7. ASSUME NEW u \in Units
      PROVE  PubsOf(u)' = IF u \in UnitsOf(next) THEN Append(PubsOf(u), next) ELSE PubsOf(u)
  <2>1. CASE u \in DOMAIN draft
    <3>1. draft[u] \in Copy /\ cards'[u] = WriteCard(u, draft[u])
      BY <1>1, <2>1 DEF Commit
    <3>2. IF u \in UnitsOf(next) THEN draft[u].fresh # NoVersion /\ draft[u].fresh.pub = next
          ELSE draft[u].fresh = NoVersion
      BY <1>1, <2>1 DEF DraftOfNext
    <3> QED  BY <3>1, <3>2, PubsWritten DEF ChainInv
  <2>2. CASE u \notin DOMAIN draft
    BY <1>2, <2>2 DEF Commit, PubsOf
  <2> QED  BY <2>1, <2>2
<1>8. ChainBar[cursor + 1] = UnitsOf(next)
  BY <1>1, <1>2 DEF ChainBar
<1>9. AddedBar' =
        [u \in Units |-> IF u \in ChainBar[cursor + 1]
                         THEN Append(AddedBar[u], cursor + 1)
                         ELSE AddedBar[u]]
  BY <1>2, <1>7, <1>8 DEF AddedBar
<1> QED  BY <1>4, <1>5, <1>6, <1>9 DEF Abstract!Consume

LEMMA AppendedAt ==
    ASSUME NEW S, NEW s \in Seq(S), NEW e \in S
    PROVE  Append(s, e) = [i \in 1..(Len(s) + 1) |-> IF i = Len(s) + 1 THEN e ELSE s[i]]
<1> DEFINE t == Append(s, e)
<1>1. /\ Len(s) \in Nat /\ t \in Seq(S) /\ DOMAIN t = 1..(Len(s) + 1)
      /\ t[Len(s) + 1] = e /\ \A i \in 1..Len(s) : t[i] = s[i]
  OBVIOUS
<1>2. t = [i \in 1..(Len(s) + 1) |-> t[i]]
  <2> HIDE DEF t
  <2> QED  BY <1>1
<1>3. \A i \in 1..(Len(s) + 1) : i = Len(s) + 1 \/ i \in 1..Len(s)
  BY <1>1
<1>4. \A i \in 1..(Len(s) + 1) : t[i] = IF i = Len(s) + 1 THEN e ELSE s[i]
  BY <1>1, <1>3
<1> HIDE DEF t
<1>5. t = [i \in 1..(Len(s) + 1) |-> IF i = Len(s) + 1 THEN e ELSE s[i]]
  BY <1>2, <1>4
<1> QED  BY <1>5 DEF t

\* A publication is Extend.
LEMMA PublishRefines ==
    ASSUME ChainInv, Publish
    PROVE  Abstract!Extend
<1> DEFINE n == Len(feed)
           present == {u \in Units : feed'[n + 1][u] \in Present}
<1>1. /\ n \in Nat /\ DOMAIN feed = 1..n /\ DOMAIN feed' = 1..(n + 1)
      /\ \A q \in DOMAIN feed : feed'[q] = feed[q]
  BY FeedGrows DEF ChainInv
<1>2. present \in SUBSET Units /\ \A q \in 1..n : UnitsOf(q) \in SUBSET Units
  BY DEF UnitsOf
<1>3. ChainBar \in Seq(SUBSET Units) /\ Len(ChainBar) = n /\ DOMAIN ChainBar = 1..n
  BY <1>1, <1>2 DEF ChainBar
<1>4. /\ \A q \in 1..n : UnitsOf(q)' = UnitsOf(q)
      /\ \A q \in 1..(n + 1) : q = n + 1 => UnitsOf(q)' = present
  <2>1. ASSUME NEW q \in 1..n PROVE UnitsOf(q)' = UnitsOf(q)
    BY <1>1 DEF UnitsOf
  <2>2. ASSUME NEW q \in 1..(n + 1), q = n + 1 PROVE UnitsOf(q)' = present
    <3>1. q # 0
      BY <1>1, <2>2
    <3> QED  BY <2>2, <3>1 DEF UnitsOf
  <2> QED  BY <2>1, <2>2
<1>5. ChainBar' = Append(ChainBar, present)
  <2>1. ChainBar' = [q \in 1..(n + 1) |-> UnitsOf(q)']
    BY <1>1 DEF ChainBar
  <2>2. \A q \in 1..n : ChainBar[q] = UnitsOf(q)'
    BY <1>1, <1>4 DEF ChainBar
  <2> HIDE DEF present, n
  <2>3. Append(ChainBar, present) =
          [q \in 1..(n + 1) |-> IF q = n + 1 THEN present ELSE ChainBar[q]]
    BY <1>2, <1>3, AppendedAt
  <2>4. \A q \in 1..(n + 1) : UnitsOf(q)' = IF q = n + 1 THEN present ELSE ChainBar[q]
    BY <1>1, <1>4, <2>2
  <2> QED  BY <2>1, <2>3, <2>4
<1>6. UNCHANGED <<cursor, AddedBar>>
  BY DEF Publish, registryVars, PubsOf, AddedBar
<1> QED  BY <1>2, <1>5, <1>6 DEF Abstract!Extend

\* Every other step leaves the chain, the cursor and the versions alone.
LEMMA OthersStutter ==
    ASSUME ChainInv, UNCHANGED <<feed, cursor>>,
           \A u \in Units : cards'[u].versions = cards[u].versions
    PROVE  UNCHANGED <<ChainBar, cursor, AddedBar>>
BY DEF UnitsOf, PubsOf, ChainBar, AddedBar

LEMMA SaveCardStutters ==
    ASSUME ChainInv, NEW o \in Operators, SaveCard(o), NEW u \in Units
    PROVE  cards'[u].versions = cards[u].versions
BY DEF SaveCard, WriteCard, ChainInv, ServiceInv, TypesOK, RowsOK

LEMMA StepRefines ==
    ASSUME ChainInv, [Next]_vars
    PROVE  [Abstract!Extend \/ Abstract!Consume]_<<ChainBar, cursor, AddedBar>>
<1>1. CASE Publish
  BY <1>1, PublishRefines
<1>2. ASSUME NEW c \in Consumers, Commit(c)
      PROVE  Abstract!Consume
  BY <1>2, CommitRefines
<1>3. CASE UNCHANGED <<feed, cursor, cards>>
  BY <1>3, OthersStutter
<1>4. ASSUME NEW c \in Consumers, NEW p \in DOMAIN feed, Claim(c, p)
      PROVE  UNCHANGED <<feed, cursor, cards>>
  BY <1>4 DEF Claim, registryVars
<1>5. ASSUME NEW c \in Consumers, ConsumerStep(c)
      PROVE  UNCHANGED <<feed, cursor, cards>> \/ Commit(c)
  BY <1>5 DEF ConsumerStep, Follow, AddClaimedVersion, AssessImpact, LoadImpacted,
              registryVars
<1>6. ASSUME NEW c \in Consumers, Stop(c)
      PROVE  UNCHANGED <<feed, cursor, cards>>
  BY <1>6 DEF Stop, registryVars
<1>7. ASSUME NEW o \in Operators, SaveCard(o)
      PROVE  UNCHANGED <<ChainBar, cursor, AddedBar>>
  BY <1>7, SaveCardStutters, OthersStutter DEF SaveCard
<1>8. ASSUME NEW o \in Operators, OperatorStep(o)
      PROVE  UNCHANGED <<feed, cursor, cards>> \/ SaveCard(o)
  BY <1>8 DEF OperatorStep, Approve, Rollback, Reject, Disable, RollbackReload, CheckLimits,
              registryVars
<1> QED  BY <1>1, <1>2, <1>3, <1>4, <1>5, <1>6, <1>7, <1>8 DEF Next, vars

LEMMA InitRefines ==
    ASSUME Init
    PROVE  ChainInv /\ Abstract!Init
<1>1. ChainInv
  <2>1. IdleIntake.draft = <<>> /\ IdleIntake.pc = "idle"
    BY DEF IdleIntake
  <2>2. \A c \in Consumers : intake[c] = IdleIntake
    BY DEF Init
  <2> QED  BY <2>1, <2>2, InitService, EmptyChain DEF ChainInv
<1>2. ChainBar = <<>>
  BY EmptyDraft DEF Init, ChainBar
<1>3. AddedBar = [u \in Units |-> <<>>]
  BY DEF Init, NoCard, PubsOf, AddedBar
<1> QED  BY <1>1, <1>2, <1>3 DEF Init, Abstract!Init

\* One consumer, whatever operators do at the same time, wherever an intake is
\* cut short and in whatever order notifications arrive, takes publications in
\* one at a time, in chain order, each once and whole.
THEOREM ConsumedInOrder ==
    ASSUME OneConsumer
    PROVE  Spec => ConsumesInOrder
<1>1. Spec => []ChainInv
  BY InitRefines, NextChain, PTL DEF Spec
<1>2. Init => Abstract!Init
  BY InitRefines
<1>3. ChainInv /\ [Next]_vars =>
        [Abstract!Extend \/ Abstract!Consume]_<<ChainBar, cursor, AddedBar>>
  BY StepRefines
<1> QED  BY <1>1, <1>2, <1>3, PTL DEF Spec, ConsumesInOrder, Abstract!Spec
=============================================================================
