--------------------------- MODULE DaemonProofs ---------------------------
(***************************************************************************)
(* Proofs about what a daemon does beside answering: the prepared catalog  *)
(* (PreparedCatalog), its lanes, maintenance cycle and shutdown            *)
(* (DaemonRuntime), the delivery of publications to Registry               *)
(* (PublicationDelivery), and the scheduler of its inference session, for  *)
(* any sets of calls and scopes (EmbeddingScheduler).                      *)
(***************************************************************************)
EXTENDS PreparedCatalog, DaemonRuntime, PublicationDelivery, EmbeddingScheduler, FiniteSetTheorems, SequenceTheorems, TLAPS

-----------------------------------------------------------------------------
(* The prepared catalog                                                    *)

Passes == [pc : {"none", "listed", "building", "acquired", "ended", "returned"},
           content : Contents, read : Nat, fresh : Nat, ok : BOOLEAN]

InPass == pass.pc \in {"listed", "building", "acquired"}

\* The cache as it is used: one or two different generations.
CacheOK ==
    /\ cache \in Seq(Contents) /\ Len(cache) \in 1..2
    /\ Len(cache) = 2 => cache[1] # cache[2]
    /\ \A i \in 1..Len(cache) : cache[i] \in seen

CatalogTypes ==
    /\ upstream \in seen /\ activeCards \in seen /\ pass.content \in seen
    /\ seen \subseteq Contents /\ IsFiniteSet(seen) /\ Cardinality(seen) <= written + 1
    /\ written \in 0..MaxWrites /\ failures \in 0..MaxFailures
    /\ pass \in Passes /\ pass.read <= written /\ pass.fresh <= pass.read
    /\ requested \in BOOLEAN
    /\ waiting \in [Callers -> NotWaiting..written]

\* What a build is for: a content that is neither served nor kept.
Building == pass.pc = "building" => pass.content # activeCards /\ ~Contains(cache, pass.content)

\* A caller is covered by the pass that runs, or its request is on record; nobody
\* waits while no loop runs.
CallersCovered ==
    /\ pass.pc = "none" => waiting = [k \in Callers |-> NotWaiting]
    /\ InPass => \A k \in Callers : waiting[k] <= pass.read \/ requested
    /\ pass.pc \in {"ended", "returned"} /\ pass.ok =>
         \A k \in Callers : waiting[k] <= pass.fresh \/ requested
    /\ pass.pc \notin {"none", "returned"} => pass.ok

\* Every change so far brought a catalog that was not there before.
AllNew == Cardinality(seen) = written + 1

Newest == cache[Len(cache)]

\* While every catalog is new: the newest index is that of the cards served, or of
\* the cards about to be served beside them; and neither the index kept beside it
\* nor cards about to be replaced are those of the catalog as it is.
NewestServed ==
    /\ pass.pc # "acquired" => Newest = activeCards
    /\ pass.pc = "acquired" => /\ Newest = pass.content /\ Len(cache) = 2
                               /\ cache[1] = activeCards
    /\ pass.pc # "acquired" /\ Len(cache) = 2 =>
         cache[1] # upstream /\ (InPass => cache[1] # pass.content)
    /\ InPass /\ pass.content # activeCards => activeCards # upstream

PreparedInv ==
    CacheOK /\ CatalogTypes /\ Building /\ CallersCovered /\ (AllNew => NewestServed)

LEMMA PreparedStart ==
    PreparedInit => PreparedInv
<1> SUFFICES ASSUME PreparedInit PROVE PreparedInv
  OBVIOUS
<1>1. Cardinality(seen) = 1 /\ IsFiniteSet(seen)
  BY FS_Singleton DEF PreparedInit
<1>2. cache = <<upstream>> /\ upstream \in Contents
  BY DEF PreparedInit
<1>3. cache \in Seq(Contents) /\ Len(cache) = 1 /\ cache[1] = upstream
  BY <1>2
<1>4. pass.pc = "none" /\ pass \in Passes /\ pass.content = upstream /\ pass.read = 0 /\ pass.fresh = 0
  BY <1>2 DEF PreparedInit, Passes
<1>5. CatalogTypes
  <2>1. waiting \in [Callers -> NotWaiting..written]
    BY DEF PreparedInit, NotWaiting
  <2>2. /\ written = 0 /\ failures = 0 /\ written \in 0..MaxWrites /\ failures \in 0..MaxFailures
    BY PreparedAssumption DEF PreparedInit
  <2>3. /\ upstream \in seen /\ activeCards \in seen /\ pass.content \in seen
        /\ seen \subseteq Contents
    BY <1>2, <1>4 DEF PreparedInit
  <2>4. requested \in BOOLEAN
    BY Zenon DEF PreparedInit
  <2> QED  BY <1>1, <1>4, <2>1, <2>2, <2>3, <2>4 DEF CatalogTypes
<1>6. CacheOK
  BY <1>3 DEF PreparedInit, CacheOK
<1>7. Building /\ CallersCovered
  BY <1>4 DEF PreparedInit, Building, CallersCovered, InPass
<1>8. NewestServed
  BY <1>3, <1>4 DEF PreparedInit, NewestServed, Newest, InPass
<1> QED  BY <1>5, <1>6, <1>7, <1>8 DEF PreparedInv

LEMMA PairSequence ==
    ASSUME NEW S, NEW s \in Seq(S), Len(s) = 2
    PROVE  s = <<s[1], s[2]>>
<1> DEFINE t == <<s[1], s[2]>>
<1>1. s[1] \in S /\ s[2] \in S
  BY ElementOfSeq
<1>2. t \in Seq(S) /\ Len(t) = 2 /\ t[1] = s[1] /\ t[2] = s[2]
  BY <1>1
<1> HIDE DEF t
<1>3. s = t
  BY <1>2, SeqEqual
<1> QED  BY <1>3 DEF t

\* An index that was not kept goes to the end, and takes the place of the oldest.
LEMMA Inserted ==
    ASSUME PreparedInv, NEW c \in seen, ~Contains(cache, c)
    PROVE  /\ Insert(c) = <<cache[Len(cache)], c>>
           /\ Insert(c) \in Seq(Contents) /\ Len(Insert(c)) = 2
           /\ Insert(c)[1] = cache[Len(cache)] /\ Insert(c)[2] = c
           /\ cache[Len(cache)] # c /\ cache[Len(cache)] \in seen
<1>1. RemoveFirst(cache, c) = cache
  BY DEF RemoveFirst, Contains
<1>2. cache \in Seq(Contents) /\ c \in Contents /\ Len(cache) \in 1..2
  BY DEF PreparedInv, CacheOK, CatalogTypes
<1> DEFINE last == cache[Len(cache)]
<1>3. last \in Contents /\ last # c /\ last \in seen
  BY <1>2 DEF Contains, PreparedInv, CacheOK
<1>4. Insert(c) = <<last, c>>
  <2> DEFINE all == Append(cache, c)
  <2>1. /\ all \in Seq(Contents) /\ Len(all) = Len(cache) + 1
        /\ all[Len(cache)] = last /\ all[Len(cache) + 1] = c
    BY <1>2
  <2>2. Insert(c) = IF Len(all) > 2 THEN Tail(all) ELSE all
    BY <1>1 DEF Insert
  <2> HIDE DEF all, last
  <2>3. CASE Len(cache) = 1
    <3>1. Insert(c) = all /\ Len(all) = 2 /\ all[1] = last /\ all[2] = c
      BY <2>1, <2>2, <2>3
    <3>2. all = <<all[1], all[2]>>
      BY <2>1, <3>1, PairSequence
    <3> QED  BY <3>1, <3>2
  <2>4. CASE Len(cache) = 2
    <3> DEFINE rest == Tail(all)
    <3>1. Insert(c) = rest /\ Len(all) = 3 /\ all[2] = last /\ all[3] = c /\ all # <<>>
      BY <2>1, <2>2, <2>4
    <3>2. /\ rest \in Seq(Contents) /\ Len(rest) = Len(all) - 1
          /\ \A i \in 1..Len(rest) : rest[i] = all[i + 1]
      BY <2>1, <3>1, HeadTailProperties, Zenon
    <3> HIDE DEF rest
    <3>3. Len(rest) = 2 /\ rest[1] = last /\ rest[2] = c
      BY <3>1, <3>2
    <3>4. rest = <<rest[1], rest[2]>>
      BY <3>2, <3>3, PairSequence
    <3> QED  BY <3>1, <3>3, <3>4
  <2> QED  BY <1>2, <2>3, <2>4
<1> HIDE DEF last
<1>5. /\ <<last, c>> \in Seq(Contents) /\ Len(<<last, c>>) = 2
      /\ <<last, c>>[1] = last /\ <<last, c>>[2] = c
  BY <1>2, <1>3
<1> QED  BY <1>3, <1>4, <1>5 DEF last

LEMMA WriteStep ==
    ASSUME PreparedInv, Write
    PROVE  PreparedInv'
<1>1. PICK content \in Contents \ {upstream} : upstream' = content /\ seen' = seen \cup {content}
  BY DEF Write
<1>2. /\ written' = written + 1 /\ written < MaxWrites
      /\ UNCHANGED <<activeCards, cache, pass, requested, waiting, failures>>
  BY DEF Write
<1>3. written \in Nat /\ IsFiniteSet(seen) /\ Cardinality(seen) \in Nat
  BY FS_CardinalityType DEF PreparedInv, CatalogTypes
<1>4. /\ IsFiniteSet(seen')
      /\ Cardinality(seen') = IF content \in seen THEN Cardinality(seen) ELSE Cardinality(seen) + 1
  BY <1>1, <1>3, FS_AddElement
<1>5. Cardinality(seen') <= written' + 1 /\ (AllNew' => AllNew /\ content \notin seen)
  BY <1>2, <1>3, <1>4 DEF PreparedInv, CatalogTypes, AllNew
<1>6. CatalogTypes'
  <2>1. written' \in 0..MaxWrites /\ pass.read <= written'
    BY <1>2, <1>3, PreparedAssumption DEF PreparedInv, CatalogTypes, Passes
  <2>2. waiting' \in [Callers -> NotWaiting..written']
    BY <1>2, <1>3 DEF PreparedInv, CatalogTypes, NotWaiting
  <2> QED  BY <1>1, <1>2, <1>4, <1>5, <2>1, <2>2 DEF PreparedInv, CatalogTypes
<1>7. CacheOK'
  BY <1>1, <1>2 DEF PreparedInv, CacheOK
<1>8. Building' /\ CallersCovered'
  BY <1>2 DEF PreparedInv, Building, CallersCovered, InPass
<1>9. ASSUME AllNew' PROVE NewestServed'
  <2>1. NewestServed /\ content \notin seen
    BY <1>5, <1>9 DEF PreparedInv
  <2>2. activeCards # content /\ \A i \in 1..Len(cache) : cache[i] # content
    BY <2>1 DEF PreparedInv, CatalogTypes, CacheOK
  <2>3. Len(cache) = 2 => cache[1] # content
    BY <2>2
  <2> QED  BY <1>1, <1>2, <2>1, <2>2, <2>3 DEF NewestServed, Newest, InPass
<1> QED  BY <1>6, <1>7, <1>8, <1>9 DEF PreparedInv

\* A pass begins, for a caller or for those whose request is on record.
LEMMA BeginPassStep ==
    ASSUME PreparedInv, BeginPass, pass.pc \in {"none", "ended"},
           UNCHANGED <<upstream, seen, written, activeCards, cache, failures>>,
           waiting' \in [Callers -> NotWaiting..written]
    PROVE  PreparedInv'
<1>1. pass' = [pass EXCEPT !.pc = "listed", !.content = upstream, !.read = written, !.ok = TRUE]
  BY DEF BeginPass
<1>2. pass \in Passes /\ upstream \in seen /\ upstream \in Contents /\ written \in Nat
  BY DEF PreparedInv, CatalogTypes
<1>3. /\ pass' \in Passes /\ pass'.pc = "listed" /\ pass'.content = upstream
      /\ pass'.read = written /\ pass'.fresh = pass.fresh /\ pass'.ok
  BY <1>1, <1>2 DEF Passes
<1>4. requested' \in BOOLEAN
  BY Zenon DEF BeginPass
<1>5. CatalogTypes'
  <2>1. pass'.read <= written /\ pass'.fresh <= pass'.read
    BY <1>2, <1>3 DEF PreparedInv, CatalogTypes, Passes
  <2> QED  BY <1>2, <1>3, <1>4, <2>1 DEF PreparedInv, CatalogTypes
<1>6. CacheOK' /\ Building'
  BY <1>3 DEF PreparedInv, CacheOK, Building
<1>7. \A k \in Callers : waiting'[k] <= written
  <2>1. \A n \in NotWaiting..written : n <= written
    BY <1>2 DEF NotWaiting
  <2> QED  BY <2>1
<1>8. CallersCovered'
  BY <1>3, <1>7 DEF CallersCovered, InPass
<1>9. ASSUME AllNew' PROVE NewestServed'
  <2>1. NewestServed
    BY <1>9 DEF PreparedInv, AllNew
  <2> QED  BY <1>3, <2>1 DEF NewestServed, Newest, InPass
<1> QED  BY <1>5, <1>6, <1>8, <1>9 DEF PreparedInv

LEMMA RequestStep ==
    ASSUME PreparedInv, Request,
           UNCHANGED <<upstream, seen, written, activeCards, cache, failures>>,
           waiting' \in [Callers -> NotWaiting..written]
    PROVE  PreparedInv'
<1>1. CASE pass.pc = "none"
  BY <1>1, BeginPassStep DEF Request
<1>2. CASE pass.pc # "none"
  <2>1. requested' = TRUE /\ pass' = pass
    BY <1>2 DEF Request
  <2>2. requested' \in BOOLEAN /\ requested'
    BY <2>1, Zenon
  <2>3. CatalogTypes'
    BY <2>1, <2>2 DEF PreparedInv, CatalogTypes
  <2>4. CacheOK' /\ Building'
    BY <2>1 DEF PreparedInv, CacheOK, Building
  <2>5. CallersCovered'
    BY <1>2, <2>1, <2>2 DEF PreparedInv, CallersCovered, InPass
  <2>6. (AllNew => NewestServed)'
    BY <2>1 DEF PreparedInv, AllNew, NewestServed, Newest, InPass
  <2> QED  BY <2>3, <2>4, <2>5, <2>6 DEF PreparedInv
<1> QED  BY <1>1, <1>2

LEMMA RefreshStep ==
    ASSUME PreparedInv, NEW k \in Callers, Refresh(k)
    PROVE  PreparedInv'
<1>1. written \in NotWaiting..written
  BY DEF PreparedInv, CatalogTypes, NotWaiting
<1>2. waiting' \in [Callers -> NotWaiting..written]
  BY <1>1 DEF Refresh, PreparedInv, CatalogTypes
<1> QED  BY <1>2, RequestStep DEF Refresh

LEMMA PassiveRefreshStep ==
    ASSUME PreparedInv, PassiveRefresh
    PROVE  PreparedInv'
<1>1. waiting' \in [Callers -> NotWaiting..written]
  BY DEF PassiveRefresh, PreparedInv, CatalogTypes
<1> QED  BY <1>1, RequestStep DEF PassiveRefresh

LEMMA QueryCacheStep ==
    ASSUME PreparedInv, Query
    PROVE  PreparedInv'
<1>1. /\ ~Contains(cache, activeCards) /\ cache' = Insert(activeCards)
      /\ UNCHANGED <<upstream, seen, written, activeCards, pass, requested, waiting, failures>>
  BY DEF Query
<1>2. ~AllNew
  <2> SUFFICES ASSUME NewestServed PROVE FALSE
    BY DEF PreparedInv
  <2>1. Len(cache) \in 1..2
    BY DEF PreparedInv, CacheOK
  <2>2. activeCards = cache[Len(cache)] \/ (Len(cache) = 2 /\ activeCards = cache[1])
    BY DEF NewestServed, Newest
  <2> QED  BY <1>1, <2>1, <2>2 DEF Contains
<1>3. activeCards \in seen
  BY DEF PreparedInv, CatalogTypes
<1>4. /\ cache' \in Seq(Contents) /\ Len(cache') = 2 /\ cache'[1] = cache[Len(cache)]
      /\ cache'[2] = activeCards /\ cache[Len(cache)] # activeCards
      /\ cache[Len(cache)] \in seen
  BY <1>1, <1>3, Inserted
<1>5. \A i \in 1..Len(cache') : i = 1 \/ i = 2
  BY <1>4
<1>6. CacheOK'
  BY <1>1, <1>3, <1>4, <1>5 DEF CacheOK
<1>7. CatalogTypes' /\ CallersCovered' /\ ~AllNew'
  BY <1>1, <1>2 DEF PreparedInv, CatalogTypes, CallersCovered, InPass, AllNew
<1>8. Building'
  <2> SUFFICES ASSUME pass.pc = "building" PROVE pass.content # activeCards /\ ~Contains(cache', pass.content)
    BY <1>1 DEF Building
  <2>1. pass.content # activeCards /\ ~Contains(cache, pass.content)
    BY DEF PreparedInv, Building
  <2>2. pass.content # cache[Len(cache)]
    BY <2>1 DEF Contains, PreparedInv, CacheOK
  <2> QED  BY <1>4, <1>5, <2>1, <2>2 DEF Contains
<1> QED  BY <1>6, <1>7, <1>8 DEF PreparedInv

\* The loop moves within a pass and leaves everything but its own state alone.
LEMMA PassStep ==
    ASSUME PreparedInv, pass' \in Passes, pass'.content \in seen, pass'.read <= written,
           pass'.fresh <= pass'.read, CacheOK', Building', CallersCovered',
           AllNew => NewestServed', failures' \in 0..MaxFailures,
           activeCards' \in seen, UNCHANGED <<upstream, seen, written, requested, waiting>>
    PROVE  PreparedInv'
<1>1. CatalogTypes'
  BY DEF PreparedInv, CatalogTypes
<1>2. AllNew' = AllNew
  BY DEF AllNew
<1> QED  BY <1>1, <1>2 DEF PreparedInv

LEMMA CompareStep ==
    ASSUME PreparedInv, Compare
    PROVE  PreparedInv'
<1>1. /\ pass.pc = "listed" /\ pass \in Passes
      /\ UNCHANGED <<upstream, seen, written, activeCards, cache, requested, waiting, failures>>
  BY DEF Compare, PreparedInv, CatalogTypes
<1>2. CacheOK'
  BY <1>1 DEF PreparedInv, CacheOK
<1>3. /\ pass.read <= written /\ pass.fresh <= pass.read /\ pass.content \in seen
      /\ failures \in 0..MaxFailures /\ activeCards \in seen
  BY DEF PreparedInv, CatalogTypes
<1>4. pass.read <= pass.read
  BY <1>1 DEF Passes
<1>5. CASE pass.content = activeCards
  <2>1. pass' = [pass EXCEPT !.pc = "ended", !.fresh = pass.read]
    BY <1>5 DEF Compare
  <2>2. /\ pass' \in Passes /\ pass'.pc = "ended" /\ pass'.content = pass.content
        /\ pass'.read = pass.read /\ pass'.fresh = pass.read /\ (pass'.ok <=> pass.ok)
    BY <1>1, <2>1 DEF Passes
  <2>3. Building' /\ CallersCovered'
    BY <1>1, <2>2 DEF PreparedInv, Building, CallersCovered, InPass
  <2>4. AllNew => NewestServed'
    BY <1>1, <2>2 DEF PreparedInv, NewestServed, Newest, InPass
  <2> QED  BY <1>1, <1>2, <1>3, <1>4, <2>2, <2>3, <2>4, PassStep
<1>6. CASE pass.content # activeCards /\ Contains(cache, pass.content)
  <2>1. pass' = [pass EXCEPT !.pc = "acquired"]
    BY <1>6 DEF Compare
  <2>2. /\ pass' \in Passes /\ pass'.pc = "acquired" /\ pass'.content = pass.content
        /\ pass'.read = pass.read /\ pass'.fresh = pass.fresh /\ (pass'.ok <=> pass.ok)
    BY <1>1, <2>1 DEF Passes
  <2>3. Building' /\ CallersCovered'
    BY <1>1, <2>2 DEF PreparedInv, Building, CallersCovered, InPass
  <2>4. ~AllNew
    <3> SUFFICES ASSUME NewestServed PROVE FALSE
      BY DEF PreparedInv
    <3>1. Len(cache) \in 1..2 /\ cache[Len(cache)] = activeCards
      BY <1>1 DEF PreparedInv, CacheOK, NewestServed, Newest
    <3>2. Len(cache) = 2 => cache[1] # pass.content
      BY <1>1 DEF NewestServed, InPass
    <3> QED  BY <1>6, <3>1, <3>2 DEF Contains
  <2> QED  BY <1>1, <1>2, <1>3, <2>2, <2>3, <2>4, PassStep
<1>7. CASE pass.content # activeCards /\ ~Contains(cache, pass.content)
  <2>1. pass' = [pass EXCEPT !.pc = "building"]
    BY <1>7 DEF Compare
  <2>2. /\ pass' \in Passes /\ pass'.pc = "building" /\ pass'.content = pass.content
        /\ pass'.read = pass.read /\ pass'.fresh = pass.fresh /\ (pass'.ok <=> pass.ok)
    BY <1>1, <2>1 DEF Passes
  <2>3. Building' /\ CallersCovered'
    BY <1>1, <1>7, <2>2 DEF PreparedInv, Building, CallersCovered, InPass
  <2>4. AllNew => NewestServed'
    BY <1>1, <2>2 DEF PreparedInv, NewestServed, Newest, InPass
  <2> QED  BY <1>1, <1>2, <1>3, <2>2, <2>3, <2>4, PassStep
<1> QED  BY <1>5, <1>6, <1>7

LEMMA BuildStep ==
    ASSUME PreparedInv, Build
    PROVE  PreparedInv'
<1>1. /\ pass.pc = "building" /\ pass \in Passes /\ cache' = Insert(pass.content)
      /\ pass' = [pass EXCEPT !.pc = "acquired"]
      /\ UNCHANGED <<upstream, seen, written, activeCards, requested, waiting, failures>>
  BY DEF Build, PreparedInv, CatalogTypes
<1>2. /\ pass.content # activeCards /\ ~Contains(cache, pass.content) /\ pass.content \in seen
  BY <1>1 DEF PreparedInv, Building, CatalogTypes
<1>3. /\ cache' \in Seq(Contents) /\ Len(cache') = 2 /\ cache'[1] = cache[Len(cache)]
      /\ cache'[2] = pass.content /\ cache[Len(cache)] # pass.content
      /\ cache[Len(cache)] \in seen
  BY <1>1, <1>2, Inserted
<1>4. CacheOK'
  <2>1. \A i \in 1..Len(cache') : i = 1 \/ i = 2
    BY <1>3
  <2> QED  BY <1>1, <1>2, <1>3, <2>1 DEF CacheOK
<1>5. /\ pass' \in Passes /\ pass'.pc = "acquired" /\ pass'.content = pass.content
      /\ pass'.read = pass.read /\ pass'.fresh = pass.fresh /\ (pass'.ok <=> pass.ok)
  BY <1>1 DEF Passes
<1>6. Building' /\ CallersCovered'
  BY <1>1, <1>5 DEF PreparedInv, Building, CallersCovered, InPass
<1>7. ASSUME AllNew PROVE NewestServed'
  <2>1. cache[Len(cache)] = activeCards /\ activeCards # upstream
    BY <1>1, <1>2, <1>7 DEF PreparedInv, NewestServed, Newest, InPass
  <2>2. Newest' = pass.content
    BY <1>3 DEF Newest
  <2> QED  BY <1>1, <1>3, <1>5, <2>1, <2>2 DEF NewestServed, InPass
<1>8. /\ pass.read <= written /\ pass.fresh <= pass.read
      /\ failures \in 0..MaxFailures /\ activeCards \in seen
  BY DEF PreparedInv, CatalogTypes
<1> QED  BY <1>1, <1>2, <1>4, <1>5, <1>6, <1>7, <1>8, PassStep

LEMMA ActivateStep ==
    ASSUME PreparedInv, Activate
    PROVE  PreparedInv'
<1>1. /\ pass.pc = "acquired" /\ pass \in Passes /\ activeCards' = pass.content
      /\ pass' = [pass EXCEPT !.pc = "ended", !.fresh = pass.read]
      /\ UNCHANGED <<upstream, seen, written, cache, requested, waiting, failures>>
  BY DEF Activate, PreparedInv, CatalogTypes
<1>2. CacheOK'
  BY <1>1 DEF PreparedInv, CacheOK
<1>3. /\ pass' \in Passes /\ pass'.pc = "ended" /\ pass'.content = pass.content
      /\ pass'.read = pass.read /\ pass'.fresh = pass.read /\ (pass'.ok <=> pass.ok)
  BY <1>1 DEF Passes
<1>4. Building' /\ CallersCovered'
  BY <1>1, <1>3 DEF PreparedInv, Building, CallersCovered, InPass
<1>5. ASSUME AllNew PROVE NewestServed'
  <2>1. /\ Newest = pass.content /\ Len(cache) = 2 /\ cache[1] = activeCards
        /\ (pass.content # activeCards => activeCards # upstream)
    BY <1>1, <1>5 DEF PreparedInv, NewestServed, InPass
  <2>2. cache[2] = pass.content /\ cache[1] # cache[2]
    BY <2>1 DEF Newest, PreparedInv, CacheOK
  <2>3. cache[1] # upstream
    BY <2>1, <2>2
  <2> QED  BY <1>1, <1>3, <2>1, <2>3 DEF NewestServed, Newest, InPass
<1>6. /\ pass.read <= written /\ pass.read <= pass.read /\ pass.content \in seen
      /\ failures \in 0..MaxFailures
  BY <1>1 DEF PreparedInv, CatalogTypes, Passes
<1> QED  BY <1>1, <1>2, <1>3, <1>4, <1>5, <1>6, PassStep

LEMMA FailStep ==
    ASSUME PreparedInv, Fail
    PROVE  PreparedInv'
<1>1. /\ pass.pc \in {"listed", "building"} /\ pass \in Passes
      /\ pass' = [pass EXCEPT !.ok = FALSE, !.pc = "returned"]
      /\ UNCHANGED <<upstream, seen, written, activeCards, cache, requested, waiting>>
  BY DEF Fail, EndLoop, PreparedInv, CatalogTypes, Passes
<1>2. failures' \in 0..MaxFailures
  BY PreparedAssumption DEF Fail, PreparedInv, CatalogTypes
<1>3. CacheOK'
  BY <1>1 DEF PreparedInv, CacheOK
<1>4. /\ pass' \in Passes /\ pass'.pc = "returned" /\ pass'.content = pass.content
      /\ pass'.read = pass.read /\ pass'.fresh = pass.fresh /\ ~pass'.ok
  BY <1>1 DEF Passes
<1>5. Building' /\ CallersCovered'
  BY <1>4 DEF Building, CallersCovered, InPass
<1>6. AllNew => NewestServed'
  BY <1>1, <1>4 DEF PreparedInv, NewestServed, Newest, InPass
<1>7. /\ pass.read <= written /\ pass.fresh <= pass.read /\ pass.content \in seen
      /\ activeCards \in seen
  BY DEF PreparedInv, CatalogTypes
<1> QED  BY <1>1, <1>2, <1>3, <1>4, <1>5, <1>6, <1>7, PassStep

LEMMA LoopsStep ==
    ASSUME PreparedInv, Loop
    PROVE  PreparedInv'
<1>1. /\ pass.pc = "ended" /\ pass \in Passes
      /\ UNCHANGED <<upstream, seen, written, activeCards, cache, waiting, failures>>
  BY DEF Loop, PreparedInv, CatalogTypes
<1>2. CASE BeginPass
  <2>1. waiting' \in [Callers -> NotWaiting..written]
    BY <1>1 DEF PreparedInv, CatalogTypes
  <2> QED  BY <1>1, <1>2, <2>1, BeginPassStep
<1>3. CASE EndLoop(pass) /\ UNCHANGED requested
  <2>1. /\ pass' \in Passes /\ pass'.pc = "returned" /\ pass'.content = pass.content
        /\ pass'.read = pass.read /\ pass'.fresh = pass.fresh /\ (pass'.ok <=> pass.ok)
    BY <1>1, <1>3 DEF EndLoop, Passes
  <2>2. CacheOK'
    BY <1>1 DEF PreparedInv, CacheOK
  <2>3. Building' /\ CallersCovered'
    BY <1>1, <1>3, <2>1 DEF PreparedInv, Building, CallersCovered, InPass
  <2>4. AllNew => NewestServed'
    BY <1>1, <2>1 DEF PreparedInv, NewestServed, Newest, InPass
  <2>5. /\ pass.read <= written /\ pass.fresh <= pass.read /\ pass.content \in seen
        /\ activeCards \in seen /\ failures \in 0..MaxFailures
    BY DEF PreparedInv, CatalogTypes
  <2> QED  BY <1>1, <1>3, <2>1, <2>2, <2>3, <2>4, <2>5, PassStep
<1> QED  BY <1>2, <1>3 DEF Loop

LEMMA SettleStep ==
    ASSUME PreparedInv, Settle
    PROVE  PreparedInv'
<1>1. /\ pass.pc = "returned" /\ pass \in Passes /\ pass' = [pass EXCEPT !.pc = "none"]
      /\ waiting' = [k \in Callers |-> NotWaiting]
      /\ UNCHANGED <<upstream, seen, written, activeCards, cache, requested, failures>>
  BY DEF Settle, PreparedInv, CatalogTypes
<1>2. /\ pass' \in Passes /\ pass'.pc = "none" /\ pass'.content = pass.content
      /\ pass'.read = pass.read /\ pass'.fresh = pass.fresh
  BY <1>1 DEF Passes
<1>3. waiting' \in [Callers -> NotWaiting..written]
  <2>1. NotWaiting \in NotWaiting..written
    BY DEF NotWaiting, PreparedInv, CatalogTypes
  <2> QED  BY <1>1, <2>1
<1>4. CatalogTypes'
  BY <1>1, <1>2, <1>3 DEF PreparedInv, CatalogTypes
<1>5. CacheOK' /\ Building' /\ CallersCovered'
  BY <1>1, <1>2 DEF PreparedInv, CacheOK, Building, CallersCovered, InPass
<1>6. (AllNew => NewestServed)'
  BY <1>1, <1>2 DEF PreparedInv, AllNew, NewestServed, Newest, InPass
<1> QED  BY <1>4, <1>5, <1>6 DEF PreparedInv

\* The catalog, its cache and its refresh loop at every step.
THEOREM PreparedInvariant ==
    PreparedSpec => []PreparedInv
<1>1. PreparedInv /\ UNCHANGED preparedVars => PreparedInv'
  BY DEF preparedVars, PreparedInv, CacheOK, CatalogTypes, Building, CallersCovered, AllNew,
         NewestServed, Newest, InPass
<1>2. PreparedInv /\ [PreparedNext]_preparedVars => PreparedInv'
  BY <1>1, WriteStep, RefreshStep, PassiveRefreshStep, QueryCacheStep, CompareStep, BuildStep,
     ActivateStep, FailStep, LoopsStep, SettleStep DEF PreparedNext, LoopStep
<1> QED  BY PreparedStart, <1>2, PTL DEF PreparedSpec

\* Every variable keeps its shape, and the cache never holds more than two
\* generations nor one twice.
THEOREM PreparedTypes ==
    PreparedSpec => []PreparedTypeOK
<1>1. PreparedInv => PreparedTypeOK
  <2> SUFFICES ASSUME PreparedInv PROVE PreparedTypeOK
    OBVIOUS
  <2>1. /\ upstream \in Contents /\ activeCards \in Contents /\ seen \subseteq Contents
        /\ upstream \in seen /\ pass.content \in Contents
    BY DEF PreparedInv, CatalogTypes
  <2>2. /\ pass \in Passes /\ pass.read \in 0..written /\ pass.fresh \in 0..pass.read
        /\ written \in 0..MaxWrites /\ failures \in 0..MaxFailures
    BY DEF PreparedInv, CatalogTypes, Passes
  <2>3. cache \in Seq(Contents) /\ Len(cache) \in 1..2 /\ IsInjective(cache)
    <3>1. cache \in Seq(Contents) /\ Len(cache) \in 1..2 /\ DOMAIN cache = 1..Len(cache)
      BY DEF PreparedInv, CacheOK
    <3>2. ASSUME NEW i \in DOMAIN cache, NEW j \in DOMAIN cache, cache[i] = cache[j]
          PROVE  i = j
      <4>1. i = j \/ (Len(cache) = 2 /\ ((i = 1 /\ j = 2) \/ (i = 2 /\ j = 1)))
        BY <3>1
      <4> QED  BY <3>2, <4>1 DEF PreparedInv, CacheOK
    <3> QED  BY <3>1, <3>2 DEF IsInjective
  <2> QED  BY <2>1, <2>2, <2>3 DEF PreparedInv, CatalogTypes, Passes, PreparedTypeOK
<1> QED  BY <1>1, PreparedInvariant, PTL

\* RetainingCardCandidateIndexStore with two generations: as long as no earlier
\* catalog comes back, a query finds the index of the cards it is served at every
\* moment of every refresh, for any number of changes and failed builds.
THEOREM ActiveIndexIsKept ==
    PreparedSpec => []ActiveIndexKept
<1>1. PreparedInv => ActiveIndexKept
  <2> SUFFICES ASSUME PreparedInv, NewestServed PROVE Contains(cache, activeCards)
    BY DEF PreparedInv, AllNew, ActiveIndexKept
  <2>1. Len(cache) \in 1..2
    BY DEF PreparedInv, CacheOK
  <2>2. activeCards = cache[Len(cache)] \/ (Len(cache) = 2 /\ activeCards = cache[1])
    BY DEF NewestServed, Newest
  <2> QED  BY <2>1, <2>2 DEF Contains
<1> QED  BY <1>1, PreparedInvariant, PTL

\* refresh(): a caller that resumes without an error and that no pass has covered
\* has its request on record for the next refresh.
THEOREM UncoveredStaysOnRecord ==
    PreparedSpec => UncoveredIsOnRecord
<1> DEFINE Covered == \A k \in Callers :
                         Resolves(k) /\ waiting[k] > pass'.fresh => requested'
<1>1. PreparedInv /\ [PreparedNext]_preparedVars => [Covered]_preparedVars
  <2> SUFFICES ASSUME PreparedInv, PreparedNext, NEW k \in Callers,
                      waiting[k] # NotWaiting, waiting'[k] = NotWaiting, pass'.ok,
                      waiting[k] > pass'.fresh
               PROVE  requested'
    BY DEF Resolves
  <2>1. Settle
    <3>1. CASE \E j \in Callers : Refresh(j)
      <4>1. PICK j \in Callers : waiting' = [waiting EXCEPT ![j] = written]
        BY <3>1 DEF Refresh
      <4>2. waiting \in [Callers -> NotWaiting..written] /\ written \in Nat
        BY DEF PreparedInv, CatalogTypes
      <4>3. waiting'[k] \in {waiting[k], written}
        BY <4>1, <4>2
      <4> QED  BY <4>2, <4>3 DEF NotWaiting
    <3>2. CASE ~\E j \in Callers : Refresh(j)
      BY <3>2 DEF PreparedNext, LoopStep, Write, PassiveRefresh, Query, Compare, Build,
                  Activate, Fail, Loop
    <3> QED  BY <3>1, <3>2
  <2>2. pass.pc = "returned" /\ requested' = requested /\ pass' = [pass EXCEPT !.pc = "none"]
    BY <2>1 DEF Settle
  <2>3. pass'.fresh = pass.fresh /\ (pass'.ok <=> pass.ok)
    BY <2>2 DEF PreparedInv, CatalogTypes, Passes
  <2>4. waiting[k] <= pass.fresh \/ requested
    BY <2>2, <2>3 DEF PreparedInv, CallersCovered
  <2>5. waiting[k] \in Int /\ pass.fresh \in Int
    BY DEF PreparedInv, CatalogTypes, Passes, NotWaiting
  <2> QED  BY <2>2, <2>3, <2>4, <2>5
<1> QED  BY <1>1, PreparedInvariant, PTL DEF PreparedSpec, UncoveredIsOnRecord

-----------------------------------------------------------------------------
(* Lanes                                                                   *)

TaskRecords == [pc : {"new", "queued", "running", "over"}, depth : Nat, out : BOOLEAN]

\* The first d lanes of t's path include l.
Enters(t, d, l) == \E i \in 1..d : Path(t)[i] = l

\* A task stands in its path as its state says.
TasksOK ==
    /\ task \in [Tasks -> TaskRecords]
    /\ \A t \in Tasks : /\ task[t].depth <= Len(Path(t))
                        /\ task[t].pc \in {"new", "over"} => task[t].depth = 0
                        /\ task[t].pc = "running" => task[t].depth > 0
                        /\ task[t].pc = "queued" => task[t].depth < Len(Path(t))

\* A task occupies the lanes it has entered, one slot in each, within their number.
SlotsOK ==
    /\ active \in [Lanes -> SUBSET Tasks]
    /\ \A l \in Lanes :
         /\ \A t \in Tasks : t \in active[l] <=> Enters(t, task[t].depth, l)
         /\ IsFiniteSet(active[l]) /\ Cardinality(active[l]) <= Slots[l]

\* It waits for the next one, once and within the queue's depth.
QueuesOK ==
    /\ queue \in [Lanes -> Seq(Tasks)]
    /\ \A l \in Lanes :
         /\ \A t \in Tasks : Contains(queue[l], t) <=> task[t].pc = "queued" /\ NextLane(t) = l
         /\ Distinct(queue[l]) /\ Len(queue[l]) <= QueueDepth[l]

LanesInv == TasksOK /\ SlotsOK /\ QueuesOK /\ open \subseteq Lanes

LEMMA PathShape ==
    ASSUME NEW t \in Tasks
    PROVE  /\ Len(Path(t)) \in Nat \ {0}
           /\ \A i \in 1..Len(Path(t)) : Path(t)[i] \in Lanes
           /\ \A i, j \in 1..Len(Path(t)) : Path(t)[i] = Path(t)[j] => i = j
           /\ t \in Requests => Len(Path(t)) = 1 /\ Path(t)[1] = "resolve"
<1>1. CASE t = Cycle
  <2> DEFINE p == <<"ingestion", "registry_consume", "selection_assets">>
  <2>1. Path(t) = p /\ t \notin Requests
    BY <1>1, RuntimeAssumption DEF Path
  <2>2. Len(p) = 3 /\ p[1] = "ingestion" /\ p[2] = "registry_consume" /\ p[3] = "selection_assets"
    OBVIOUS
  <2> HIDE DEF p
  <2>3. \A i \in 1..3 : i = 1 \/ i = 2 \/ i = 3
    OBVIOUS
  <2> QED  BY <2>1, <2>2, <2>3 DEF Lanes
<1>2. CASE t # Cycle /\ t \in Requests
  <2> DEFINE p == <<"resolve">>
  <2>1. Path(t) = p
    BY <1>2 DEF Path
  <2>2. Len(p) = 1 /\ p[1] = "resolve"
    OBVIOUS
  <2> HIDE DEF p
  <2> QED  BY <2>1, <2>2 DEF Lanes
<1>3. CASE t # Cycle /\ t \notin Requests
  <2> DEFINE p == <<"selection_assets">>
  <2>1. Path(t) = p
    BY <1>3 DEF Path
  <2>2. Len(p) = 1 /\ p[1] = "selection_assets"
    OBVIOUS
  <2> HIDE DEF p
  <2> QED  BY <1>3, <2>1, <2>2 DEF Lanes
<1> QED  BY <1>1, <1>2, <1>3

\* #removeQueued takes one entry out of the queue and leaves the others as they are.
LEMMA RemovedFrom ==
    ASSUME NEW S, NEW s \in Seq(S), NEW e \in S, Contains(s, e), Distinct(s)
    PROVE  LET r == RemoveFirst(s, e)
           IN  /\ r \in Seq(S) /\ Len(r) < Len(s) /\ Distinct(r)
               /\ \A x \in S : Contains(r, x) <=> Contains(s, x) /\ x # e
<1> DEFINE I == {i \in 1..Len(s) : s[i] = e}
           r == RemoveFirst(s, e)
<1>1. PICK n \in 1..Len(s) : s[n] = e
  BY DEF Contains
<1>2. I = {n}
  BY <1>1 DEF Distinct
<1>3. SelectInSeq(s, LAMBDA v : v = e) = Min(I)
  BY <1>1, <1>2 DEF SelectInSeq
<1>4. Min(I) = n
  BY <1>2 DEF Min
<1>5. r = RemoveAt(s, n)
  BY <1>1, <1>3, <1>4 DEF RemoveFirst
<1> DEFINE front == SubSeq(s, 1, n - 1)
           back == SubSeq(s, n + 1, Len(s))
           At1(i) == IF i < n THEN i ELSE i + 1
<1>6. Len(s) \in Nat /\ n \in Nat /\ n >= 1 /\ n <= Len(s)
  BY <1>1
<1>7. /\ front \in Seq(S) /\ Len(front) = n - 1 /\ \A i \in 1..(n - 1) : front[i] = s[i]
      /\ back \in Seq(S) /\ Len(back) = Len(s) - n /\ \A i \in 1..(Len(s) - n) : back[i] = s[n + i]
  BY <1>6
<1>8. r = front \o back
  BY <1>5 DEF RemoveAt
<1> HIDE DEF r, front, back
<1>9. r \in Seq(S) /\ Len(r) = Len(s) - 1
  BY <1>6, <1>7, <1>8
<1>10. ASSUME NEW i \in 1..Len(r) PROVE r[i] = s[At1(i)] /\ At1(i) \in 1..Len(s) /\ At1(i) # n
  <2>1. CASE i < n
    BY <1>6, <1>7, <1>8, <1>9, <2>1
  <2>2. CASE i >= n
    <3>1. r[i] = back[i - (n - 1)]
      BY <1>6, <1>7, <1>8, <1>9, <2>2
    <3>2. i - (n - 1) \in 1..(Len(s) - n) /\ n + (i - (n - 1)) = i + 1
      BY <1>6, <1>9, <2>2
    <3> QED  BY <1>6, <1>7, <1>9, <2>2, <3>1, <3>2
  <2> QED  BY <1>6, <1>9, <2>1, <2>2
<1>11. Distinct(r)
  <2> SUFFICES ASSUME NEW i \in 1..Len(r), NEW j \in 1..Len(r), r[i] = r[j] PROVE i = j
    BY DEF Distinct
  <2>1. At1(i) = At1(j)
    <3> HIDE DEF At1
    <3> QED  BY <1>10 DEF Distinct
  <2> QED  BY <1>6, <1>9, <2>1
<1>12. ASSUME NEW x \in S PROVE Contains(r, x) <=> Contains(s, x) /\ x # e
  <2>1. ASSUME Contains(r, x) PROVE Contains(s, x) /\ x # e
    <3>1. PICK i \in 1..Len(r) : r[i] = x
      BY <2>1 DEF Contains
    <3> HIDE DEF At1
    <3>2. s[At1(i)] = x /\ At1(i) \in 1..Len(s) /\ At1(i) # n
      BY <1>10, <3>1
    <3> QED  BY <1>1, <3>2 DEF Contains, Distinct
  <2>2. ASSUME Contains(s, x), x # e PROVE Contains(r, x)
    <3>1. PICK j \in 1..Len(s) : s[j] = x
      BY <2>2 DEF Contains
    <3>2. j # n
      BY <1>1, <2>2, <3>1
    <3> DEFINE i == IF j < n THEN j ELSE j - 1
    <3>3. i \in 1..Len(r) /\ At1(i) = j
      BY <1>6, <1>9, <3>2
    <3> HIDE DEF i, At1
    <3>4. r[i] = x
      BY <1>10, <3>1, <3>3
    <3> QED  BY <3>3, <3>4 DEF Contains
  <2> QED  BY <2>1, <2>2
<1>13. Len(r) < Len(s)
  BY <1>6, <1>9
<1> QED  BY <1>9, <1>11, <1>12, <1>13 DEF r

\* One lane further on, a task occupies that lane too, and it did not before.
LEMMA OneLaneOn ==
    ASSUME NEW t \in Tasks, NEW d \in Nat, d < Len(Path(t)), NEW l \in Lanes
    PROVE  /\ Enters(t, d + 1, l) <=> Enters(t, d, l) \/ l = Path(t)[d + 1]
           /\ ~Enters(t, d, Path(t)[d + 1])
<1> DEFINE n == Len(Path(t))
<1>1. n \in Nat /\ \A i, j \in 1..n : Path(t)[i] = Path(t)[j] => i = j
  BY PathShape
<1>2. 1..(d + 1) = 1..d \cup {d + 1} /\ 1..(d + 1) \subseteq 1..n /\ d + 1 \notin 1..d
  BY <1>1
<1> HIDE DEF n
<1> QED  BY <1>1, <1>2 DEF Enters

\* What the steps of a task's record have in common.
LEMMA TaskMoves ==
    ASSUME TasksOK, NEW t \in Tasks, NEW r \in TaskRecords,
           r.depth <= Len(Path(t)), r.pc \in {"new", "over"} => r.depth = 0,
           r.pc = "running" => r.depth > 0, r.pc = "queued" => r.depth < Len(Path(t)),
           task' = [task EXCEPT ![t] = r]
    PROVE  TasksOK' /\ \A s \in Tasks : task'[s] = IF s = t THEN r ELSE task[s]
<1>1. \A s \in Tasks : task'[s] = IF s = t THEN r ELSE task[s]
  BY DEF TasksOK
<1>2. task' \in [Tasks -> TaskRecords]
  BY DEF TasksOK
<1>3. ASSUME NEW s \in Tasks
      PROVE  /\ task'[s].depth <= Len(Path(s))
             /\ task'[s].pc \in {"new", "over"} => task'[s].depth = 0
             /\ task'[s].pc = "running" => task'[s].depth > 0
             /\ task'[s].pc = "queued" => task'[s].depth < Len(Path(s))
  <2>1. CASE s = t
    BY <1>1, <2>1
  <2>2. CASE s # t
    BY <1>1, <2>2 DEF TasksOK
  <2> QED  BY <2>1, <2>2
<1> QED  BY <1>1, <1>2, <1>3 DEF TasksOK

LEMMA SlotsStay ==
    ASSUME SlotsOK, active' = active, \A s \in Tasks : task'[s].depth = task[s].depth
    PROVE  SlotsOK'
BY DEF SlotsOK, Enters

LEMMA QueuesStay ==
    ASSUME QueuesOK, queue' = queue,
           \A s \in Tasks : /\ task'[s].pc = "queued" <=> task[s].pc = "queued"
                            /\ task[s].pc = "queued" => task'[s].depth = task[s].depth
    PROVE  QueuesOK'
<1>1. \A s \in Tasks : task[s].pc = "queued" => NextLane(s)' = NextLane(s)
  BY DEF NextLane
<1> QED  BY <1>1 DEF QueuesOK

\* The records a submission can leave behind.
LEMMA Records ==
    ASSUME TasksOK, NEW t \in Tasks
    PROVE  /\ Holding(t) \in TaskRecords /\ Holding(t).pc = "running"
           /\ Holding(t).depth = task[t].depth + 1
           /\ TurnedDown(t) \in TaskRecords /\ TurnedDown(t).depth = task[t].depth
           /\ TurnedDown(t).pc = IF task[t].depth = 0 THEN "over" ELSE "running"
           /\ LET q == [task[t] EXCEPT !.pc = "queued"]
              IN  q \in TaskRecords /\ q.pc = "queued" /\ q.depth = task[t].depth
           /\ task[t] \in TaskRecords
           /\ Over \in TaskRecords /\ Over.depth = 0 /\ Over.pc = "over"
<1>1. task[t] \in TaskRecords
  BY DEF TasksOK
<1>2. Holding(t) \in TaskRecords /\ Holding(t).pc = "running" /\ Holding(t).depth = task[t].depth + 1
  <2> DEFINE n == task[t].depth + 1
             h == [task[t] EXCEPT !.pc = "running", !.depth = n]
  <2>1. n \in Nat
    BY <1>1 DEF TaskRecords
  <2>2. Holding(t) = h
    BY <1>1 DEF Holding, TaskRecords
  <2> HIDE DEF n
  <2>3. h \in TaskRecords /\ h.pc = "running" /\ h.depth = n
    BY <1>1, <2>1 DEF TaskRecords
  <2> QED  BY <2>2, <2>3 DEF n
<1>3. Over \in TaskRecords /\ Over.depth = 0 /\ Over.pc = "over"
  BY DEF Over, TaskRecords
<1>4. LET q == [task[t] EXCEPT !.pc = "queued"]
      IN  q \in TaskRecords /\ q.pc = "queued" /\ q.depth = task[t].depth
  BY <1>1 DEF TaskRecords
<1>5. LET q == [task[t] EXCEPT !.pc = "running", !.out = TRUE]
      IN  q \in TaskRecords /\ q.pc = "running" /\ q.depth = task[t].depth
  BY <1>1 DEF TaskRecords
<1>6. /\ TurnedDown(t) \in TaskRecords /\ TurnedDown(t).depth = task[t].depth
      /\ TurnedDown(t).pc = IF task[t].depth = 0 THEN "over" ELSE "running"
  BY <1>3, <1>5 DEF TurnedDown
<1> QED  BY <1>1, <1>2, <1>3, <1>4, <1>6

LEMMA SlotsMove ==
    ASSUME SlotsOK, NEW l \in Lanes, NEW A \in SUBSET Tasks, active' = [active EXCEPT ![l] = A],
           IsFiniteSet(A), Cardinality(A) <= Slots[l],
           \A s \in Tasks : s \in A <=> Enters(s, task'[s].depth, l),
           \A k \in Lanes \ {l} : \A s \in Tasks :
               Enters(s, task'[s].depth, k) <=> Enters(s, task[s].depth, k)
    PROVE  SlotsOK'
<1>1. active' \in [Lanes -> SUBSET Tasks]
  BY DEF SlotsOK
<1>2. ASSUME NEW k \in Lanes
      PROVE  /\ \A s \in Tasks : s \in active'[k] <=> Enters(s, task'[s].depth, k)
             /\ IsFiniteSet(active'[k]) /\ Cardinality(active'[k]) <= Slots[k]
  <2>1. CASE k = l
    <3>1. active'[k] = A
      BY <2>1 DEF SlotsOK
    <3> QED  BY <2>1, <3>1
  <2>2. CASE k # l
    <3>1. active'[k] = active[k]
      BY <2>2 DEF SlotsOK
    <3> QED  BY <2>2, <3>1 DEF SlotsOK
  <2> QED  BY <2>1, <2>2
<1>3. \A k \in Lanes : \A s \in Tasks : Enters(s, task'[s].depth, k) <=> Enters(s, task[s].depth, k)'
  BY DEF Enters
<1> QED  BY <1>1, <1>2, <1>3 DEF SlotsOK

LEMMA QueuesMove ==
    ASSUME QueuesOK, NEW l \in Lanes, NEW Q \in Seq(Tasks), queue' = [queue EXCEPT ![l] = Q],
           Distinct(Q), Len(Q) <= QueueDepth[l],
           \A s \in Tasks : Contains(Q, s) <=> task'[s].pc = "queued" /\ NextLane(s)' = l,
           \A k \in Lanes \ {l} : \A s \in Tasks :
               (task'[s].pc = "queued" /\ NextLane(s)' = k)
                   <=> (task[s].pc = "queued" /\ NextLane(s) = k)
    PROVE  QueuesOK'
<1>1. queue' \in [Lanes -> Seq(Tasks)]
  BY DEF QueuesOK
<1>2. ASSUME NEW k \in Lanes
      PROVE  /\ \A s \in Tasks : Contains(queue'[k], s) <=> task'[s].pc = "queued" /\ NextLane(s)' = k
             /\ Distinct(queue'[k]) /\ Len(queue'[k]) <= QueueDepth[k]
  <2>1. CASE k = l
    <3>1. queue'[k] = Q
      BY <2>1 DEF QueuesOK
    <3> QED  BY <2>1, <3>1
  <2>2. CASE k # l
    <3>1. queue'[k] = queue[k]
      BY <2>2 DEF QueuesOK
    <3> QED  BY <2>2, <3>1 DEF QueuesOK
  <2> QED  BY <2>1, <2>2
<1> QED  BY <1>1, <1>2 DEF QueuesOK

LEMMA Appended ==
    ASSUME NEW S, NEW s \in Seq(S), NEW e \in S, ~Contains(s, e), Distinct(s)
    PROVE  /\ Append(s, e) \in Seq(S) /\ Len(Append(s, e)) = Len(s) + 1 /\ Distinct(Append(s, e))
           /\ \A x \in S : Contains(Append(s, e), x) <=> Contains(s, x) \/ x = e
<1> DEFINE r == Append(s, e)  n == Len(s)
<1>1. /\ r \in Seq(S) /\ n \in Nat /\ Len(r) = n + 1
      /\ r[n + 1] = e /\ \A i \in 1..n : r[i] = s[i]
  OBVIOUS
<1>2. 1..(n + 1) = 1..n \cup {n + 1} /\ n + 1 \notin 1..n
  BY <1>1
<1>3. \A i \in 1..n : s[i] # e
  BY DEF Contains
<1>4. \A i, j \in 1..n : s[i] = s[j] => i = j
  BY DEF Distinct
<1> HIDE DEF r
<1>5. Distinct(r)
  BY <1>1, <1>2, <1>3, <1>4 DEF Distinct
<1>6. \A x \in S : Contains(r, x) <=> Contains(s, x) \/ x = e
  BY <1>1, <1>2 DEF Contains
<1> QED  BY <1>1, <1>5, <1>6 DEF r

LEMMA TailOf ==
    ASSUME NEW S, NEW s \in Seq(S), s # <<>>, Distinct(s)
    PROVE  /\ Tail(s) \in Seq(S) /\ Len(Tail(s)) < Len(s) /\ Distinct(Tail(s))
           /\ Head(s) \in S /\ Contains(s, Head(s))
           /\ \A x \in S : Contains(Tail(s), x) <=> Contains(s, x) /\ x # Head(s)
<1> DEFINE r == Tail(s)  n == Len(s)
<1>1. /\ r \in Seq(S) /\ n \in Nat \ {0} /\ Len(r) = n - 1 /\ Head(s) = s[1]
      /\ \A i \in 1..(n - 1) : r[i] = s[i + 1]
  OBVIOUS
<1>2. \A i, j \in 1..n : s[i] = s[j] => i = j
  BY DEF Distinct
<1> HIDE DEF r
<1>3. Distinct(r)
  BY <1>1, <1>2 DEF Distinct
<1>4. s[1] \in S
  BY <1>1
<1>5. ASSUME NEW x \in S PROVE Contains(r, x) <=> Contains(s, x) /\ x # Head(s)
  <2>1. ASSUME Contains(r, x) PROVE Contains(s, x) /\ x # Head(s)
    <3>1. PICK i \in 1..(n - 1) : r[i] = x
      BY <1>1, <2>1 DEF Contains
    <3>2. i + 1 \in 1..n /\ s[i + 1] = x /\ i + 1 # 1
      BY <1>1, <3>1
    <3> QED  BY <1>1, <1>2, <3>2 DEF Contains
  <2>2. ASSUME Contains(s, x), x # Head(s) PROVE Contains(r, x)
    <3>1. PICK j \in 1..n : s[j] = x
      BY <2>2 DEF Contains
    <3>2. j - 1 \in 1..(n - 1) /\ r[j - 1] = s[j]
      BY <1>1, <2>2, <3>1
    <3> QED  BY <1>1, <3>1, <3>2 DEF Contains
  <2> QED  BY <2>1, <2>2
<1>6. Contains(s, Head(s))
  BY <1>1 DEF Contains
<1>7. Len(r) < Len(s)
  BY <1>1
<1> QED  BY <1>1, <1>3, <1>4, <1>5, <1>6, <1>7 DEF r

LEMMA OneMore ==
    ASSUME NEW B, NEW x, IsFiniteSet(B)
    PROVE  /\ IsFiniteSet(B \cup {x}) /\ Cardinality(B \cup {x}) \in Nat /\ Cardinality(B) \in Nat
           /\ Cardinality(B \cup {x}) <= Cardinality(B) + 1
<1> DEFINE b == Cardinality(B)  c == Cardinality(B \cup {x})
<1>1. IsFiniteSet(B \cup {x}) /\ c = IF x \in B THEN b ELSE b + 1
  BY FS_AddElement
<1>2. b \in Nat
  BY FS_CardinalityType
<1> HIDE DEF b, c
<1>3. c \in Nat /\ c <= b + 1
  BY <1>1, <1>2
<1> QED  BY <1>1, <1>2, <1>3 DEF b, c

LEMMA OneLess ==
    ASSUME NEW B, NEW x \in B, IsFiniteSet(B)
    PROVE  IsFiniteSet(B \ {x}) /\ Cardinality(B) \in Nat /\ Cardinality(B \ {x}) = Cardinality(B) - 1
BY FS_RemoveElement, FS_CardinalityType

\* run keeps the lanes in order, whether it admits, queues or refuses.
LEMMA SubmitKeeps ==
    ASSUME LanesInv, NEW t \in Tasks, task[t].pc # "queued", task[t].depth < Len(Path(t)),
           Submit(t), open' = open
    PROVE  LanesInv'
<1> DEFINE l == NextLane(t)
           d == task[t].depth
           n == Len(Path(t))
           room == l \in open /\ HasRoom(l)
           waits == l \in open /\ ~room /\ Len(queue[l]) < QueueDepth[l]
<1>1. d \in Nat /\ n \in Nat /\ d + 1 \in 1..n /\ d + 1 <= n
  <2>1. d \in Nat
    BY Records DEF LanesInv, TaskRecords
  <2> QED  BY <2>1, PathShape
<1>2. l \in Lanes /\ l = Path(t)[d + 1]
  BY <1>1, PathShape DEF NextLane
<1>3. TasksOK /\ SlotsOK /\ QueuesOK
  BY DEF LanesInv
<1>4. ~Contains(queue[l], t) /\ queue[l] \in Seq(Tasks) /\ Distinct(queue[l])
  BY <1>2, <1>3 DEF QueuesOK
<1>5. /\ active' = IF room THEN [active EXCEPT ![l] = active[l] \cup {t}] ELSE active
      /\ queue' = IF waits THEN [queue EXCEPT ![l] = Append(queue[l], t)] ELSE queue
      /\ task' = [task EXCEPT ![t] = IF room THEN Holding(t)
                                     ELSE IF waits THEN [task[t] EXCEPT !.pc = "queued"]
                                     ELSE TurnedDown(t)]
  BY DEF Submit
<1>6. CASE room
  <2>1. task' = [task EXCEPT ![t] = Holding(t)] /\ queue' = queue
        /\ active' = [active EXCEPT ![l] = active[l] \cup {t}]
    BY <1>5, <1>6
  <2>2. /\ Holding(t) \in TaskRecords /\ Holding(t).pc = "running" /\ Holding(t).depth = d + 1
    BY <1>3, Records
  <2>3. TasksOK' /\ \A s \in Tasks : task'[s] = IF s = t THEN Holding(t) ELSE task[s]
    <3> HIDE DEF d
    <3>1. Holding(t).depth <= n /\ Holding(t).depth > 0
      BY <1>1, <2>2
    <3> QED  BY <1>3, <2>1, <2>2, <3>1, TaskMoves
  <2>4. QueuesOK'
    BY <1>3, <2>1, <2>2, <2>3, QueuesStay
  <2>5. SlotsOK'
    <3> DEFINE A == active[l] \cup {t}
    <3>1. active[l] \in SUBSET Tasks /\ IsFiniteSet(active[l])
      BY <1>2, <1>3 DEF SlotsOK
    <3>2. IsFiniteSet(A) /\ Cardinality(A) \in Nat /\ Cardinality(active[l]) \in Nat
          /\ Cardinality(A) <= Cardinality(active[l]) + 1
      BY <3>1, OneMore
    <3>3. Cardinality(active[l]) < Slots[l] /\ Slots[l] \in Nat
      BY <1>2, <1>6, RuntimeAssumption DEF HasRoom
    <3>4. Cardinality(A) <= Slots[l]
      BY <3>2, <3>3
    <3>5. A \in SUBSET Tasks
      BY <3>1
    <3>6. \A k \in Lanes : Enters(t, d + 1, k) <=> Enters(t, d, k) \/ k = l
      BY <1>1, <1>2, OneLaneOn
    <3>7. \A s \in Tasks : s \in A <=> Enters(s, task'[s].depth, l)
      <4> SUFFICES ASSUME NEW s \in Tasks PROVE s \in A <=> Enters(s, task'[s].depth, l)
        OBVIOUS
      <4>1. CASE s = t
        BY <1>2, <2>2, <2>3, <3>6, <4>1
      <4>2. CASE s # t
        BY <1>2, <1>3, <2>3, <4>2 DEF SlotsOK
      <4> QED  BY <4>1, <4>2
    <3>8. \A k \in Lanes \ {l} : \A s \in Tasks :
             Enters(s, task'[s].depth, k) <=> Enters(s, task[s].depth, k)
      BY <2>2, <2>3, <3>6
    <3> HIDE DEF A, l
    <3> QED  BY <1>2, <1>3, <2>1, <3>2, <3>4, <3>5, <3>7, <3>8, SlotsMove DEF A
  <2> QED  BY <2>2, <2>3, <2>4, <2>5 DEF LanesInv
<1>7. CASE waits
  <2> DEFINE r == [task[t] EXCEPT !.pc = "queued"]
             Q == Append(queue[l], t)
  <2>1. task' = [task EXCEPT ![t] = r] /\ queue' = [queue EXCEPT ![l] = Q] /\ active' = active
    BY <1>5, <1>7
  <2>2. r \in TaskRecords /\ r.pc = "queued" /\ r.depth = d
    BY <1>3, Records
  <2> HIDE DEF r
  <2>3. TasksOK' /\ \A s \in Tasks : task'[s] = IF s = t THEN r ELSE task[s]
    <3>1. r.depth <= n /\ r.depth < n
      BY <1>1, <2>2
    <3> QED  BY <1>3, <2>1, <2>2, <3>1, TaskMoves
  <2>4. SlotsOK'
    BY <1>3, <2>1, <2>2, <2>3, SlotsStay
  <2>5. /\ Q \in Seq(Tasks) /\ Len(Q) = Len(queue[l]) + 1 /\ Distinct(Q)
        /\ \A x \in Tasks : Contains(Q, x) <=> Contains(queue[l], x) \/ x = t
    BY <1>4, Appended
  <2>6. Len(Q) <= QueueDepth[l]
    BY <1>2, <1>4, <1>7, <2>5, RuntimeAssumption
  <2>7. \A s \in Tasks : NextLane(s)' = NextLane(s)
    BY <2>2, <2>3 DEF NextLane
  <2>8. \A s \in Tasks : Contains(Q, s) <=> task'[s].pc = "queued" /\ NextLane(s)' = l
    BY <1>2, <1>3, <2>2, <2>3, <2>5, <2>7 DEF QueuesOK
  <2>9. \A k \in Lanes \ {l} : \A s \in Tasks :
               (task'[s].pc = "queued" /\ NextLane(s)' = k)
                   <=> (task[s].pc = "queued" /\ NextLane(s) = k)
    BY <2>2, <2>3, <2>7
  <2>10. QueuesOK'
    <3> HIDE DEF Q, l
    <3> QED  BY <1>2, <1>3, <2>1, <2>5, <2>6, <2>8, <2>9, QueuesMove
  <2> QED  BY <2>2, <2>3, <2>4, <2>10 DEF LanesInv
<1>8. CASE ~room /\ ~waits
  <2>1. task' = [task EXCEPT ![t] = TurnedDown(t)] /\ queue' = queue /\ active' = active
    BY <1>5, <1>8
  <2>2. /\ TurnedDown(t) \in TaskRecords /\ TurnedDown(t).depth = d
        /\ TurnedDown(t).pc = IF d = 0 THEN "over" ELSE "running"
    BY <1>3, Records
  <2>3. TasksOK' /\ \A s \in Tasks : task'[s] = IF s = t THEN TurnedDown(t) ELSE task[s]
    <3> HIDE DEF d
    <3>1. TurnedDown(t).depth <= n /\ (d # 0 => d > 0)
      BY <1>1, <2>2
    <3> QED  BY <1>3, <2>1, <2>2, <3>1, TaskMoves
  <2>4. SlotsOK'
    BY <1>3, <2>1, <2>2, <2>3, SlotsStay
  <2>5. QueuesOK'
    BY <1>3, <2>1, <2>2, <2>3, QueuesStay
  <2> QED  BY <2>3, <2>4, <2>5 DEF LanesInv
<1> QED  BY <1>6, <1>7, <1>8

LEMMA LeftRecord ==
    ASSUME TasksOK, NEW t \in Tasks, task[t].pc = "running"
    PROVE  /\ task[t].depth \in Nat \ {0}
           /\ Left(t) \in TaskRecords /\ Left(t).depth = task[t].depth - 1
           /\ Left(t).pc = IF task[t].depth = 1 THEN "over" ELSE "running"
<1> DEFINE n == task[t].depth - 1
           r == [task[t] EXCEPT !.depth = n, !.out = TRUE]
<1>1. task[t] \in TaskRecords /\ task[t].depth \in Nat \ {0}
  BY Records DEF TasksOK, TaskRecords
<1>2. n \in Nat
  BY <1>1
<1>3. task[t].depth # 1 => Left(t) = r
  BY <1>1 DEF Left, TaskRecords
<1>4. task[t].depth = 1 => Left(t) = Over /\ n = 0
  BY DEF Left
<1>5. r \in TaskRecords /\ r.pc = "running" /\ r.depth = n
  <2> HIDE DEF n
  <2> QED  BY <1>1, <1>2 DEF TaskRecords
<1> HIDE DEF n, r
<1>6. Left(t) \in TaskRecords /\ Left(t).depth = n /\ Left(t).pc = IF task[t].depth = 1 THEN "over" ELSE "running"
  BY <1>3, <1>4, <1>5, Records
<1> QED  BY <1>1, <1>6 DEF n

\* Leaving a lane frees its slot, and the oldest waiting task gets it at once.
LEMMA LeaveKeeps ==
    ASSUME LanesInv, NEW t \in Tasks, task[t].pc = "running", Leave(t), open' = open
    PROVE  LanesInv' /\ task'[t].depth = task[t].depth - 1
           /\ task'[t].pc = IF task[t].depth = 1 THEN "over" ELSE "running"
<1> DEFINE l == Innermost(t)
           d == task[t].depth
           promotes == l \in open /\ queue[l] # <<>>
           h == Head(queue[l])
           A == (active[l] \ {t}) \cup (IF promotes THEN {h} ELSE {})
<1>1. TasksOK /\ SlotsOK /\ QueuesOK
  BY DEF LanesInv
<1>2. /\ d \in Nat \ {0} /\ Left(t) \in TaskRecords /\ Left(t).depth = d - 1
      /\ Left(t).pc = IF d = 1 THEN "over" ELSE "running"
  BY <1>1, LeftRecord
<1>3. d - 1 \in Nat /\ d - 1 < Len(Path(t)) /\ (d - 1) + 1 = d /\ d \in 1..Len(Path(t))
  BY <1>1, <1>2, PathShape DEF TasksOK
<1>4. l \in Lanes /\ l = Path(t)[d]
  BY <1>3, PathShape DEF Innermost
<1>5. \A k \in Lanes : Enters(t, d, k) <=> Enters(t, d - 1, k) \/ k = l
  BY <1>3, <1>4, OneLaneOn
<1>6. ~Enters(t, d - 1, l)
  BY <1>3, <1>4, OneLaneOn
<1>7. t \in active[l] /\ active[l] \in SUBSET Tasks /\ IsFiniteSet(active[l])
  BY <1>1, <1>4, <1>5 DEF SlotsOK
<1>8. queue[l] \in Seq(Tasks) /\ Distinct(queue[l])
  BY <1>1, <1>4 DEF QueuesOK
<1>9. /\ active' = [active EXCEPT ![l] = A]
      /\ queue' = IF promotes THEN [queue EXCEPT ![l] = Tail(queue[l])] ELSE queue
      /\ task' = [s \in Tasks |-> IF s = t THEN Left(t)
                                  ELSE IF promotes /\ s = h THEN Holding(s) ELSE task[s]]
  BY DEF Leave
<1>10. task'[t] = Left(t)
  BY <1>9
<1>11. CASE ~promotes
  <2>1. task' = [task EXCEPT ![t] = Left(t)] /\ queue' = queue /\ A = active[l] \ {t}
    BY <1>1, <1>9, <1>11 DEF TasksOK
  <2>2. TasksOK' /\ \A s \in Tasks : task'[s] = IF s = t THEN Left(t) ELSE task[s]
    <3> HIDE DEF d
    <3>1. /\ Left(t).depth <= Len(Path(t)) /\ (d = 1 => Left(t).depth = 0)
          /\ (d # 1 => Left(t).depth > 0)
      BY <1>2, <1>3
    <3> QED  BY <1>1, <1>2, <2>1, <3>1, TaskMoves
  <2>3. QueuesOK'
    BY <1>1, <1>2, <2>1, <2>2, QueuesStay
  <2>4. SlotsOK'
    <3>1. IsFiniteSet(A) /\ Cardinality(A) <= Slots[l]
      <4> DEFINE B == active[l]  c == Cardinality(B)  e == Cardinality(A)
      <4>1. IsFiniteSet(A) /\ c \in Nat /\ e = c - 1
        BY <1>7, <2>1, OneLess
      <4>2. c <= Slots[l] /\ Slots[l] \in Nat
        BY <1>1, <1>4, RuntimeAssumption DEF SlotsOK
      <4> HIDE DEF A, c, e
      <4>3. e <= Slots[l]
        BY <4>1, <4>2
      <4> QED  BY <4>1, <4>3 DEF e
    <3>2. \A s \in Tasks : s \in A <=> Enters(s, task'[s].depth, l)
      <4> SUFFICES ASSUME NEW s \in Tasks PROVE s \in A <=> Enters(s, task'[s].depth, l)
        OBVIOUS
      <4>1. CASE s = t
        BY <1>2, <1>6, <1>10, <2>1, <4>1
      <4>2. CASE s # t
        BY <1>1, <1>4, <2>1, <2>2, <4>2 DEF SlotsOK
      <4> QED  BY <4>1, <4>2
    <3>3. \A k \in Lanes \ {l} : \A s \in Tasks :
             Enters(s, task'[s].depth, k) <=> Enters(s, task[s].depth, k)
      BY <1>2, <1>5, <2>2
    <3>4. A \in SUBSET Tasks
      BY <1>7, <2>1
    <3> HIDE DEF A, l
    <3> QED  BY <1>1, <1>4, <1>9, <3>1, <3>2, <3>3, <3>4, SlotsMove
  <2> QED  BY <1>2, <1>10, <2>2, <2>3, <2>4 DEF LanesInv
<1>12. CASE promotes
  <2> DEFINE T1 == [task EXCEPT ![t] = Left(t)]
             Q == Tail(queue[l])
  <2>1. /\ Q \in Seq(Tasks) /\ Len(Q) < Len(queue[l]) /\ Distinct(Q)
        /\ h \in Tasks /\ Contains(queue[l], h)
        /\ \A x \in Tasks : Contains(Q, x) <=> Contains(queue[l], x) /\ x # h
    BY <1>8, <1>12, TailOf
  <2>2. task[h].pc = "queued" /\ NextLane(h) = l /\ h # t
    BY <1>1, <1>4, <2>1 DEF QueuesOK
  <2>3. /\ Holding(h) \in TaskRecords /\ Holding(h).pc = "running"
        /\ Holding(h).depth = task[h].depth + 1
    BY <1>1, <2>1, Records
  <2>4. task[h].depth \in Nat /\ task[h].depth < Len(Path(h)) /\ Len(Path(h)) \in Nat
    BY <1>1, <2>1, <2>2, PathShape DEF TasksOK, TaskRecords
  <2>5. \A k \in Lanes : Enters(h, task[h].depth + 1, k) <=> Enters(h, task[h].depth, k) \/ k = l
    BY <2>1, <2>2, <2>4, OneLaneOn DEF NextLane
  <2>6. \A s \in Tasks : task'[s] = IF s = t THEN Left(t) ELSE IF s = h THEN Holding(h) ELSE task[s]
    BY <1>9, <1>12
  <2>7. TasksOK'
    <3>1. task' \in [Tasks -> TaskRecords]
      <4> SUFFICES ASSUME NEW s \in Tasks PROVE task'[s] \in TaskRecords
        BY <1>9
      <4> QED  BY <1>1, <1>2, <2>3, <2>6, Records
    <3>2. ASSUME NEW s \in Tasks
          PROVE  /\ task'[s].depth <= Len(Path(s))
                 /\ task'[s].pc \in {"new", "over"} => task'[s].depth = 0
                 /\ task'[s].pc = "running" => task'[s].depth > 0
                 /\ task'[s].pc = "queued" => task'[s].depth < Len(Path(s))
      <4>1. CASE s = t
        <5>1. /\ Left(t).depth <= Len(Path(t)) /\ (d = 1 => Left(t).depth = 0)
              /\ (d # 1 => Left(t).depth > 0)
          <6> HIDE DEF d
          <6> QED  BY <1>2, <1>3
        <5> QED  BY <1>2, <1>10, <4>1, <5>1
      <4>2. CASE s = h
        <5>1. Holding(h).depth <= Len(Path(h)) /\ Holding(h).depth > 0
          BY <2>3, <2>4
        <5>2. task'[s] = Holding(h)
          BY <2>1, <2>2, <2>6, <4>2
        <5> QED  BY <2>3, <4>2, <5>1, <5>2
      <4>3. CASE s # t /\ s # h
        BY <1>1, <2>6, <4>3 DEF TasksOK
      <4> QED  BY <4>1, <4>2, <4>3
    <3> QED  BY <3>1, <3>2 DEF TasksOK
  <2>8. QueuesOK'
    <3>1. queue' = [queue EXCEPT ![l] = Q]
      BY <1>9, <1>12
    <3>2. Len(Q) <= QueueDepth[l]
      <4>1. Len(queue[l]) <= QueueDepth[l] /\ QueueDepth[l] \in Nat
        BY <1>1, <1>4, RuntimeAssumption DEF QueuesOK
      <4>2. Len(queue[l]) \in Nat /\ Len(Q) \in Nat /\ Len(Q) < Len(queue[l])
        BY <1>8, <2>1, LenProperties
      <4> HIDE DEF Q
      <4> QED  BY ONLY <4>1, <4>2
    <3>3. \A s \in Tasks : /\ (task'[s].pc = "queued") <=> (task[s].pc = "queued" /\ s # h)
                           /\ task'[s].pc = "queued" => NextLane(s)' = NextLane(s)
      <4> SUFFICES ASSUME NEW s \in Tasks
                   PROVE  /\ (task'[s].pc = "queued") <=> (task[s].pc = "queued" /\ s # h)
                          /\ task'[s].pc = "queued" => NextLane(s)' = NextLane(s)
        OBVIOUS
      <4>1. CASE s = t
        BY <1>2, <1>10, <4>1
      <4>2. CASE s = h
        BY <2>2, <2>3, <2>6, <4>2
      <4>3. CASE s # t /\ s # h
        BY <2>6, <4>3 DEF NextLane
      <4> QED  BY <4>1, <4>2, <4>3
    <3>4. \A s \in Tasks : Contains(Q, s) <=> task'[s].pc = "queued" /\ NextLane(s)' = l
      BY <1>1, <1>4, <2>1, <3>3 DEF QueuesOK
    <3>5. \A k \in Lanes \ {l} : \A s \in Tasks :
               (task'[s].pc = "queued" /\ NextLane(s)' = k)
                   <=> (task[s].pc = "queued" /\ NextLane(s) = k)
      BY <2>2, <3>3
    <3> HIDE DEF Q, l
    <3> QED  BY <1>1, <1>4, <2>1, <3>1, <3>2, <3>4, <3>5, QueuesMove
  <2>9. SlotsOK'
    <3> DEFINE B == active[l] \ {t}
    <3>0. A = B \cup {h}
      BY <1>12
    <3>1. IsFiniteSet(A) /\ Cardinality(A) <= Slots[l]
      <4> DEFINE c == Cardinality(active[l])  b == Cardinality(B)  e == Cardinality(B \cup {h})
      <4>1. IsFiniteSet(B) /\ c \in Nat /\ b = c - 1
        BY <1>7, OneLess
      <4>2. c <= Slots[l] /\ Slots[l] \in Nat
        BY <1>1, <1>4, RuntimeAssumption DEF SlotsOK
      <4>3. IsFiniteSet(B \cup {h}) /\ e \in Nat /\ b \in Nat /\ e <= b + 1
        <5> HIDE DEF B, h
        <5> QED  BY <4>1, OneMore
      <4> HIDE DEF A, c, e, b
      <4>4. e <= Slots[l]
        BY <4>1, <4>2, <4>3
      <4> QED  BY <3>0, <4>3, <4>4 DEF e
    <3>2. \A s \in Tasks : s \in A <=> Enters(s, task'[s].depth, l)
      <4> SUFFICES ASSUME NEW s \in Tasks PROVE s \in A <=> Enters(s, task'[s].depth, l)
        OBVIOUS
      <4> HIDE DEF A, h
      <4>1. CASE s = t
        BY <1>2, <1>6, <1>10, <2>2, <3>0, <4>1
      <4>2. CASE s = h
        BY <1>4, <2>2, <2>3, <2>5, <2>6, <3>0, <4>2
      <4>3. CASE s # t /\ s # h
        BY <1>1, <1>4, <2>6, <3>0, <4>3 DEF SlotsOK
      <4> QED  BY <4>1, <4>2, <4>3
    <3>3. \A k \in Lanes \ {l} : \A s \in Tasks :
             Enters(s, task'[s].depth, k) <=> Enters(s, task[s].depth, k)
      <4> HIDE DEF h
      <4> QED  BY <1>2, <1>5, <2>3, <2>5, <2>6
    <3>4. A \in SUBSET Tasks
      BY <1>7, <2>1, <3>0
    <3> HIDE DEF A, l
    <3> QED  BY <1>1, <1>4, <1>9, <3>1, <3>2, <3>3, <3>4, SlotsMove
  <2> QED  BY <1>2, <1>10, <2>7, <2>8, <2>9 DEF LanesInv
<1> QED  BY <1>11, <1>12

LEMMA AbandonKeeps ==
    ASSUME LanesInv, NEW t \in Tasks, Abandon(t)
    PROVE  LanesInv'
<1> DEFINE q == queue["resolve"]
           Q == RemoveFirst(q, t)
<1>1. TasksOK /\ SlotsOK /\ QueuesOK /\ "resolve" \in Lanes
  BY DEF LanesInv, Lanes
<1>2. /\ t \in Requests /\ task[t].pc = "queued" /\ queue' = [queue EXCEPT !["resolve"] = Q]
      /\ task' = [task EXCEPT ![t] = Over] /\ active' = active /\ open' = open
  BY DEF Abandon, shutdownVars
<1>3. task[t].depth = 0 /\ NextLane(t) = "resolve"
  <2>1. task[t].depth \in Nat /\ task[t].depth < 1
    BY <1>1, <1>2, PathShape DEF TasksOK, TaskRecords
  <2>2. task[t].depth = 0
    BY <2>1
  <2> QED  BY <1>2, <2>2, PathShape DEF NextLane
<1>4. Over \in TaskRecords /\ Over.depth = 0 /\ Over.pc = "over"
  BY <1>1, Records
<1>5. TasksOK' /\ \A s \in Tasks : task'[s] = IF s = t THEN Over ELSE task[s]
  <2>1. Over.depth <= Len(Path(t))
    BY <1>4, PathShape
  <2> QED  BY <1>1, <1>2, <1>4, <2>1, TaskMoves
<1>6. SlotsOK'
  BY <1>1, <1>2, <1>3, <1>4, <1>5, SlotsStay
<1>7. q \in Seq(Tasks) /\ Distinct(q) /\ Contains(q, t) /\ Len(q) <= QueueDepth["resolve"]
  BY <1>1, <1>2, <1>3 DEF QueuesOK
<1>8. /\ Q \in Seq(Tasks) /\ Len(Q) < Len(q) /\ Distinct(Q)
      /\ \A x \in Tasks : Contains(Q, x) <=> Contains(q, x) /\ x # t
  BY <1>7, RemovedFrom
<1>9. Len(Q) <= QueueDepth["resolve"]
  BY <1>1, <1>7, <1>8, RuntimeAssumption
<1>10. \A s \in Tasks : /\ (task'[s].pc = "queued") <=> (task[s].pc = "queued" /\ s # t)
                        /\ task'[s].pc = "queued" => NextLane(s)' = NextLane(s)
  BY <1>4, <1>5 DEF NextLane
<1>11. \A s \in Tasks : Contains(Q, s) <=> task'[s].pc = "queued" /\ NextLane(s)' = "resolve"
  BY <1>1, <1>8, <1>10 DEF QueuesOK
<1>12. \A k \in Lanes \ {"resolve"} : \A s \in Tasks :
           (task'[s].pc = "queued" /\ NextLane(s)' = k) <=> (task[s].pc = "queued" /\ NextLane(s) = k)
  BY <1>3, <1>10
<1>13. QueuesOK'
  <2> HIDE DEF Q
  <2> QED  BY <1>1, <1>2, <1>8, <1>9, <1>11, <1>12, QueuesMove
<1> QED  BY <1>2, <1>5, <1>6, <1>13 DEF LanesInv

LEMMA StopKeeps ==
    ASSUME LanesInv, StopLanes, active' = active
    PROVE  LanesInv' /\ open' = {} /\ queue' = [l \in Lanes |-> <<>>]
<1>1. /\ open' = {} /\ queue' = [l \in Lanes |-> <<>>]
      /\ task' = [t \in Tasks |-> IF task[t].pc = "queued" THEN TurnedDown(t) ELSE task[t]]
  BY DEF StopLanes
<1>2. TasksOK /\ SlotsOK /\ QueuesOK
  BY DEF LanesInv
<1>3. ASSUME NEW s \in Tasks
      PROVE  /\ task'[s] \in TaskRecords /\ task'[s].depth = task[s].depth
             /\ task'[s].pc = IF task[s].pc # "queued" THEN task[s].pc
                              ELSE IF task[s].depth = 0 THEN "over" ELSE "running"
  BY <1>1, <1>2, Records
<1>4. TasksOK'
  <2>1. task' \in [Tasks -> TaskRecords]
    BY <1>1, <1>3
  <2>2. ASSUME NEW s \in Tasks
        PROVE  /\ task'[s].depth <= Len(Path(s))
               /\ task'[s].pc \in {"new", "over"} => task'[s].depth = 0
               /\ task'[s].pc = "running" => task'[s].depth > 0
               /\ task'[s].pc # "queued"
    <3>1. task[s].depth \in Nat
      BY <1>2 DEF TasksOK, TaskRecords
    <3> QED  BY <1>2, <1>3, <3>1 DEF TasksOK
  <2> QED  BY <2>1, <2>2 DEF TasksOK
<1>5. SlotsOK'
  BY <1>2, <1>3, SlotsStay
<1>6. QueuesOK'
  <2>1. \A s \in Tasks : task'[s].pc # "queued"
    BY <1>3
  <2>2. queue' \in [Lanes -> Seq(Tasks)] /\ \A l \in Lanes : queue'[l] = <<>>
    BY <1>1
  <2>3. Distinct(<<>>) /\ Len(<<>>) = 0 /\ \A s : ~Contains(<<>>, s)
    BY DEF Distinct, Contains
  <2>4. \A l \in Lanes : Len(queue'[l]) <= QueueDepth[l]
    BY <2>2, <2>3, RuntimeAssumption
  <2> QED  BY <2>1, <2>2, <2>3, <2>4 DEF QueuesOK
<1> QED  BY <1>1, <1>4, <1>5, <1>6 DEF LanesInv

LEMMA LanesStay ==
    ASSUME LanesInv, UNCHANGED <<laneVars, task>>
    PROVE  LanesInv'
<1>1. active' = active /\ queue' = queue /\ open' = open /\ task' = task
  BY DEF laneVars
<1> QED  BY <1>1, SlotsStay, QueuesStay DEF LanesInv, TasksOK

-----------------------------------------------------------------------------
(* Maintenance worker and shutdown                                         *)

\* The timer is set exactly while a cycle is scheduled, and a cycle that is
\* scheduled after another finds the step that one ended with.
WorkerOK ==
    /\ worker \in [phase : {"idle", "scheduled", "running", "stopping", "stopped"},
                   timer : BOOLEAN, step : 0..LastStep]
    /\ worker.timer <=> worker.phase = "scheduled"
    /\ worker.phase = "idle" => cycles = 0
    /\ worker.phase = "scheduled" /\ cycles > 0 => worker.step = LastStep
    /\ cycles \in 0..MaxCycles

\* Resources close in order, after the lanes have refused what was waiting; the
\* worker's only once no cycle runs; and idle lanes stay idle.
ShutdownOK ==
    /\ lifecycle \in {"accepting", "draining", "closing", "closed"} /\ expired \in BOOLEAN
    /\ closed \in {{}, {"http_server"}, {"http_server", "ingestion_maintenance_worker"},
                   {"http_server", "ingestion_maintenance_worker", "registry_database"}}
    /\ lifecycle \in {"accepting", "draining"} => closed = {}
    /\ lifecycle # "accepting" => /\ open = {} /\ queue = [l \in Lanes |-> <<>>]
                                  /\ worker.phase \in {"stopping", "stopped"}
    /\ "ingestion_maintenance_worker" \in closed => task[Cycle].pc \in {"new", "over"}
    /\ lifecycle \in {"closing", "closed"} /\ expired = FALSE => active = [l \in Lanes |-> {}]

RuntimeInv == LanesInv /\ WorkerOK /\ ShutdownOK

\* A task that runs occupies its first lane.
LEMMA RunningOccupies ==
    ASSUME LanesInv, NEW t \in Tasks, task[t].pc = "running"
    PROVE  \E l \in Lanes : t \in active[l]
<1>1. task[t].depth \in Nat /\ task[t].depth > 0
  BY DEF LanesInv, TasksOK, TaskRecords
<1>2. 1 \in 1..task[t].depth /\ Path(t)[1] \in Lanes
  BY <1>1, PathShape
<1>3. Enters(t, task[t].depth, Path(t)[1])
  BY <1>2 DEF Enters
<1> QED  BY <1>2, <1>3 DEF LanesInv, SlotsOK

\* Once the daemon drains, a submission changes no lane.
LEMMA SubmitShut ==
    ASSUME LanesInv, ShutdownOK, NEW t \in Tasks, Submit(t), lifecycle # "accepting"
    PROVE  active' = active /\ queue' = queue /\ \A s \in Tasks : s # t => task'[s] = task[s]
<1>1. open = {}
  BY DEF ShutdownOK
<1>2. active' = active /\ queue' = queue /\ task' = [task EXCEPT ![t] = TurnedDown(t)]
  BY <1>1 DEF Submit
<1> QED  BY <1>2 DEF LanesInv, TasksOK

\* Nor does a task that leaves one start another.
LEMMA LeaveShut ==
    ASSUME LanesInv, ShutdownOK, NEW t \in Tasks, task[t].pc = "running", Leave(t),
           lifecycle # "accepting"
    PROVE  /\ queue' = queue /\ (\A s \in Tasks : s # t => task'[s] = task[s])
           /\ active # [l \in Lanes |-> {}]
<1>1. open = {}
  BY DEF ShutdownOK
<1>2. queue' = queue /\ \A s \in Tasks : s # t => task'[s] = task[s]
  BY <1>1 DEF Leave
<1> QED  BY <1>2, RunningOccupies

\* What a step of the lanes alone leaves to show.
LEMMA ShutdownStays ==
    ASSUME RuntimeInv, UNCHANGED shutdownVars,
           worker'.phase = worker.phase \/ lifecycle = "accepting",
           lifecycle # "accepting" =>
               /\ queue' = queue
               /\ task[Cycle].pc \in {"new", "over"} => task'[Cycle] = task[Cycle]
               /\ active = [l \in Lanes |-> {}] => active' = active
    PROVE  ShutdownOK'
<1>1. open' = open /\ lifecycle' = lifecycle /\ expired' = expired /\ closed' = closed
  BY DEF shutdownVars
<1>2. CASE lifecycle = "accepting"
  BY <1>1, <1>2 DEF RuntimeInv, ShutdownOK
<1>3. CASE lifecycle # "accepting"
  BY <1>1, <1>3 DEF RuntimeInv, ShutdownOK
<1> QED  BY <1>2, <1>3

LEMMA WorkerStays ==
    ASSUME WorkerOK, worker' = worker, cycles' = cycles
    PROVE  WorkerOK'
BY DEF WorkerOK

LEMMA CycleIsTask == Cycle \in Tasks
BY DEF Tasks

LEMMA TasksStep ==
    ASSUME RuntimeInv, NEW t \in Tasks, Arrive(t) \/ Abandon(t) \/ FinishTask(t)
    PROVE  RuntimeInv'
<1>1. LanesInv /\ WorkerOK /\ ShutdownOK
  BY DEF RuntimeInv
<1>2. worker' = worker /\ cycles' = cycles /\ UNCHANGED shutdownVars /\ open' = open
  BY DEF Arrive, Abandon, FinishTask, shutdownVars
<1>3. WorkerOK'
  BY <1>1, <1>2, WorkerStays
<1>4. CASE Arrive(t)
  <2>1. t # Cycle /\ task[t].pc = "new" /\ Submit(t)
    BY <1>4 DEF Arrive
  <2>2. task[t].depth < Len(Path(t))
    BY <1>1, <2>1, PathShape DEF LanesInv, TasksOK
  <2>3. LanesInv'
    BY <1>1, <1>2, <2>1, <2>2, SubmitKeeps
  <2>4. ShutdownOK'
    BY <1>1, <1>2, <2>1, SubmitShut, ShutdownStays, CycleIsTask
  <2> QED  BY <1>3, <2>3, <2>4 DEF RuntimeInv
<1>5. CASE Abandon(t)
  <2>1. LanesInv'
    BY <1>1, <1>5, AbandonKeeps
  <2>2. lifecycle = "accepting"
    <3>1. Contains(queue[NextLane(t)], t) /\ NextLane(t) \in Lanes
      <4>1. task[t].depth \in Nat /\ task[t].depth + 1 \in 1..Len(Path(t)) /\ task[t].pc = "queued"
        BY <1>1, <1>5, PathShape DEF Abandon, LanesInv, TasksOK, TaskRecords
      <4>2. NextLane(t) \in Lanes
        BY <4>1, PathShape DEF NextLane
      <4> QED  BY <1>1, <4>1, <4>2 DEF LanesInv, QueuesOK
    <3>2. ~Contains(<<>>, t)
      BY DEF Contains
    <3> QED  BY <1>1, <3>1, <3>2 DEF ShutdownOK
  <2>3. ShutdownOK'
    BY <1>2, <2>2, ShutdownStays
  <2> QED  BY <1>3, <2>1, <2>3 DEF RuntimeInv
<1>6. CASE FinishTask(t)
  <2>1. t # Cycle /\ task[t].pc = "running" /\ Leave(t)
    BY <1>6 DEF FinishTask
  <2>2. LanesInv'
    BY <1>1, <1>2, <2>1, LeaveKeeps
  <2>3. ShutdownOK'
    BY <1>1, <1>2, <2>1, LeaveShut, ShutdownStays, CycleIsTask
  <2> QED  BY <1>3, <2>2, <2>3 DEF RuntimeInv
<1> QED  BY <1>4, <1>5, <1>6

LEMMA CycleStep ==
    ASSUME RuntimeInv, Start \/ RunCycle \/ EnterNested \/ LeaveNested \/ NextStep \/ EndCycle
    PROVE  RuntimeInv'
<1> DEFINE W == [phase : {"idle", "scheduled", "running", "stopping", "stopped"},
                 timer : BOOLEAN, step : 0..LastStep]
<1>1. LanesInv /\ WorkerOK /\ ShutdownOK /\ Cycle \in Tasks
  BY CycleIsTask DEF RuntimeInv
<1>2. worker \in W /\ worker.step \in 0..LastStep
  BY <1>1 DEF WorkerOK
<1>3. CASE Start
  <2>1. /\ worker.phase = "idle" /\ lifecycle = "accepting"
        /\ worker' = [worker EXCEPT !.phase = "scheduled", !.timer = TRUE]
        /\ UNCHANGED <<laneVars, task>> /\ cycles' = cycles /\ UNCHANGED shutdownVars
    BY <1>3 DEF Start, laneVars, shutdownVars
  <2>2. worker' \in W /\ worker'.phase = "scheduled" /\ worker'.timer = TRUE
    BY <1>2, <2>1
  <2>3. WorkerOK'
    BY <1>1, <2>1, <2>2 DEF WorkerOK
  <2>4. LanesInv'
    BY <1>1, <2>1, LanesStay
  <2>5. ShutdownOK'
    BY <2>1, ShutdownStays
  <2> QED  BY <2>3, <2>4, <2>5 DEF RuntimeInv
<1>4. CASE RunCycle
  <2>1. /\ worker.timer /\ cycles < MaxCycles /\ task[Cycle].pc \in {"new", "over"} /\ Submit(Cycle)
        /\ worker' = [phase |-> "running", timer |-> FALSE, step |-> Reconciliation]
        /\ cycles' = cycles + 1 /\ UNCHANGED shutdownVars /\ open' = open
    BY <1>4 DEF RunCycle, shutdownVars
  <2>2. worker.phase = "scheduled" /\ lifecycle = "accepting"
    BY <1>1, <2>1 DEF WorkerOK, ShutdownOK
  <2>3. worker' \in W /\ worker'.phase = "running" /\ worker'.timer = FALSE
    BY <2>1 DEF Reconciliation, LastStep
  <2>4. cycles' \in 0..MaxCycles
    BY <1>1, <2>1, RuntimeAssumption DEF WorkerOK
  <2>5. WorkerOK'
    BY <2>3, <2>4 DEF WorkerOK
  <2>6. task[Cycle].depth < Len(Path(Cycle))
    BY <1>1, <2>1, PathShape DEF LanesInv, TasksOK
  <2>7. LanesInv'
    BY <1>1, <2>1, <2>6, SubmitKeeps
  <2>8. ShutdownOK'
    BY <2>1, <2>2, ShutdownStays
  <2> QED  BY <2>5, <2>7, <2>8 DEF RuntimeInv
<1>5. CASE EnterNested
  <2>1. /\ task[Cycle].pc = "running" /\ task[Cycle].depth < Len(Path(Cycle)) /\ Submit(Cycle)
        /\ worker' = worker /\ cycles' = cycles /\ UNCHANGED shutdownVars /\ open' = open
    BY <1>5 DEF EnterNested, shutdownVars
  <2>2. LanesInv'
    BY <1>1, <2>1, SubmitKeeps
  <2>3. WorkerOK'
    BY <1>1, <2>1, WorkerStays
  <2>4. ShutdownOK'
    BY <1>1, <2>1, SubmitShut, ShutdownStays
  <2> QED  BY <2>2, <2>3, <2>4 DEF RuntimeInv
<1>6. CASE LeaveNested
  <2>1. /\ task[Cycle].pc = "running" /\ Leave(Cycle)
        /\ worker' = worker /\ cycles' = cycles /\ UNCHANGED shutdownVars /\ open' = open
    BY <1>6 DEF LeaveNested, shutdownVars
  <2>2. LanesInv'
    BY <1>1, <2>1, LeaveKeeps
  <2>3. WorkerOK'
    BY <1>1, <2>1, WorkerStays
  <2>4. ShutdownOK'
    BY <1>1, <2>1, LeaveShut, ShutdownStays
  <2> QED  BY <2>2, <2>3, <2>4 DEF RuntimeInv
<1>7. CASE NextStep
  <2> DEFINE n == worker.step + 1
  <2>1. /\ worker.step < LastStep /\ worker.phase = "running"
        /\ worker' = [worker EXCEPT !.step = n]
        /\ UNCHANGED <<laneVars, task>> /\ cycles' = cycles /\ UNCHANGED shutdownVars
    BY <1>7 DEF NextStep, laneVars, shutdownVars
  <2>2. n \in 0..LastStep
    BY <1>2, <2>1 DEF LastStep
  <2> HIDE DEF n
  <2>3. worker' \in W /\ worker'.phase = "running" /\ (worker'.timer <=> worker.timer)
    BY <1>2, <2>1, <2>2
  <2>4. WorkerOK'
    BY <1>1, <2>1, <2>3 DEF WorkerOK
  <2>5. LanesInv'
    BY <1>1, <2>1, LanesStay
  <2>6. ShutdownOK'
    BY <2>1, <2>3, ShutdownStays DEF laneVars
  <2> QED  BY <2>4, <2>5, <2>6 DEF RuntimeInv
<1>8. CASE EndCycle
  <2>1. /\ task[Cycle].pc = "running" /\ Leave(Cycle) /\ cycles' = cycles
        /\ UNCHANGED shutdownVars /\ open' = open
        /\ worker.step = LastStep \/ worker.phase = "stopping"
        /\ worker' = IF worker.phase = "running"
                     THEN [worker EXCEPT !.phase = "scheduled", !.timer = TRUE] ELSE worker
    BY <1>8 DEF EndCycle, shutdownVars
  <2>2. LanesInv'
    BY <1>1, <2>1, LeaveKeeps
  <2>3. CASE worker.phase = "running"
    <3>1. /\ worker' \in W /\ worker'.phase = "scheduled" /\ worker'.timer = TRUE
          /\ worker'.step = worker.step /\ worker.step = LastStep
      BY <1>2, <2>1, <2>3
    <3>2. WorkerOK'
      BY <1>1, <2>1, <3>1 DEF WorkerOK
    <3>3. lifecycle = "accepting"
      BY <1>1, <2>3 DEF ShutdownOK
    <3>4. ShutdownOK'
      BY <2>1, <3>3, ShutdownStays
    <3> QED  BY <2>2, <3>2, <3>4 DEF RuntimeInv
  <2>4. CASE worker.phase # "running"
    <3>1. WorkerOK'
      BY <1>1, <2>1, <2>4, WorkerStays
    <3>2. ShutdownOK'
      BY <1>1, <2>1, <2>4, LeaveShut, ShutdownStays
    <3> QED  BY <2>2, <3>1, <3>2 DEF RuntimeInv
  <2> QED  BY <2>3, <2>4
<1> QED  BY <1>3, <1>4, <1>5, <1>6, <1>7, <1>8

\* How many resources are closed says which one is next.
LEMMA CloseOrder ==
    LET none == {}
        one == {"http_server"}
        two == {"http_server", "ingestion_maintenance_worker"}
        all == {"http_server", "ingestion_maintenance_worker", "registry_database"}
    IN  /\ Cardinality(none) = 0 /\ Cardinality(one) = 1 /\ Cardinality(two) = 2
        /\ Cardinality(all) = 3
        /\ Len(Closeables) = 3
        /\ Closeables[1] = "http_server" /\ Closeables[2] = "ingestion_maintenance_worker"
        /\ Closeables[3] = "registry_database"
<1> DEFINE one == {"http_server"}
           two == {"http_server", "ingestion_maintenance_worker"}
           all == {"http_server", "ingestion_maintenance_worker", "registry_database"}
<1>1. Cardinality({}) = 0
  BY FS_EmptySet
<1>2. IsFiniteSet(one) /\ Cardinality(one) = 1
  BY FS_Singleton
<1>3. IsFiniteSet(two) /\ Cardinality(two) = 2
  <2>1. two = one \cup {"ingestion_maintenance_worker"} /\ "ingestion_maintenance_worker" \notin one
    OBVIOUS
  <2> HIDE DEF one, two
  <2>2. IsFiniteSet(two) /\ Cardinality(two) = Cardinality(one) + 1
    BY <1>2, <2>1, FS_AddElement
  <2> QED  BY <1>2, <2>2
<1>4. Cardinality(all) = 3
  <2>1. all = two \cup {"registry_database"} /\ "registry_database" \notin two
    OBVIOUS
  <2> HIDE DEF two, all
  <2>2. Cardinality(all) = Cardinality(two) + 1
    BY <1>3, <2>1, FS_AddElement
  <2> QED  BY <1>3, <2>2
<1>5. /\ Len(Closeables) = 3
      /\ Closeables[1] = "http_server" /\ Closeables[2] = "ingestion_maintenance_worker"
      /\ Closeables[3] = "registry_database"
  BY DEF Closeables
<1> QED  BY <1>1, <1>2, <1>3, <1>4, <1>5

LEMMA ShutdownKeeps ==
    ASSUME RuntimeInv, BeginDraining \/ Drained \/ Close \/ Closed
    PROVE  RuntimeInv'
<1> DEFINE W == [phase : {"idle", "scheduled", "running", "stopping", "stopped"},
                 timer : BOOLEAN, step : 0..LastStep]
<1>1. LanesInv /\ WorkerOK /\ ShutdownOK /\ worker \in W
  BY DEF RuntimeInv, WorkerOK
<1>2. CASE BeginDraining
  <2>1. /\ lifecycle = "accepting" /\ lifecycle' = "draining" /\ StopLanes /\ active' = active
        /\ worker' = [worker EXCEPT !.phase = "stopping", !.timer = FALSE]
        /\ cycles' = cycles /\ expired' = expired /\ closed' = closed
    BY <1>2 DEF BeginDraining
  <2>2. worker' \in W /\ worker'.phase = "stopping" /\ worker'.timer = FALSE
    BY <1>1, <2>1
  <2>3. WorkerOK'
    BY <1>1, <2>1, <2>2 DEF WorkerOK
  <2>4. LanesInv' /\ open' = {} /\ queue' = [l \in Lanes |-> <<>>]
    BY <1>1, <2>1, StopKeeps
  <2>5. closed' = {} /\ expired' \in BOOLEAN
    BY <1>1, <2>1 DEF ShutdownOK
  <2>6. ShutdownOK'
    BY <2>1, <2>2, <2>4, <2>5 DEF ShutdownOK
  <2> QED  BY <2>3, <2>4, <2>6 DEF RuntimeInv
<1>3. CASE Drained
  <2>1. /\ lifecycle = "draining" /\ lifecycle' = "closing" /\ UNCHANGED <<laneVars, task>>
        /\ worker' = worker /\ cycles' = cycles /\ closed' = closed
        /\ \/ (\A l \in Lanes : LaneIdle(l)) /\ expired' = expired
           \/ expired' = TRUE
    BY <1>3 DEF Drained, Lanes
  <2>2. expired' = FALSE => active = [l \in Lanes |-> {}]
    <3>1. active = [l \in Lanes |-> active[l]]
      BY <1>1 DEF LanesInv, SlotsOK
    <3> QED  BY <2>1, <3>1 DEF LaneIdle
  <2>3. expired' \in BOOLEAN
    BY <1>1, <2>1 DEF ShutdownOK
  <2>4. ShutdownOK'
    BY <1>1, <2>1, <2>2, <2>3 DEF ShutdownOK, laneVars
  <2> QED  BY <1>1, <2>1, <2>4, LanesStay, WorkerStays DEF RuntimeInv
<1>4. CASE Close
  <2>1. /\ lifecycle = "closing" /\ lifecycle' = "closing" /\ UNCHANGED <<laneVars, task>>
        /\ cycles' = cycles /\ expired' = expired
        /\ Cardinality(closed) < 3 /\ MayClose(NextCloseable)
        /\ closed' = closed \cup {NextCloseable}
        /\ worker' = IF NextCloseable = "ingestion_maintenance_worker"
                     THEN [worker EXCEPT !.phase = "stopped"] ELSE worker
    BY <1>4, CloseOrder DEF Close
  <2>2. worker' \in W /\ (worker' = worker \/ worker'.phase = "stopped") /\ (worker'.timer <=> worker.timer)
    BY <1>1, <2>1
  <2>3. worker.phase \in {"stopping", "stopped"}
    BY <1>1, <2>1 DEF ShutdownOK
  <2>4. WorkerOK'
    BY <1>1, <2>1, <2>2, <2>3 DEF WorkerOK
  <2>5. /\ closed' \in {{}, {"http_server"}, {"http_server", "ingestion_maintenance_worker"},
                   {"http_server", "ingestion_maintenance_worker", "registry_database"}}
        /\ "ingestion_maintenance_worker" \in closed' => task[Cycle].pc \in {"new", "over"}
    <3>1. CASE closed = {}
      BY <2>1, <3>1, CloseOrder DEF NextCloseable
    <3>2. CASE closed = {"http_server"}
      BY <2>1, <3>2, CloseOrder DEF NextCloseable, MayClose
    <3>3. CASE closed = {"http_server", "ingestion_maintenance_worker"}
      BY <1>1, <2>1, <3>3, CloseOrder DEF NextCloseable, ShutdownOK
    <3>4. closed # {"http_server", "ingestion_maintenance_worker", "registry_database"}
      BY <2>1, CloseOrder
    <3> QED  BY <1>1, <3>1, <3>2, <3>3, <3>4 DEF ShutdownOK
  <2>6. ShutdownOK'
    BY <1>1, <2>1, <2>2, <2>3, <2>5 DEF ShutdownOK, laneVars
  <2> QED  BY <1>1, <2>1, <2>4, <2>6, LanesStay DEF RuntimeInv
<1>5. CASE Closed
  <2>1. /\ lifecycle = "closing" /\ lifecycle' = "closed" /\ UNCHANGED <<laneVars, task>>
        /\ worker' = worker /\ cycles' = cycles /\ expired' = expired /\ closed' = closed
    BY <1>5 DEF Closed
  <2>2. ShutdownOK'
    BY <1>1, <2>1 DEF ShutdownOK, laneVars
  <2> QED  BY <1>1, <2>1, <2>2, LanesStay, WorkerStays DEF RuntimeInv
<1> QED  BY <1>2, <1>3, <1>4, <1>5

LEMMA RuntimeStart ==
    ASSUME RuntimeInit
    PROVE  RuntimeInv
<1>1. \A t \in Tasks : task[t] = NewTask
  BY DEF RuntimeInit
<1>2. NewTask \in TaskRecords /\ NewTask.depth = 0 /\ NewTask.pc = "new"
  BY DEF NewTask, TaskRecords
<1>3. TasksOK
  <2>1. task \in [Tasks -> TaskRecords]
    BY <1>1, <1>2 DEF RuntimeInit
  <2> QED  BY <1>1, <1>2, <2>1, PathShape DEF TasksOK
<1>4. SlotsOK
  <2>1. active \in [Lanes -> SUBSET Tasks] /\ \A l \in Lanes : active[l] = {}
    BY DEF RuntimeInit
  <2>2. \A t \in Tasks, l \in Lanes : ~Enters(t, task[t].depth, l)
    BY <1>1, <1>2 DEF Enters
  <2>3. IsFiniteSet({}) /\ Cardinality({}) = 0
    BY FS_EmptySet
  <2>4. \A l \in Lanes : 0 <= Slots[l]
    BY RuntimeAssumption
  <2> QED  BY <2>1, <2>2, <2>3, <2>4 DEF SlotsOK
<1>5. QueuesOK
  <2>1. queue \in [Lanes -> Seq(Tasks)] /\ \A l \in Lanes : queue[l] = <<>>
    BY DEF RuntimeInit
  <2>2. Distinct(<<>>) /\ Len(<<>>) = 0 /\ \A s : ~Contains(<<>>, s)
    BY DEF Distinct, Contains
  <2>3. \A l \in Lanes : 0 <= QueueDepth[l]
    BY RuntimeAssumption
  <2> QED  BY <1>1, <1>2, <2>1, <2>2, <2>3 DEF QueuesOK
<1>6. WorkerOK
  <2>1. worker = [phase |-> "idle", timer |-> FALSE, step |-> 0] /\ cycles = 0
    BY DEF RuntimeInit
  <2>2. 0 \in 0..LastStep /\ cycles \in 0..MaxCycles
    BY <2>1, RuntimeAssumption DEF LastStep
  <2> HIDE DEF LastStep
  <2> QED  BY <2>1, <2>2 DEF WorkerOK
<1>7. ShutdownOK
  BY DEF RuntimeInit, ShutdownOK
<1> QED  BY <1>3, <1>4, <1>5, <1>6, <1>7 DEF RuntimeInit, RuntimeInv, LanesInv

\* The lanes, the worker and the shutdown keep to each other whatever the number of
\* tasks, slots, queue places and cycles (AdmissionLane, IngestionMaintenanceWorker,
\* DaemonLifecycle).
THEOREM RuntimeInvariant == RuntimeSpec => []RuntimeInv
<1>1. RuntimeInit => RuntimeInv
  BY RuntimeStart
<1>2. RuntimeInv /\ [RuntimeNext]_runtimeVars => RuntimeInv'
  <2> SUFFICES ASSUME RuntimeInv, [RuntimeNext]_runtimeVars PROVE RuntimeInv'
    OBVIOUS
  <2>1. CASE RuntimeNext
    <3>1. ASSUME NEW t \in Tasks, Arrive(t) \/ Abandon(t) \/ TaskEnds(t) PROVE RuntimeInv'
      BY <3>1, TasksStep, CycleStep DEF TaskEnds
    <3>2. ASSUME Start \/ RunCycle \/ EnterNested PROVE RuntimeInv'
      BY <3>2, CycleStep
    <3>3. ASSUME BeginDraining \/ ShutdownStep PROVE RuntimeInv'
      BY <3>3, ShutdownKeeps DEF ShutdownStep
    <3> QED  BY <2>1, <3>1, <3>2, <3>3 DEF RuntimeNext
  <2>2. CASE UNCHANGED runtimeVars
    <3>1. /\ UNCHANGED <<laneVars, task>> /\ UNCHANGED shutdownVars
          /\ worker' = worker /\ cycles' = cycles /\ active' = active /\ queue' = queue /\ task' = task
      BY <2>2 DEF runtimeVars, laneVars, shutdownVars
    <3> QED  BY <3>1, LanesStay, WorkerStays, ShutdownStays DEF RuntimeInv
  <2> QED  BY <2>1, <2>2
<1> QED  BY <1>1, <1>2, PTL DEF RuntimeSpec

\* No lane ever holds more tasks than it has slots or queues more than it has
\* places, and a task is in exactly the lanes its state says (admission.ts).
THEOREM RuntimeTypes == RuntimeSpec => []RuntimeTypeOK
<1>1. RuntimeInv => RuntimeTypeOK
  <2> SUFFICES ASSUME RuntimeInv PROVE RuntimeTypeOK
    OBVIOUS
  <2>1. LanesInv /\ WorkerOK /\ ShutdownOK /\ open \subseteq Lanes
    BY DEF RuntimeInv, LanesInv
  <2>2. ASSUME NEW t \in Tasks
        PROVE  task[t].pc \in {"new", "queued", "running", "over"} /\ task[t].depth \in 0..Len(Path(t))
    BY <2>1, PathShape DEF LanesInv, TasksOK, TaskRecords
  <2>3. ASSUME NEW l \in Lanes
        PROVE  /\ active[l] = {t \in Tasks : \E i \in 1..task[t].depth : Path(t)[i] = l}
               /\ ToSet(queue[l]) = {t \in Tasks : task[t].pc = "queued" /\ NextLane(t) = l}
               /\ IsInjective(queue[l])
               /\ Cardinality(active[l]) <= Slots[l] /\ Len(queue[l]) <= QueueDepth[l]
    <3>1. active[l] = {t \in Tasks : \E i \in 1..task[t].depth : Path(t)[i] = l}
      BY <2>1 DEF LanesInv, SlotsOK, Enters
    <3>2. queue[l] \in Seq(Tasks) /\ Distinct(queue[l])
      BY <2>1 DEF LanesInv, QueuesOK
    <3>3. DOMAIN queue[l] = 1..Len(queue[l]) /\ \A i \in 1..Len(queue[l]) : queue[l][i] \in Tasks
      BY <3>2
    <3>4. ToSet(queue[l]) = {t \in Tasks : Contains(queue[l], t)}
      BY <3>3 DEF ToSet, Contains
    <3>5. IsInjective(queue[l])
      BY <3>2, <3>3 DEF IsInjective, Distinct
    <3> QED  BY <2>1, <3>1, <3>4, <3>5 DEF LanesInv, SlotsOK, QueuesOK
  <2>4. /\ worker.phase \in {"idle", "scheduled", "running", "stopping", "stopped"}
        /\ worker.timer <=> worker.phase = "scheduled"
        /\ worker.step \in 0..LastStep /\ cycles \in 0..MaxCycles
    BY <2>1 DEF WorkerOK
  <2>5. closed \subseteq ToSet(Closeables)
    <3>1. {Closeables[1], Closeables[2], Closeables[3]} \subseteq ToSet(Closeables)
      BY DEF ToSet, Closeables
    <3> QED  BY <2>1, <3>1, CloseOrder DEF ShutdownOK
  <2> QED  BY <2>1, <2>2, <2>3, <2>4, <2>5 DEF RuntimeTypeOK, ShutdownOK
<1> QED  BY <1>1, RuntimeInvariant, PTL

\* Every step of an uninterrupted cycle has its turn, no cycle runs over a closed
\* database, and lanes that drained stay idle while resources close (runOnce,
\* IngestionMaintenanceWorker.stop, DaemonLifecycle).
THEOREM CyclesAreOrderly == RuntimeSpec => []OrderlyCycles
<1>1. RuntimeInv => OrderlyCycles
  <2> SUFFICES ASSUME RuntimeInv PROVE OrderlyCycles
    OBVIOUS
  <2>1. LanesInv /\ WorkerOK /\ ShutdownOK /\ Cycle \in Tasks
    BY CycleIsTask DEF RuntimeInv
  <2>2. worker.timer /\ cycles > 0 => worker.step = LastStep
    BY <2>1 DEF WorkerOK
  <2>3. task[Cycle].depth > 0 => "registry_database" \notin closed
    <3>1. "registry_database" \in closed => "ingestion_maintenance_worker" \in closed
      BY <2>1 DEF ShutdownOK
    <3>2. "ingestion_maintenance_worker" \in closed => task[Cycle].depth = 0
      BY <2>1 DEF ShutdownOK, LanesInv, TasksOK
    <3> QED  BY <3>1, <3>2
  <2>4. lifecycle \in {"closing", "closed"} /\ ~expired => \A l \in Lanes : LaneIdle(l)
    <3> SUFFICES ASSUME lifecycle \in {"closing", "closed"}, ~expired, NEW l \in Lanes PROVE LaneIdle(l)
      OBVIOUS
    <3>1. expired = FALSE
      BY <2>1 DEF ShutdownOK
    <3>2. active = [k \in Lanes |-> {}] /\ queue = [k \in Lanes |-> <<>>]
      BY <2>1, <3>1 DEF ShutdownOK
    <3> QED  BY <3>2 DEF LaneIdle
  <2> QED  BY <2>2, <2>3, <2>4 DEF OrderlyCycles
<1> QED  BY <1>1, RuntimeInvariant, PTL

-----------------------------------------------------------------------------
(* The delivery of publications: for any couriers, batch size, chain and   *)
(* faults, a publication that counts as delivered was consumed by          *)
(* Registry, and a delivery is never undone.                               *)

Answers == {"idle", "notify", "accepted", "refused"}

\* A courier at work has a batch, whatever the outbox holds meanwhile.
CouriersOK ==
    /\ courier \in [Couriers -> [pc : Answers, batch : Seq(Nat)]]
    /\ \A d \in Couriers : courier[d].pc # "idle" => courier[d].batch # <<>>

\* A courier that was answered with success has a consumed publication at the
\* head of its batch, and the answer stays true until it is written down.
AnswerStaysTrue ==
    \A d \in Couriers :
        courier[d].pc = "accepted" => Head(courier[d].batch) <= consumed

\* The parts of the state the two results speak about.
OutboxOK == outbox \in Seq(Row) /\ consumed \in Nat

DeliveryInv == OutboxOK /\ CouriersOK /\ AnswerStaysTrue /\ DeliveredIsConsumed

\* What every step does to the delivered publications: none is put back, and
\* a new one has been consumed.
KeepsDelivered ==
    \A p \in Publications :
        outbox[p].state = "delivered" => outbox'[p].state = "delivered"

DeliversConsumed ==
    \A p \in Publications' :
        outbox'[p].state = "delivered" =>
            \/ p \in Publications /\ outbox[p].state = "delivered"
            \/ p <= consumed'

-----------------------------------------------------------------------------
\* Registry never takes consumption back.
LEMMA ConsumptionGrows ==
    ASSUME consumed \in Nat, Registry!Consume \/ Registry!Extend \/ UNCHANGED registryVars
    PROVE  consumed' \in Nat /\ consumed <= consumed'
BY DEF Registry!Consume, Registry!Extend, registryVars

\* Answers given before more was consumed are still true, and so is
\* DeliveredIsConsumed.
LEMMA ConsumedLater ==
    ASSUME DeliveryInv, consumed' \in Nat, consumed <= consumed', OutboxOK',
           DeliversConsumed
    PROVE  DeliveredIsConsumed'
<1> SUFFICES ASSUME NEW p \in Publications', outbox'[p].state = "delivered"
             PROVE  p <= consumed'
  BY DEF DeliveredIsConsumed, Publications
<1>1. CASE p <= consumed'
  BY <1>1
<1>2. CASE p \in Publications /\ outbox[p].state = "delivered"
  <2>1. p <= consumed /\ p \in Nat /\ consumed \in Nat
    BY <1>2 DEF DeliveryInv, DeliveredIsConsumed, OutboxOK, Publications
  <2> QED  BY <2>1
<1> QED  BY <1>1, <1>2 DEF DeliversConsumed

\* A change of one row that does not touch delivered ones.
LEMMA RowChanges ==
    ASSUME OutboxOK, NEW p \in Publications, NEW row \in Row,
           outbox[p].state # "delivered",
           outbox' = [outbox EXCEPT ![p] = row], consumed' \in Nat
    PROVE  /\ OutboxOK' /\ KeepsDelivered
           /\ (row.state = "delivered" => p <= consumed') => DeliversConsumed
<1>1. outbox' \in Seq(Row) /\ Publications' = Publications
  BY DEF OutboxOK, Publications
<1>2. \A q \in Publications : outbox'[q] = IF q = p THEN row ELSE outbox[q]
  BY DEF OutboxOK, Publications
<1> QED  BY <1>1, <1>2 DEF OutboxOK, KeepsDelivered, DeliversConsumed

\* One courier's locals change.
LEMMA CourierChanges ==
    ASSUME CouriersOK, AnswerStaysTrue, consumed \in Nat,
           consumed' \in Nat, consumed <= consumed',
           NEW d \in Couriers, NEW pc \in Answers, NEW batch \in Seq(Nat),
           pc # "idle" => batch # <<>>,
           pc = "accepted" => Head(batch) <= consumed',
           courier' = [courier EXCEPT ![d] = [pc |-> pc, batch |-> batch]]
    PROVE  CouriersOK' /\ AnswerStaysTrue'
<1>1. courier' \in [Couriers -> [pc : Answers, batch : Seq(Nat)]]
  BY DEF CouriersOK
<1>2. \A c \in Couriers : courier'[c] = IF c = d THEN [pc |-> pc, batch |-> batch]
                                                 ELSE courier[c]
  BY DEF CouriersOK
<1>3. CouriersOK'
  BY <1>1, <1>2 DEF CouriersOK
<1>4. ASSUME NEW c \in Couriers, courier'[c].pc = "accepted"
      PROVE  Head(courier'[c].batch) <= consumed'
  <2>1. CASE c = d
    BY <1>2, <1>4, <2>1
  <2>2. CASE c # d
    <3>1. courier[c].pc = "accepted" /\ courier'[c] = courier[c]
      BY <1>2, <1>4, <2>2
    <3>2. Head(courier[c].batch) <= consumed /\ Head(courier[c].batch) \in Nat
      BY <3>1 DEF AnswerStaysTrue, CouriersOK
    <3> QED  BY <3>1, <3>2
  <2> QED  BY <2>1, <2>2
<1> QED  BY <1>3, <1>4 DEF AnswerStaysTrue

\* The couriers stand still while Registry may go on.
LEMMA CouriersWait ==
    ASSUME CouriersOK, AnswerStaysTrue, consumed \in Nat,
           consumed' \in Nat, consumed <= consumed', UNCHANGED courier
    PROVE  CouriersOK' /\ AnswerStaysTrue'
<1>1. CouriersOK'
  BY DEF CouriersOK
<1>2. ASSUME NEW c \in Couriers, courier'[c].pc = "accepted"
      PROVE  Head(courier'[c].batch) <= consumed'
  <2>1. Head(courier[c].batch) <= consumed /\ Head(courier[c].batch) \in Nat
    BY <1>2 DEF AnswerStaysTrue, CouriersOK
  <2> QED  BY <2>1
<1> QED  BY <1>1, <1>2 DEF AnswerStaysTrue

\* The outbox stands still.
LEMMA OutboxWaits ==
    ASSUME OutboxOK, UNCHANGED outbox, consumed' \in Nat
    PROVE  OutboxOK' /\ KeepsDelivered /\ DeliversConsumed
BY DEF OutboxOK, KeepsDelivered, DeliversConsumed, Publications

\* The goal of each action.
Good == DeliveryInv' /\ KeepsDelivered

\* The parts of a step put together.
LEMMA StepParts ==
    ASSUME DeliveryInv, consumed' \in Nat, consumed <= consumed',
           OutboxOK', KeepsDelivered, DeliversConsumed, CouriersOK', AnswerStaysTrue'
    PROVE  Good
BY ConsumedLater DEF Good, DeliveryInv

-----------------------------------------------------------------------------
\* The inductive invariant holds initially.
LEMMA DeliveryInvInit == DeliveryInit => DeliveryInv
<1> SUFFICES ASSUME DeliveryInit PROVE DeliveryInv  OBVIOUS
<1>1. /\ consumed = 0 /\ outbox = <<>>
      /\ courier = [d \in Couriers |-> [pc |-> "idle", batch |-> <<>>]]
  BY DEF DeliveryInit, Registry!Init, Idle
<1>2. OutboxOK
  BY <1>1 DEF OutboxOK
<1>3. CouriersOK
  BY <1>1 DEF CouriersOK, Answers
<1>4. AnswerStaysTrue /\ DeliveredIsConsumed
  BY <1>1 DEF AnswerStaysTrue, DeliveredIsConsumed, Publications
<1> QED  BY <1>2, <1>3, <1>4 DEF DeliveryInv

\* commitReady adds a pending row.
LEMMA CommitReadyStep ==
    ASSUME DeliveryInv, CommitReady PROVE Good
<1>1. consumed' \in Nat /\ consumed <= consumed' /\ consumed \in Nat
  BY ConsumptionGrows DEF CommitReady, DeliveryInv, OutboxOK
<1>2. CouriersOK' /\ AnswerStaysTrue'
  BY <1>1, CouriersWait DEF CommitReady, DeliveryInv
<1>3. PICK at \in 1..MaxPublications :
        outbox' = Append(outbox, [state |-> "pending", owner |-> NoOwner,
                                  ripe |-> TRUE, producedAt |-> at])
  BY DEF CommitReady
<1> DEFINE row == [state |-> "pending", owner |-> NoOwner, ripe |-> TRUE, producedAt |-> at]
<1>4. row \in Row /\ row.state = "pending"
  BY DEF Row
<1> HIDE DEF row
<1>5. outbox \in Seq(Row) /\ outbox' = Append(outbox, row)
  BY <1>3 DEF DeliveryInv, OutboxOK, row
<1>6. /\ outbox' \in Seq(Row) /\ Publications = 1..Len(outbox)
      /\ Publications' = 1..(Len(outbox) + 1) /\ Len(outbox) \in Nat
      /\ \A p \in Publications : outbox'[p] = outbox[p]
      /\ outbox'[Len(outbox) + 1] = row
  BY <1>4, <1>5 DEF Publications
<1>7. KeepsDelivered
  BY <1>6 DEF KeepsDelivered
<1>8. DeliversConsumed
  BY <1>4, <1>6 DEF DeliversConsumed
<1>9. OutboxOK'
  BY <1>1, <1>6 DEF OutboxOK
<1> QED  BY <1>1, <1>2, <1>7, <1>8, <1>9, StepParts

\* Ripen and Lapse change whether a row is due.
LEMMA RipeStep ==
    ASSUME DeliveryInv, NEW p \in Publications,
           Ripen(p) \/ Lapse(p)
    PROVE  Good
<1>1. outbox[p].state # "delivered"
  BY DEF Ripen, Lapse, InHand, Holds
<1>2. /\ outbox' = [outbox EXCEPT ![p].ripe = TRUE]
      /\ UNCHANGED registryVars /\ UNCHANGED courier
  BY DEF Ripen, Lapse
<1>3. consumed' \in Nat /\ consumed <= consumed' /\ consumed \in Nat
  BY <1>2, ConsumptionGrows DEF DeliveryInv, OutboxOK
<1> DEFINE row == [outbox[p] EXCEPT !.ripe = TRUE]
<1>4. /\ row \in Row /\ row.state = outbox[p].state
      /\ outbox' = [outbox EXCEPT ![p] = row]
  <2>1. ASSUME NEW r \in Row
        PROVE  [r EXCEPT !.ripe = TRUE] \in Row /\ [r EXCEPT !.ripe = TRUE].state = r.state
    BY DEF Row
  <2>2. outbox[p] \in Row
    BY DEF DeliveryInv, OutboxOK, Publications
  <2>3. row \in Row /\ row.state = outbox[p].state
    BY <2>1, <2>2
  <2> QED  BY <1>2, <2>3
<1> HIDE DEF row
<1>5. OutboxOK' /\ KeepsDelivered /\ DeliversConsumed
  BY <1>1, <1>3, <1>4, RowChanges DEF DeliveryInv
<1>6. CouriersOK' /\ AnswerStaysTrue'
  BY <1>2, <1>3, CouriersWait DEF DeliveryInv
<1> QED  BY <1>3, <1>5, <1>6, StepParts

\* claimReadyBatch takes rows that are not delivered.
LEMMA ClaimStep ==
    ASSUME DeliveryInv, NEW d \in Couriers, ClaimReadyBatch(d) PROVE Good
<1>1. PICK n \in 1..BatchSize : \E b \in [1..n -> Claimable] :
         /\ outbox' = [p \in Publications |->
                         IF p \in ToSet(b) THEN Claimed(outbox[p], d) ELSE outbox[p]]
         /\ courier' = [courier EXCEPT ![d] = [pc |-> "notify", batch |-> b]]
  BY DEF ClaimReadyBatch
<1>2. PICK b \in [1..n -> Claimable] :
         /\ outbox' = [p \in Publications |->
                         IF p \in ToSet(b) THEN Claimed(outbox[p], d) ELSE outbox[p]]
         /\ courier' = [courier EXCEPT ![d] = [pc |-> "notify", batch |-> b]]
  BY <1>1
<1>3. consumed' \in Nat /\ consumed <= consumed' /\ consumed \in Nat
  BY ConsumptionGrows DEF ClaimReadyBatch, DeliveryInv, OutboxOK
<1>4. outbox \in Seq(Row) /\ Publications = 1..Len(outbox) /\ Len(outbox) \in Nat
  BY DEF DeliveryInv, OutboxOK, Publications
<1>5. \A p \in ToSet(b) : p \in Publications /\ outbox[p].state # "delivered"
  BY DEF ToSet, Claimable
<1>6. \A p \in Publications : Claimed(outbox[p], d) \in Row
                               /\ Claimed(outbox[p], d).state = "delivering"
  <2>1. ASSUME NEW row \in Row
        PROVE  Claimed(row, d) \in Row /\ Claimed(row, d).state = "delivering"
    BY DEF Claimed, Row
  <2> QED  BY <1>4, <2>1
<1>7. outbox' \in Seq(Row) /\ Publications' = Publications
  <2>1. outbox' \in [1..Len(outbox) -> Row]
    BY <1>2, <1>4, <1>6
  <2> QED  BY <2>1, <1>4 DEF Publications
<1>8. \A p \in Publications :
         outbox'[p] = IF p \in ToSet(b) THEN Claimed(outbox[p], d) ELSE outbox[p]
  BY <1>2
<1>9. OutboxOK' /\ KeepsDelivered /\ DeliversConsumed
  BY <1>3, <1>5, <1>6, <1>7, <1>8 DEF OutboxOK, KeepsDelivered, DeliversConsumed
<1>10. b \in Seq(Nat) /\ b # <<>>
  <2>1. n \in Nat /\ n >= 1 /\ Claimable \subseteq Nat
    BY <1>4, DeliveryAssumption DEF Claimable
  <2>2. b \in [1..n -> Nat]
    BY <2>1
  <2>3. b \in Seq(Nat) /\ Len(b) = n
    BY <2>1, <2>2
  <2> QED  BY <2>1, <2>3
<1>11. CouriersOK' /\ AnswerStaysTrue'
  BY <1>2, <1>3, <1>10, CourierChanges DEF DeliveryInv, Answers
<1> QED  BY <1>3, <1>9, <1>11, StepParts

\* A courier's locals, in a form CourierChanges can use.
LEMMA CourierLocals ==
    ASSUME CouriersOK, NEW d \in Couriers
    PROVE  /\ courier[d].batch \in Seq(Nat) /\ courier[d].pc \in Answers
           /\ courier[d].pc # "idle" =>
                /\ courier[d].batch # <<>>
                /\ Head(courier[d].batch) \in Nat
                /\ Tail(courier[d].batch) \in Seq(Nat)
           /\ \A pc \in Answers :
                [courier EXCEPT ![d].pc = pc] =
                  [courier EXCEPT ![d] = [pc |-> pc, batch |-> courier[d].batch]]
<1>1. courier[d].batch \in Seq(Nat) /\ courier[d].pc \in Answers
  BY DEF CouriersOK
<1>2. courier[d].pc # "idle" => courier[d].batch # <<>>
  BY DEF CouriersOK
<1>3. courier[d].batch # <<>> =>
         Head(courier[d].batch) \in Nat /\ Tail(courier[d].batch) \in Seq(Nat)
  BY <1>1
<1>4. ASSUME NEW pc \in Answers
      PROVE  [courier EXCEPT ![d].pc = pc] =
                [courier EXCEPT ![d] = [pc |-> pc, batch |-> courier[d].batch]]
  <2>1. ASSUME NEW r \in [pc : Answers, batch : Seq(Nat)]
        PROVE  [r EXCEPT !.pc = pc] = [pc |-> pc, batch |-> r.batch]
    OBVIOUS
  <2>2. courier[d] \in [pc : Answers, batch : Seq(Nat)]
    BY DEF CouriersOK
  <2>3. [courier[d] EXCEPT !.pc = pc] = [pc |-> pc, batch |-> courier[d].batch]
    BY <2>1, <2>2
  <2> QED  BY <2>3
<1> QED  BY <1>1, <1>2, <1>3, <1>4

\* Registry answers a notification.
LEMMA NotifyStep ==
    ASSUME DeliveryInv, NEW d \in Couriers, Notify(d) PROVE Good
<1>1. /\ courier[d].pc = "notify" /\ UNCHANGED outbox
      /\ CouriersOK /\ AnswerStaysTrue /\ OutboxOK /\ consumed \in Nat
  BY DEF Notify, DeliveryInv, OutboxOK
<1> DEFINE p == Head(courier[d].batch)
<1>2. p \in Nat /\ courier[d].batch # <<>> /\ courier[d].batch \in Seq(Nat)
  BY <1>1, CourierLocals
<1>3. PICK answer \in {"accepted", "refused"} :
        /\ Answered(d, answer)
        /\ Registry!Consume \/ UNCHANGED registryVars
        /\ answer = "accepted" => p <= consumed'
  <2>1. CASE p <= consumed /\ Answered(d, "accepted") /\ UNCHANGED registryVars
    BY <2>1 DEF registryVars
  <2>2. CASE p = consumed + 1 /\ Answered(d, "accepted") /\ Registry!Consume
    <3>1. p <= consumed'
      BY <1>1, <2>2 DEF Registry!Consume
    <3> QED  BY <2>2, <3>1
  <2>3. CASE p > consumed + 1 /\ Refused(d)
    BY <2>3 DEF Refused
  <2> QED  BY <2>1, <2>2, <2>3 DEF Notify
<1>4. consumed' \in Nat /\ consumed <= consumed'
  BY <1>1, <1>3, ConsumptionGrows
<1>5. courier' = [courier EXCEPT ![d] = [pc |-> answer, batch |-> courier[d].batch]]
  BY <1>1, <1>3, CourierLocals DEF Answered, Answers
<1>6. CouriersOK' /\ AnswerStaysTrue'
  <2> HIDE DEF p
  <2>1. answer \in Answers /\ (answer = "accepted" => Head(courier[d].batch) <= consumed')
    BY <1>3 DEF Answers, p
  <2> QED  BY <1>1, <1>2, <1>4, <1>5, <2>1, CourierChanges
<1>7. OutboxOK' /\ KeepsDelivered /\ DeliversConsumed
  BY <1>1, <1>4, OutboxWaits
<1> QED  BY <1>4, <1>6, <1>7, StepParts

\* A notification that throws is a refusal, whatever Registry did.
LEMMA NotifyFailsStep ==
    ASSUME DeliveryInv, NEW d \in Couriers, NotifyFails(d) PROVE Good
<1>1. /\ courier[d].pc = "notify" /\ UNCHANGED outbox
      /\ Registry!Consume \/ UNCHANGED registryVars
      /\ CouriersOK /\ AnswerStaysTrue /\ OutboxOK /\ consumed \in Nat
  BY DEF NotifyFails, DeliveryInv, OutboxOK
<1>2. consumed' \in Nat /\ consumed <= consumed'
  BY <1>1, ConsumptionGrows
<1>3. courier' = [courier EXCEPT ![d] = [pc |-> "refused", batch |-> courier[d].batch]]
  BY <1>1, CourierLocals DEF NotifyFails, Answered, Answers
<1>4. courier[d].batch # <<>> /\ courier[d].batch \in Seq(Nat)
  BY <1>1, CourierLocals
<1>5. CouriersOK' /\ AnswerStaysTrue'
  BY <1>1, <1>2, <1>3, <1>4, CourierChanges DEF Answers
<1>6. OutboxOK' /\ KeepsDelivered /\ DeliversConsumed
  BY <1>1, <1>2, OutboxWaits
<1> QED  BY <1>2, <1>5, <1>6, StepParts

\* A courier that goes on to the next notification, or gives up its batch.
LEMMA CourierGoesOn ==
    ASSUME DeliveryInv, NEW d \in Couriers, courier[d].pc # "idle",
           Advance(d) \/ courier' = [courier EXCEPT ![d] = Idle],
           consumed' \in Nat, consumed <= consumed'
    PROVE  CouriersOK' /\ AnswerStaysTrue'
<1>1. CouriersOK /\ AnswerStaysTrue /\ consumed \in Nat
  BY DEF DeliveryInv, OutboxOK
<1>2. Tail(courier[d].batch) \in Seq(Nat)
  BY <1>1, CourierLocals
<1>3. CASE courier' = [courier EXCEPT ![d] = Idle]
  <2>1. <<>> \in Seq(Nat) /\ "idle" \in Answers
    BY DEF Answers
  <2> QED  BY <1>1, <1>3, <2>1, CourierChanges DEF Idle
<1>4. CASE courier' = [courier EXCEPT ![d] = [pc |-> "notify", batch |-> Tail(courier[d].batch)]]
           /\ Tail(courier[d].batch) # <<>>
  <2>1. "notify" \in Answers
    BY DEF Answers
  <2> QED  BY <1>1, <1>2, <1>4, <2>1, CourierChanges
<1> QED  BY <1>3, <1>4 DEF Advance

\* completeReadyDelivery marks a row whose publication was consumed, or finds
\* that it lost the row.
LEMMA CompleteStep ==
    ASSUME DeliveryInv, NEW d \in Couriers, Complete(d) PROVE Good
<1> DEFINE p == Head(courier[d].batch)
<1>1. /\ courier[d].pc = "accepted" /\ UNCHANGED registryVars
      /\ CouriersOK /\ AnswerStaysTrue /\ OutboxOK
  BY DEF Complete, DeliveryInv
<1>2. consumed' \in Nat /\ consumed <= consumed' /\ consumed \in Nat /\ p \in Nat
  BY <1>1, ConsumptionGrows, CourierLocals DEF OutboxOK
<1>3. p <= consumed'
  BY <1>1 DEF AnswerStaysTrue, registryVars
<1>4. CouriersOK' /\ AnswerStaysTrue'
  BY <1>1, <1>2, CourierGoesOn DEF Complete, LoseBatch
<1>5. OutboxOK' /\ KeepsDelivered /\ DeliversConsumed
  <2> HIDE DEF p
  <2>1. CASE UNCHANGED outbox
    BY <1>1, <1>2, <2>1, OutboxWaits
  <2>2. CASE /\ Holds(d, p) /\ p \in Publications
             /\ outbox' = [outbox EXCEPT ![p].state = "delivered", ![p].owner = NoOwner]
    <3>1. ASSUME NEW r \in Row
          PROVE  [r EXCEPT !.state = "delivered", !.owner = NoOwner] \in Row
      BY DEF Row
    <3>2. outbox[p] \in Row
      BY <1>1, <2>2 DEF OutboxOK, Publications
    <3> DEFINE row == [outbox[p] EXCEPT !.state = "delivered", !.owner = NoOwner]
    <3>3. row \in Row /\ outbox' = [outbox EXCEPT ![p] = row]
      BY <2>2, <3>1, <3>2 DEF Publications
    <3>4. outbox[p].state # "delivered"
      BY <2>2 DEF Holds
    <3> HIDE DEF row
    <3> QED  BY <1>1, <1>2, <1>3, <2>2, <3>3, <3>4, RowChanges
  <2>3. CASE /\ p \notin Publications
             /\ outbox' = [outbox EXCEPT ![p].state = "delivered", ![p].owner = NoOwner]
    <3>1. UNCHANGED outbox
      BY <1>1, <2>3 DEF OutboxOK, Publications
    <3> QED  BY <2>1, <3>1
  <2> QED  BY <2>1, <2>2, <2>3 DEF Complete, LoseBatch, p
<1> QED  BY <1>2, <1>4, <1>5, StepParts

\* rescheduleReadyDelivery puts back only a row the courier still holds, which
\* is then not a delivered one.
LEMMA RescheduleStep ==
    ASSUME DeliveryInv, NEW d \in Couriers, Reschedule(d) PROVE Good
<1> DEFINE p == Head(courier[d].batch)
<1>1. /\ courier[d].pc = "refused" /\ UNCHANGED registryVars
      /\ CouriersOK /\ AnswerStaysTrue /\ OutboxOK
  BY DEF Reschedule, DeliveryInv
<1>2. consumed' \in Nat /\ consumed <= consumed' /\ consumed \in Nat
  BY <1>1, ConsumptionGrows DEF OutboxOK
<1>3. CouriersOK' /\ AnswerStaysTrue'
  BY <1>1, <1>2, CourierGoesOn DEF Reschedule, LoseBatch
<1>4. OutboxOK' /\ KeepsDelivered /\ DeliversConsumed
  <2> HIDE DEF p
  <2>1. CASE UNCHANGED outbox
    BY <1>1, <1>2, <2>1, OutboxWaits
  <2>2. CASE /\ Holds(d, p) /\ p \in Publications
             /\ outbox' = [outbox EXCEPT ![p].state = "pending", ![p].owner = NoOwner,
                                         ![p].ripe = FALSE]
    <3>1. ASSUME NEW r \in Row
          PROVE  /\ [r EXCEPT !.state = "pending", !.owner = NoOwner, !.ripe = FALSE] \in Row
                 /\ [r EXCEPT !.state = "pending", !.owner = NoOwner,
                              !.ripe = FALSE].state = "pending"
      BY DEF Row
    <3>2. outbox[p] \in Row
      BY <1>1, <2>2 DEF OutboxOK, Publications
    <3> DEFINE row == [outbox[p] EXCEPT !.state = "pending", !.owner = NoOwner, !.ripe = FALSE]
    <3>3. row \in Row /\ row.state = "pending" /\ outbox' = [outbox EXCEPT ![p] = row]
      BY <2>2, <3>1, <3>2 DEF Publications
    <3>4. outbox[p].state # "delivered"
      BY <2>2 DEF Holds
    <3> HIDE DEF row
    <3> QED  BY <1>1, <1>2, <2>2, <3>3, <3>4, RowChanges
  <2>3. CASE /\ p \notin Publications
             /\ outbox' = [outbox EXCEPT ![p].state = "pending", ![p].owner = NoOwner,
                                         ![p].ripe = FALSE]
    <3>1. UNCHANGED outbox
      BY <1>1, <2>3 DEF OutboxOK, Publications
    <3> QED  BY <2>1, <3>1
  <2> QED  BY <2>1, <2>2, <2>3 DEF Reschedule, LoseBatch, p
<1> QED  BY <1>2, <1>3, <1>4, StepParts

\* A courier that stops leaves its rows claimed.
LEMMA StopStep ==
    ASSUME DeliveryInv, NEW d \in Couriers, Stop(d) PROVE Good
<1>1. /\ courier[d].pc # "idle" /\ UNCHANGED registryVars /\ UNCHANGED outbox
      /\ courier' = [courier EXCEPT ![d] = Idle] /\ OutboxOK
  BY DEF Stop, DeliveryInv
<1>2. consumed' \in Nat /\ consumed <= consumed'
  BY <1>1, ConsumptionGrows DEF OutboxOK
<1>3. CouriersOK' /\ AnswerStaysTrue'
  BY <1>1, <1>2, CourierGoesOn
<1>4. OutboxOK' /\ KeepsDelivered /\ DeliversConsumed
  BY <1>1, <1>2, OutboxWaits
<1> QED  BY <1>2, <1>3, <1>4, StepParts

\* An `ingest` command has Registry consume, the outbox and the couriers wait.
LEMMA IngestClaimStep ==
    ASSUME DeliveryInv, IngestClaim PROVE Good
<1>1. /\ Registry!Consume /\ UNCHANGED outbox /\ UNCHANGED courier
      /\ CouriersOK /\ AnswerStaysTrue /\ OutboxOK /\ consumed \in Nat
  BY DEF IngestClaim, DeliveryInv, OutboxOK
<1>2. consumed' \in Nat /\ consumed <= consumed'
  BY <1>1, ConsumptionGrows
<1>3. CouriersOK' /\ AnswerStaysTrue'
  BY <1>1, <1>2, CouriersWait
<1>4. OutboxOK' /\ KeepsDelivered /\ DeliversConsumed
  BY <1>1, <1>2, OutboxWaits
<1> QED  BY <1>2, <1>3, <1>4, StepParts

\* Every step keeps the invariant and the delivered publications.
LEMMA DeliveryStep == DeliveryInv /\ [DeliveryNext]_deliveryVars => Good
<1> SUFFICES ASSUME DeliveryInv, [DeliveryNext]_deliveryVars PROVE Good  OBVIOUS
<1>1. CASE UNCHANGED deliveryVars
  BY <1>1 DEF deliveryVars, Good, DeliveryInv, OutboxOK, CouriersOK, AnswerStaysTrue,
              DeliveredIsConsumed, KeepsDelivered, Publications
<1>2. CASE CommitReady
  BY <1>2, CommitReadyStep
<1>3. CASE IngestClaim
  BY <1>3, IngestClaimStep
<1>4. CASE \E p \in Publications : Ripen(p) \/ Lapse(p)
  BY <1>4, RipeStep
<1>5. ASSUME NEW d \in Couriers,
             ClaimReadyBatch(d) \/ CourierStep(d) \/ NotifyFails(d) \/ Stop(d)
      PROVE  Good
  BY <1>5, ClaimStep, NotifyStep, CompleteStep, RescheduleStep, NotifyFailsStep, StopStep
     DEF CourierStep
<1> QED  BY <1>1, <1>2, <1>3, <1>4, <1>5 DEF DeliveryNext

-----------------------------------------------------------------------------
\* The invariant holds throughout.
THEOREM DeliveryInvariant == DeliverySpec => []DeliveryInv
<1>1. DeliveryInit => DeliveryInv
  BY DeliveryInvInit
<1>2. DeliveryInv /\ [DeliveryNext]_deliveryVars => DeliveryInv'
  BY DeliveryStep DEF Good
<1> QED  BY <1>1, <1>2, PTL DEF DeliverySpec

\* A publication that counts as delivered has been consumed by Registry,
\* however couriers overtake each other, fail, stop and lose their leases
\* (completeReadyDelivery, registry-publication-ready-notifier.ts).
THEOREM DeliveredAlwaysConsumed == DeliverySpec => []DeliveredIsConsumed
<1>1. DeliveryInv => DeliveredIsConsumed
  BY DEF DeliveryInv
<1> QED  BY <1>1, DeliveryInvariant, PTL

\* A delivery is never undone: a courier's late failure puts back only a row
\* it still holds (rescheduleReadyDelivery).
THEOREM DeliveryNeverUndone == DeliverySpec => DeliveredStays
<1>1. DeliveryInv /\ [DeliveryNext]_deliveryVars => KeepsDelivered
  BY DeliveryStep DEF Good
<1>2. DeliveryInv /\ [DeliveryNext]_deliveryVars =>
        [\A p \in Publications :
            outbox[p].state = "delivered" => outbox'[p].state = "delivered"]_deliveryVars
  BY <1>1 DEF KeepsDelivered
<1> QED  BY <1>2, DeliveryInvariant, PTL DEF DeliverySpec, DeliveredStays

-----------------------------------------------------------------------------
(***************************************************************************)
(* The scheduler of the inference session                                  *)
(***************************************************************************)
-----------------------------------------------------------------------------
(* Queues without repetition                                               *)

\* The first n entries of a queue are n calls.
LEMMA PrefixCount ==
    ASSUME NEW S, NEW q \in Seq(S), Distinct(q), NEW n \in 0 .. Len(q)
    PROVE  /\ IsFiniteSet({q[i] : i \in 1 .. n})
           /\ Cardinality({q[i] : i \in 1 .. n}) = n
<1> DEFINE T == {q[i] : i \in 1 .. n}
           f == [i \in 1 .. n |-> q[i]]
<1>1. f \in Bijection(1 .. n, T)
  BY DEF Distinct, Bijection, Injection, Surjection, IsInjective
<1>2. ExistsBijection(1 .. n, T)
  BY <1>1 DEF ExistsBijection
<1>3. IsFiniteSet(1 .. n) /\ n \in Nat
  BY FS_Interval
<1>4. QED
  BY <1>2, <1>3, FS_Bijection, FS_CountingElements

\* What is left of a queue after n entries are taken.
LEMMA DroppedQueue ==
    ASSUME NEW S, NEW q \in Seq(S), Distinct(q), NEW n \in 0 .. Len(q)
    PROVE  /\ Dropped(q, n) \in Seq(S) /\ Len(Dropped(q, n)) = Len(q) - n
           /\ Distinct(Dropped(q, n))
           /\ Elements(Dropped(q, n)) \subseteq Elements(q)
           /\ {q[i] : i \in 1 .. n} \subseteq Elements(q)
           /\ Elements(Dropped(q, n)) \cap {q[i] : i \in 1 .. n} = {}
<1> DEFINE d == Dropped(q, n)
<1>1. \A i \in (n + 1) .. Len(q) : q[i] \in S
  BY ElementOfSeq
<1>2. d \in Seq(S) /\ Len(d) = Len(q) - n /\ \A i \in 1 .. Len(q) - n : d[i] = q[n + i]
  BY <1>1, SubSeqProperties DEF Dropped
<1>3. Len(q) \in Nat /\ \A i \in 1 .. Len(d) : n + i \in 1 .. Len(q) /\ d[i] = q[n + i]
  BY <1>2
<1>4. Distinct(d)
  <2>1. SUFFICES ASSUME NEW i \in 1 .. Len(d), NEW j \in 1 .. Len(d), d[i] = d[j]
                 PROVE  i = j
    BY DEF Distinct
  <2>2. n + i = n + j
    BY <1>3, <2>1 DEF Distinct
  <2>3. QED
    BY <2>2
<1>5. Elements(d) \subseteq Elements(q)
  BY <1>3 DEF Elements
<1>6. {q[i] : i \in 1 .. n} \subseteq Elements(q)
  BY DEF Elements
<1>7. ASSUME NEW i \in 1 .. Len(d), NEW j \in 1 .. n, d[i] = q[j] PROVE FALSE
  <2>1. n + i = j
    BY <1>3, <1>7 DEF Distinct
  <2>2. QED
    BY <2>1
<1>8. Elements(d) \cap {q[i] : i \in 1 .. n} = {}
  BY <1>7 DEF Elements
<1>9. QED
  BY <1>2, <1>4, <1>5, <1>6, <1>8

\* What is left of a queue after one entry is removed.
LEMMA WithoutQueue ==
    ASSUME NEW S, NEW q \in Seq(S), Distinct(q), NEW k \in 1 .. Len(q)
    PROVE  /\ Without(q, k) \in Seq(S) /\ Len(Without(q, k)) = Len(q) - 1
           /\ Distinct(Without(q, k))
           /\ Elements(Without(q, k)) \subseteq Elements(q) \ {q[k]}
<1> DEFINE a == SubSeq(q, 1, k - 1)
           b == SubSeq(q, k + 1, Len(q))
           w == Without(q, k)
<1>1. a \in Seq(S) /\ Len(a) = k - 1 /\ \A i \in 1 .. k - 1 : a[i] = q[i]
  BY SubSeqProperties, ElementOfSeq
<1>2. b \in Seq(S) /\ Len(b) = Len(q) - k /\ \A i \in 1 .. Len(q) - k : b[i] = q[k + i]
  BY SubSeqProperties, ElementOfSeq
<1>3. /\ a \o b \in Seq(S) /\ Len(a \o b) = Len(a) + Len(b)
      /\ \A i \in 1 .. Len(a) + Len(b) :
           (a \o b)[i] = IF i <= Len(a) THEN a[i] ELSE b[i - Len(a)]
  BY <1>1, <1>2, ConcatProperties
<1>4. w = a \o b
  BY DEF Without
<1>0. Len(q) \in Nat /\ k \in Nat /\ 1 <= k /\ k <= Len(q)
  BY LenProperties
<1> HIDE DEF a, b, w
<1>5. w \in Seq(S) /\ Len(w) = Len(q) - 1
  <2>1. Len(a) + Len(b) = Len(q) - 1
    BY <1>0, <1>1, <1>2
  <2>2. QED
    BY <2>1, <1>3, <1>4
<1>6. ASSUME NEW i \in 1 .. Len(w)
      PROVE  w[i] = IF i < k THEN q[i] ELSE q[i + 1]
  <2>1. CASE i < k
    <3>1. i \in 1 .. k - 1 /\ i <= Len(a) /\ i \in 1 .. Len(a) + Len(b)
      BY <1>0, <1>1, <1>2, <1>5, <2>1
    <3>2. QED
      BY <1>1, <1>3, <1>4, <2>1, <3>1
  <2>2. CASE ~(i < k)
    <3>1. i - (k - 1) \in 1 .. Len(q) - k /\ k + (i - (k - 1)) = i + 1
      BY <1>5, <2>2
    <3>2. i \in 1 .. Len(a) + Len(b) /\ ~(i <= Len(a)) /\ i - Len(a) = i - (k - 1)
      BY <1>0, <1>1, <1>2, <1>5, <2>2
    <3>3. w[i] = b[i - (k - 1)]
      BY <1>3, <1>4, <3>2
    <3>4. b[i - (k - 1)] = q[k + (i - (k - 1))]
      BY <1>2, <3>1
    <3>5. QED
      BY <2>2, <3>1, <3>3, <3>4
  <2>3. QED
    BY <2>1, <2>2
<1>7. Distinct(w)
  <2>1. SUFFICES ASSUME NEW i \in 1 .. Len(w), NEW j \in 1 .. Len(w), w[i] = w[j]
                 PROVE  i = j
    BY DEF Distinct
  <2>2. (IF i < k THEN i ELSE i + 1) = (IF j < k THEN j ELSE j + 1)
    BY <1>5, <1>6, <2>1 DEF Distinct
  <2>3. QED
    BY <2>2
<1>8. ASSUME NEW i \in 1 .. Len(w)
      PROVE  w[i] \in Elements(q) /\ w[i] # q[k]
  <2>1. PICK j \in 1 .. Len(q) : j # k /\ w[i] = q[j]
    BY <1>5, <1>6
  <2>2. QED
    BY <2>1 DEF Distinct, Elements
<1>9. Elements(w) \subseteq Elements(q) \ {q[k]}
  BY <1>8 DEF Elements
<1>10. QED
  BY <1>5, <1>7, <1>9 DEF w

\* A queue after a new entry joins it.
LEMMA AppendQueue ==
    ASSUME NEW S, NEW q \in Seq(S), Distinct(q), NEW x \in S, x \notin Elements(q)
    PROVE  /\ Append(q, x) \in Seq(S) /\ Len(Append(q, x)) = Len(q) + 1
           /\ Distinct(Append(q, x))
           /\ Elements(Append(q, x)) = Elements(q) \cup {x}
BY DEF Distinct, Elements

-----------------------------------------------------------------------------
(* What #drain does                                                        *)

LEMMA EmptyQueue ==
    ASSUME NEW S, NEW q \in Seq(S)
    PROVE  /\ Len(q) \in Nat /\ (q = <<>> <=> Len(q) = 0)
           /\ (Len(q) = 0 => Elements(q) = {})
BY EmptySeq, LenProperties DEF Elements

LEMMA ElementsType ==
    ASSUME NEW S, NEW q \in Seq(S)
    PROVE  Elements(q) \subseteq S
BY ElementOfSeq DEF Elements

\* #drain starts the calls at the heads of the queues, as many as there are
\* free slots, background calls only after every resolve call has started.
LEMMA DrainedQueues ==
    ASSUME SchedulerTypeOK, accepting, NEW working \in SUBSET running,
           NEW pending \in BOOLEAN, NEW suppressed \in BOOLEAN,
           Drain(working, pending, suppressed)
    PROVE  \E r \in 0 .. Len(resolveQueue), b \in 0 .. Len(backgroundQueue) :
             LET R == {resolveQueue[i] : i \in 1 .. r}
                 B == {backgroundQueue[i] : i \in 1 .. b}
             IN  /\ resolveQueue' = Dropped(resolveQueue, r)
                 /\ backgroundQueue' = Dropped(backgroundQueue, b)
                 /\ running' = working \cup R \cup B
                 /\ IsFiniteSet(running')
                 /\ Cardinality(running') = Cardinality(working) + r + b
                 /\ Cardinality(running') <= Concurrency
                 /\ r < Len(resolveQueue) => Cardinality(running') = Concurrency
                 /\ b > 0 => /\ r = Len(resolveQueue) /\ reservations = {}
                             /\ ~pending /\ ~suppressed
                 /\ b < Len(backgroundQueue) =>
                      \/ reservations # {} \/ pending \/ suppressed
                      \/ Cardinality(running') = Concurrency
<1> DEFINE free == Concurrency - Cardinality(working)
           r == Least(free, Len(resolveQueue))
           b == IF reservations # {} \/ pending \/ suppressed THEN 0
                ELSE Least(free - r, Len(backgroundQueue))
           R == {resolveQueue[i] : i \in 1 .. r}
           B == {backgroundQueue[i] : i \in 1 .. b}
<1>1. /\ IsFiniteSet(working) /\ Cardinality(working) \in Nat
      /\ Concurrency \in Nat /\ Cardinality(working) <= Concurrency
  <2>1. IsFiniteSet(working) /\ Cardinality(working) <= Cardinality(running)
    BY FS_Subset DEF SchedulerTypeOK
  <2>2. Cardinality(working) \in Nat /\ Cardinality(running) \in Nat
    BY <2>1, FS_CardinalityType DEF SchedulerTypeOK
  <2>3. QED
    BY <2>1, <2>2, ProfileAssumption DEF SchedulerTypeOK
<1>2. Len(resolveQueue) \in Nat /\ Len(backgroundQueue) \in Nat
  BY LenProperties DEF SchedulerTypeOK
<1>3. free \in Nat
  BY <1>1
<1>4. /\ r \in 0 .. Len(resolveQueue) /\ r <= free
      /\ r < Len(resolveQueue) => r = free
  BY <1>2, <1>3 DEF Least
<1>5. /\ b \in 0 .. Len(backgroundQueue) /\ r + b <= free
      /\ b > 0 => /\ r = Len(resolveQueue) /\ reservations = {}
                  /\ ~pending /\ ~suppressed
      /\ b < Len(backgroundQueue) =>
           reservations # {} \/ pending \/ suppressed \/ r + b = free
  <2>1. CASE reservations # {} \/ pending \/ suppressed
    BY <1>2, <1>3, <1>4, <2>1
  <2>2. CASE ~(reservations # {} \/ pending \/ suppressed)
    <3>1. b = Least(free - r, Len(backgroundQueue))
      BY <2>2
    <3>2. free - r \in Nat
      BY <1>3, <1>4
    <3> HIDE DEF free, r, b
    <3>3. QED
      BY <1>2, <1>3, <1>4, <2>2, <3>1, <3>2 DEF Least
  <2>3. QED
    BY <2>1, <2>2
<1>6. /\ resolveQueue' = Dropped(resolveQueue, r)
      /\ backgroundQueue' = Dropped(backgroundQueue, b)
      /\ running' = working \cup R \cup B
  BY DEF Drain
<1> HIDE DEF free, r, b
<1>7. IsFiniteSet(R) /\ Cardinality(R) = r
  <2>1. /\ resolveQueue \in Seq(ResolveCalls) /\ Distinct(resolveQueue)
        /\ r \in 0 .. Len(resolveQueue)
    BY <1>4 DEF SchedulerTypeOK
  <2>2. QED
    BY <2>1, PrefixCount
<1>8. IsFiniteSet(B) /\ Cardinality(B) = b
  <2>1. /\ backgroundQueue \in Seq(BackgroundCalls) /\ Distinct(backgroundQueue)
        /\ b \in 0 .. Len(backgroundQueue)
    BY <1>5 DEF SchedulerTypeOK
  <2>2. QED
    BY <2>1, PrefixCount
<1>9. /\ R \subseteq Elements(resolveQueue) /\ R \subseteq ResolveCalls
      /\ B \subseteq Elements(backgroundQueue) /\ B \subseteq BackgroundCalls
  BY <1>4, <1>5, ElementOfSeq DEF SchedulerTypeOK, Elements
<1>10. working \cap R = {} /\ (working \cup R) \cap B = {}
  BY <1>9, ProfileAssumption DEF SchedulerTypeOK, Waiting
<1> HIDE DEF R, B
<1>11. /\ IsFiniteSet(working \cup R)
       /\ Cardinality(working \cup R) = Cardinality(working) + r
  <2>1. Cardinality(working \cap R) = 0
    BY <1>10, FS_EmptySet
  <2>2. IsFiniteSet(working \cup R)
        /\ Cardinality(working \cup R)
             = Cardinality(working) + Cardinality(R) - Cardinality(working \cap R)
    BY <1>1, <1>7, FS_Union
  <2>3. QED
    BY <1>1, <1>4, <1>7, <2>1, <2>2
<1>12. /\ IsFiniteSet(running')
       /\ Cardinality(running') = Cardinality(working) + r + b
  <2>1. Cardinality((working \cup R) \cap B) = 0
    BY <1>10, FS_EmptySet
  <2>2. IsFiniteSet((working \cup R) \cup B)
        /\ Cardinality((working \cup R) \cup B)
             = Cardinality(working \cup R) + Cardinality(B)
                 - Cardinality((working \cup R) \cap B)
    BY <1>8, <1>11, FS_Union
  <2>3. QED
    BY <1>1, <1>4, <1>5, <1>6, <1>8, <1>11, <2>1, <2>2
<1>13. /\ Cardinality(running') <= Concurrency
       /\ r + b = free => Cardinality(running') = Concurrency
       /\ r = free => b = 0
  BY <1>1, <1>4, <1>5, <1>12 DEF free
<1>14. QED
  <2>1. r < Len(resolveQueue) => Cardinality(running') = Concurrency
    BY <1>3, <1>4, <1>5, <1>13
  <2> r \in 0 .. Len(resolveQueue) /\ b \in 0 .. Len(backgroundQueue)
    BY <1>4, <1>5
  <2> WITNESS r \in 0 .. Len(resolveQueue), b \in 0 .. Len(backgroundQueue)
  <2>2. QED
    BY <1>5, <1>6, <1>12, <1>13, <2>1 DEF R, B

\* What #drain leaves behind in the queues and in the session.
LEMMA DrainLeaves ==
    ASSUME SchedulerTypeOK, accepting, NEW working \in SUBSET running,
           NEW pending \in BOOLEAN, NEW suppressed \in BOOLEAN,
           Drain(working, pending, suppressed)
    PROVE  /\ resolveQueue' \in Seq(ResolveCalls) /\ Distinct(resolveQueue')
           /\ Len(resolveQueue') <= ResolveQueueDepth
           /\ backgroundQueue' \in Seq(BackgroundCalls) /\ Distinct(backgroundQueue')
           /\ Len(backgroundQueue') <= BackgroundQueueDepth
           /\ running' \subseteq Calls /\ running' \subseteq working \cup Waiting
           /\ Waiting' \subseteq Waiting /\ Waiting' \cap running' = {}
           /\ IsFiniteSet(running') /\ Cardinality(running') <= Concurrency
           /\ resolveQueue' # <<>> => Cardinality(running') = Concurrency
           /\ backgroundQueue' # <<>> =>
                \/ reservations # {} \/ pending \/ suppressed
                \/ Cardinality(running') = Concurrency
           /\ \A c \in BackgroundCalls : c \in running' \ working =>
                /\ resolveQueue' = <<>> /\ reservations = {}
                /\ ~pending /\ ~suppressed
                /\ Cardinality(working) + Len(resolveQueue) < Concurrency
<1>1. PICK r \in 0 .. Len(resolveQueue), b \in 0 .. Len(backgroundQueue) :
        /\ resolveQueue' = Dropped(resolveQueue, r)
        /\ backgroundQueue' = Dropped(backgroundQueue, b)
        /\ running' = working \cup {resolveQueue[i] : i \in 1 .. r}
                             \cup {backgroundQueue[i] : i \in 1 .. b}
        /\ IsFiniteSet(running')
        /\ Cardinality(running') = Cardinality(working) + r + b
        /\ Cardinality(running') <= Concurrency
        /\ r < Len(resolveQueue) => Cardinality(running') = Concurrency
        /\ b > 0 => r = Len(resolveQueue) /\ reservations = {} /\ ~pending /\ ~suppressed
        /\ b < Len(backgroundQueue) =>
             \/ reservations # {} \/ pending \/ suppressed
             \/ Cardinality(running') = Concurrency
  BY DrainedQueues, SMTT(30)
<1> DEFINE R == {resolveQueue[i] : i \in 1 .. r}
           B == {backgroundQueue[i] : i \in 1 .. b}
<1>2. /\ resolveQueue' \in Seq(ResolveCalls) /\ Distinct(resolveQueue')
      /\ Len(resolveQueue') = Len(resolveQueue) - r
      /\ Elements(resolveQueue') \subseteq Elements(resolveQueue)
      /\ R \subseteq Elements(resolveQueue) /\ Elements(resolveQueue') \cap R = {}
  BY <1>1, DroppedQueue DEF SchedulerTypeOK
<1>3. /\ backgroundQueue' \in Seq(BackgroundCalls) /\ Distinct(backgroundQueue')
      /\ Len(backgroundQueue') = Len(backgroundQueue) - b
      /\ Elements(backgroundQueue') \subseteq Elements(backgroundQueue)
      /\ B \subseteq Elements(backgroundQueue) /\ Elements(backgroundQueue') \cap B = {}
  BY <1>1, DroppedQueue DEF SchedulerTypeOK
<1>4. /\ Elements(resolveQueue) \subseteq ResolveCalls
      /\ Elements(backgroundQueue) \subseteq BackgroundCalls
  BY ElementsType DEF SchedulerTypeOK
<1>5. running' = working \cup R \cup B
  BY <1>1
<1>6. b = 0 => B = {}
  OBVIOUS
<1> HIDE DEF R, B
<1>7. /\ running' \subseteq Calls /\ running' \subseteq working \cup Waiting
      /\ Waiting' \subseteq Waiting
  BY <1>2, <1>3, <1>4, <1>5 DEF SchedulerTypeOK, Calls, Waiting
<1>8. Waiting' \cap running' = {}
  <2>1. Waiting \cap working = {}
    BY DEF SchedulerTypeOK
  <2>2. QED
    BY <1>2, <1>3, <1>4, <1>5, <2>1, ProfileAssumption DEF Waiting
<1>9. /\ Len(resolveQueue) \in Nat /\ Len(backgroundQueue) \in Nat
      /\ ResolveQueueDepth \in Nat /\ BackgroundQueueDepth \in Nat
      /\ Concurrency \in Nat
  BY LenProperties, ProfileAssumption DEF SchedulerTypeOK
<1>10. /\ Len(resolveQueue') <= ResolveQueueDepth
       /\ Len(backgroundQueue') <= BackgroundQueueDepth
  BY <1>2, <1>3, <1>9 DEF SchedulerTypeOK
<1>11. resolveQueue' # <<>> => Cardinality(running') = Concurrency
  <2>1. resolveQueue' # <<>> => r < Len(resolveQueue)
    BY <1>2, <1>9, EmptyQueue
  <2>2. QED
    BY <1>1, <2>1
<1>12. backgroundQueue' # <<>> =>
         \/ reservations # {} \/ pending \/ suppressed
         \/ Cardinality(running') = Concurrency
  <2>1. backgroundQueue' # <<>> => b < Len(backgroundQueue)
    BY <1>3, <1>9, EmptyQueue
  <2>2. QED
    BY <1>1, <2>1
<1>13. ASSUME NEW c \in BackgroundCalls, c \in running' \ working
       PROVE  /\ resolveQueue' = <<>> /\ reservations = {}
              /\ ~pending /\ ~suppressed
              /\ Cardinality(working) + Len(resolveQueue) < Concurrency
  <2>1. b > 0
    <3>1. c \notin R
      BY <1>2, <1>4, <1>13, ProfileAssumption
    <3>2. QED
      BY <1>5, <1>6, <1>13, <3>1
  <2>2. r = Len(resolveQueue) /\ reservations = {} /\ ~pending /\ ~suppressed
    BY <1>1, <2>1
  <2>3. resolveQueue' = <<>>
    BY <1>2, <1>9, <2>2, EmptyQueue
  <2>4. Cardinality(working) \in Nat
    BY FS_Subset, FS_CardinalityType DEF SchedulerTypeOK
  <2>5. QED
    BY <1>1, <1>9, <2>1, <2>2, <2>3, <2>4
<1>14. QED
  BY <1>1, <1>2, <1>3, <1>7, <1>8, <1>10, <1>11, <1>12, <1>13

-----------------------------------------------------------------------------
(* The inductive invariant                                                 *)

\* The wake-up of a background call that waits for a delayed event loop is
\* the sampler, which runs until the scheduler stops.
SchedulerInv ==
    /\ SchedulerTypeOK
    /\ NoLostWakeup
    /\ delayed => sampling \/ ~accepting

LEMMA InitInv == SchedulerInit => SchedulerInv
<1> SUFFICES ASSUME SchedulerInit PROVE SchedulerInv
  OBVIOUS
<1>2. Elements(<<>>) = {} /\ Distinct(<<>>) /\ Len(<<>>) = 0
  BY DEF Elements, Distinct
<1>3. IsFiniteSet({}) /\ Cardinality({}) = 0
  BY FS_EmptySet
<1>4. /\ resolveQueue \in Seq(ResolveCalls) /\ Distinct(resolveQueue)
      /\ backgroundQueue \in Seq(BackgroundCalls) /\ Distinct(backgroundQueue)
      /\ Waiting = {} /\ Len(resolveQueue) = 0 /\ Len(backgroundQueue) = 0
  BY <1>2 DEF SchedulerInit, Waiting
<1>5. /\ IsFiniteSet(running) /\ Cardinality(running) <= Concurrency
      /\ 0 <= ResolveQueueDepth /\ 0 <= BackgroundQueueDepth
  BY <1>3, ProfileAssumption DEF SchedulerInit
<1>6. /\ promotion \in BOOLEAN /\ sampling \in BOOLEAN
      /\ delayed \in BOOLEAN /\ accepting \in BOOLEAN /\ ~delayed
  BY DEF SchedulerInit
<1>7. /\ running \subseteq Calls /\ settled \subseteq Calls /\ running \cap settled = {}
      /\ reservations \subseteq Scopes /\ left \subseteq Scopes
  BY DEF SchedulerInit
<1>8. SchedulerTypeOK
  BY <1>4, <1>5, <1>6, <1>7 DEF SchedulerTypeOK
<1>9. NoLostWakeup
  BY DEF SchedulerInit, NoLostWakeup
<1>10. QED
  BY <1>6, <1>8, <1>9 DEF SchedulerInv

\* One more call in the session.
LEMMA OneCallMore ==
    ASSUME SchedulerTypeOK, NEW c, c \notin running, ~Occupied(running)
    PROVE  /\ IsFiniteSet(running \cup {c})
           /\ Cardinality(running \cup {c}) <= Concurrency
           /\ Cardinality(running) < Concurrency
<1>1. IsFiniteSet(running) /\ Cardinality(running) \in Nat /\ Concurrency \in Nat
  BY FS_CardinalityType, ProfileAssumption DEF SchedulerTypeOK
<1>2. IsFiniteSet(running \cup {c}) /\ Cardinality(running \cup {c}) = Cardinality(running) + 1
  BY <1>1, FS_AddElement
<1>3. QED
  BY <1>1, <1>2 DEF Occupied

\* A full session is not empty.
LEMMA FullNotEmpty ==
    ASSUME SchedulerTypeOK, Occupied(running)
    PROVE  running # {} /\ Cardinality(running) = Concurrency
<1>1. Cardinality(running) \in Nat /\ Concurrency \in Nat \ {0}
  BY FS_CardinalityType, ProfileAssumption DEF SchedulerTypeOK
<1>2. Cardinality(running) = Concurrency /\ Cardinality(running) # 0
  BY <1>1 DEF Occupied, SchedulerTypeOK
<1>3. QED
  BY <1>2, FS_EmptySet

LEMMA RefuseInv ==
    ASSUME SchedulerInv, NEW c \in Calls, Refuse(c) PROVE SchedulerInv'
<1>1. SchedulerTypeOK'
  BY DEF SchedulerInv, SchedulerTypeOK, Refuse, Fresh, Waiting, queues, scopes
<1>2. QED
  BY <1>1 DEF SchedulerInv, NoLostWakeup, Refuse, queues, scopes

LEMMA RunResolveInv ==
    ASSUME SchedulerInv, NEW c \in Calls, RunResolve(c) PROVE SchedulerInv'
<1>1. /\ SchedulerTypeOK /\ NoLostWakeup
      /\ c \in ResolveCalls /\ c \notin Waiting /\ c \notin running /\ c \notin settled
      /\ c \notin Elements(resolveQueue)
      /\ accepting /\ accepting' = accepting /\ promotion' = FALSE
      /\ UNCHANGED <<reservations, left, sampling, delayed, backgroundQueue>>
  BY DEF SchedulerInv, RunResolve, Fresh, Waiting, queues, scopes
<1>2. CASE /\ ~Occupied(running) /\ running' = running \cup {c}
           /\ UNCHANGED <<queues, settled>>
  <2>1. IsFiniteSet(running') /\ Cardinality(running') <= Concurrency
        /\ Cardinality(running) < Concurrency
    BY <1>1, <1>2, OneCallMore
  <2>2. SchedulerTypeOK'
    BY <1>1, <1>2, <2>1 DEF SchedulerTypeOK, Waiting, queues
  <2>3. NoLostWakeup'
    <3>1. Cardinality(running) # Concurrency
      BY <1>1, <2>1, FS_CardinalityType, ProfileAssumption DEF SchedulerTypeOK
    <3>2. QED
      BY <1>1, <1>2, <3>1 DEF NoLostWakeup, queues
  <2>4. QED
    BY <1>1, <2>2, <2>3 DEF SchedulerInv
<1>3. CASE /\ Occupied(running) /\ Len(resolveQueue) < ResolveQueueDepth
           /\ resolveQueue' = Append(resolveQueue, c)
           /\ UNCHANGED <<backgroundQueue, running, settled>>
  <2>1. /\ resolveQueue' \in Seq(ResolveCalls) /\ Distinct(resolveQueue')
        /\ Len(resolveQueue') = Len(resolveQueue) + 1
        /\ Elements(resolveQueue') = Elements(resolveQueue) \cup {c}
    BY <1>1, <1>3, AppendQueue DEF SchedulerTypeOK
  <2>2. Len(resolveQueue') <= ResolveQueueDepth
    BY <1>1, <1>3, <2>1, LenProperties, ProfileAssumption DEF SchedulerTypeOK
  <2>3. SchedulerTypeOK'
    BY <1>1, <1>3, <2>1, <2>2 DEF SchedulerTypeOK, Waiting
  <2>4. NoLostWakeup'
    BY <1>1, <1>3, FullNotEmpty DEF NoLostWakeup
  <2>5. QED
    BY <1>1, <2>3, <2>4 DEF SchedulerInv
<1>4. CASE /\ Occupied(running) /\ Len(resolveQueue) >= ResolveQueueDepth
           /\ settled' = settled \cup {c}
           /\ UNCHANGED <<queues, running>>
  <2>1. SchedulerTypeOK'
    BY <1>1, <1>4 DEF SchedulerTypeOK, Waiting, queues
  <2>2. NoLostWakeup'
    BY <1>1, <1>4, FullNotEmpty DEF NoLostWakeup, queues
  <2>3. QED
    BY <1>1, <2>1, <2>2 DEF SchedulerInv
<1>5. QED
  BY <1>2, <1>3, <1>4 DEF RunResolve

LEMMA RunBackgroundInv ==
    ASSUME SchedulerInv, NEW c \in Calls, RunBackground(c) PROVE SchedulerInv'
<1>1. /\ SchedulerTypeOK /\ NoLostWakeup
      /\ c \in BackgroundCalls /\ c \notin Waiting /\ c \notin running /\ c \notin settled
      /\ c \notin Elements(backgroundQueue)
      /\ accepting /\ accepting' = accepting
      /\ UNCHANGED <<reservations, left, sampling, delayed, resolveQueue, running>>
  BY DEF SchedulerInv, RunBackground, Fresh, Waiting, scopes
<1>2. CASE /\ Len(backgroundQueue) < BackgroundQueueDepth
           /\ backgroundQueue' = Append(backgroundQueue, c)
           /\ promotion' = TRUE
           /\ UNCHANGED settled
  <2>1. /\ backgroundQueue' \in Seq(BackgroundCalls) /\ Distinct(backgroundQueue')
        /\ Len(backgroundQueue') = Len(backgroundQueue) + 1
        /\ Elements(backgroundQueue') = Elements(backgroundQueue) \cup {c}
    BY <1>1, <1>2, AppendQueue DEF SchedulerTypeOK
  <2>2. Len(backgroundQueue') <= BackgroundQueueDepth
    BY <1>1, <1>2, <2>1, LenProperties, ProfileAssumption DEF SchedulerTypeOK
  <2>3. SchedulerTypeOK'
    BY <1>1, <1>2, <2>1, <2>2 DEF SchedulerTypeOK, Waiting
  <2>4. NoLostWakeup'
    BY <1>1, <1>2 DEF NoLostWakeup
  <2>5. QED
    BY <1>1, <2>3, <2>4 DEF SchedulerInv
<1>3. CASE /\ Len(backgroundQueue) >= BackgroundQueueDepth
           /\ settled' = settled \cup {c}
           /\ UNCHANGED <<backgroundQueue, promotion>>
  <2>1. SchedulerTypeOK'
    BY <1>1, <1>3 DEF SchedulerTypeOK, Waiting
  <2>2. QED
    BY <1>1, <1>3, <2>1 DEF SchedulerInv, NoLostWakeup
<1>4. QED
  BY <1>2, <1>3 DEF RunBackground

LEMMA AbortWaitingInv ==
    ASSUME SchedulerInv, NEW c \in Calls, AbortWaiting(c) PROVE SchedulerInv'
<1>1. /\ SchedulerTypeOK /\ NoLostWakeup /\ settled' = settled \cup {c}
      /\ UNCHANGED <<running, reservations, left, promotion, sampling, delayed, accepting>>
  BY DEF SchedulerInv, AbortWaiting, scopes
<1>2. /\ Len(resolveQueue) \in Nat /\ Len(backgroundQueue) \in Nat
      /\ ResolveQueueDepth \in Nat /\ BackgroundQueueDepth \in Nat
      /\ Elements(resolveQueue) \subseteq ResolveCalls
      /\ Elements(backgroundQueue) \subseteq BackgroundCalls
  BY <1>1, LenProperties, ElementsType, ProfileAssumption DEF SchedulerTypeOK
<1>3. ASSUME NEW i \in 1 .. Len(resolveQueue), resolveQueue[i] = c,
             resolveQueue' = Without(resolveQueue, i), UNCHANGED backgroundQueue
      PROVE  SchedulerTypeOK' /\ NoLostWakeup'
  <2>1. /\ resolveQueue' \in Seq(ResolveCalls) /\ Len(resolveQueue') = Len(resolveQueue) - 1
        /\ Distinct(resolveQueue')
        /\ Elements(resolveQueue') \subseteq Elements(resolveQueue) \ {c}
    BY <1>1, <1>3, WithoutQueue DEF SchedulerTypeOK
  <2>2. c \in Elements(resolveQueue) /\ c \notin Elements(backgroundQueue)
    BY <1>2, <1>3, ProfileAssumption DEF Elements
  <2>3. Len(resolveQueue') <= ResolveQueueDepth /\ resolveQueue # <<>>
    BY <1>1, <1>2, <2>1, <1>3 DEF SchedulerTypeOK
  <2>4. SchedulerTypeOK'
    BY <1>1, <1>3, <2>1, <2>2, <2>3 DEF SchedulerTypeOK, Waiting
  <2>5. NoLostWakeup'
    BY <1>1, <1>3, <2>3 DEF NoLostWakeup
  <2>6. QED
    BY <2>4, <2>5
<1>4. ASSUME NEW i \in 1 .. Len(backgroundQueue), backgroundQueue[i] = c,
             backgroundQueue' = Without(backgroundQueue, i), UNCHANGED resolveQueue
      PROVE  SchedulerTypeOK' /\ NoLostWakeup'
  <2>1. /\ backgroundQueue' \in Seq(BackgroundCalls)
        /\ Len(backgroundQueue') = Len(backgroundQueue) - 1
        /\ Distinct(backgroundQueue')
        /\ Elements(backgroundQueue') \subseteq Elements(backgroundQueue) \ {c}
    BY <1>1, <1>4, WithoutQueue DEF SchedulerTypeOK
  <2>2. c \in Elements(backgroundQueue) /\ c \notin Elements(resolveQueue)
    BY <1>2, <1>4, ProfileAssumption DEF Elements
  <2>3. Len(backgroundQueue') <= BackgroundQueueDepth /\ backgroundQueue # <<>>
    BY <1>1, <1>2, <2>1, <1>4 DEF SchedulerTypeOK
  <2>4. SchedulerTypeOK'
    BY <1>1, <1>4, <2>1, <2>2, <2>3 DEF SchedulerTypeOK, Waiting
  <2>5. NoLostWakeup'
    BY <1>1, <1>4, <2>3 DEF NoLostWakeup
  <2>6. QED
    BY <2>4, <2>5
<1>5. SchedulerTypeOK' /\ NoLostWakeup'
  BY <1>3, <1>4 DEF AbortWaiting
<1>6. QED
  BY <1>1, <1>5 DEF SchedulerInv

\* The session after a call has ended.
LEMMA OneCallLess ==
    ASSUME SchedulerTypeOK, NEW c \in running
    PROVE  /\ IsFiniteSet(running \ {c})
           /\ Cardinality(running \ {c}) = Cardinality(running) - 1
           /\ Cardinality(running) \in Nat /\ Concurrency \in Nat
           /\ Cardinality(running \ {c}) <= Concurrency
<1>1. IsFiniteSet(running) /\ Cardinality(running) \in Nat /\ Concurrency \in Nat
  BY FS_CardinalityType, ProfileAssumption DEF SchedulerTypeOK
<1>2. IsFiniteSet(running \ {c}) /\ Cardinality(running \ {c}) = Cardinality(running) - 1
  BY <1>1, FS_RemoveElement
<1>3. QED
  BY <1>1, <1>2 DEF SchedulerTypeOK

\* When a call ends while resolve calls wait, the session was full and the
\* first of them takes the free slot; no background call starts.
LEMMA FinishStarts ==
    ASSUME SchedulerTypeOK, NoLostWakeup, NEW c \in running, resolveQueue # <<>>,
           Drain(running \ {c}, promotion, delayed)
    PROVE  /\ running' # {}
           /\ \A x \in BackgroundCalls : x \in running' => x \in running
<1> DEFINE working == running \ {c}
<1>1. /\ accepting /\ Cardinality(running) = Concurrency /\ working \in SUBSET running
      /\ promotion \in BOOLEAN /\ delayed \in BOOLEAN
  BY DEF NoLostWakeup, SchedulerTypeOK
<1>2. Cardinality(working) = Concurrency - 1 /\ Concurrency \in Nat \ {0}
  BY <1>1, OneCallLess, ProfileAssumption
<1>3. Len(resolveQueue) \in Nat /\ Len(resolveQueue) > 0
  BY EmptyQueue DEF SchedulerTypeOK
<1>4. ~(Cardinality(working) + Len(resolveQueue) < Concurrency)
  BY <1>2, <1>3
<1> HIDE DEF working
<1>5. \A x \in BackgroundCalls : x \in running' => x \in working
  BY <1>1, <1>4, DrainLeaves DEF working
<1>6. PICK r \in 0 .. Len(resolveQueue), b \in 0 .. Len(backgroundQueue) :
        /\ Cardinality(running') = Cardinality(working) + r + b
        /\ r < Len(resolveQueue) => Cardinality(running') = Concurrency
  BY <1>1, DrainedQueues DEF working
<1>7. Len(backgroundQueue) \in Nat
  BY LenProperties DEF SchedulerTypeOK
<1>8. Cardinality(running') # 0
  BY <1>2, <1>3, <1>6, <1>7
<1>9. QED
  BY <1>5, <1>8, FS_EmptySet DEF working

LEMMA FinishInv ==
    ASSUME SchedulerInv, NEW c \in Calls, Finish(c) PROVE SchedulerInv'
<1>1. /\ SchedulerTypeOK /\ NoLostWakeup /\ c \in running /\ settled' = settled \cup {c}
      /\ UNCHANGED <<reservations, left, sampling, delayed, accepting>>
  BY DEF SchedulerInv, Finish, scopes
<1>2. /\ IsFiniteSet(running \ {c}) /\ Cardinality(running \ {c}) <= Concurrency
  BY <1>1, OneCallLess
<1>3. CASE /\ resolveQueue # <<>> /\ Drain(running \ {c}, promotion, delayed)
           /\ UNCHANGED promotion
  <2>1. accepting /\ running \ {c} \in SUBSET running
        /\ promotion \in BOOLEAN /\ delayed \in BOOLEAN
    BY <1>1, <1>3 DEF NoLostWakeup, SchedulerTypeOK
  <2>2. /\ resolveQueue' \in Seq(ResolveCalls) /\ Distinct(resolveQueue')
        /\ Len(resolveQueue') <= ResolveQueueDepth
        /\ backgroundQueue' \in Seq(BackgroundCalls) /\ Distinct(backgroundQueue')
        /\ Len(backgroundQueue') <= BackgroundQueueDepth
        /\ running' \subseteq Calls /\ running' \subseteq (running \ {c}) \cup Waiting
        /\ Waiting' \subseteq Waiting /\ Waiting' \cap running' = {}
        /\ IsFiniteSet(running') /\ Cardinality(running') <= Concurrency
        /\ resolveQueue' # <<>> => Cardinality(running') = Concurrency
    BY <1>1, <1>3, <2>1, DrainLeaves
  <2>3. SchedulerTypeOK'
    <3>1. running' \cap settled' = {} /\ Waiting' \cap settled' = {}
          /\ settled' \subseteq Calls
      BY <1>1, <2>2 DEF SchedulerTypeOK
    <3>2. QED
      BY <1>1, <1>3, <2>2, <3>1 DEF SchedulerTypeOK
  <2>4. running' # {}
    BY <1>1, <1>3, FinishStarts
  <2>5. NoLostWakeup'
    BY <1>1, <1>3, <2>1, <2>2, <2>4 DEF NoLostWakeup
  <2>6. QED
    BY <1>1, <2>3, <2>5 DEF SchedulerInv
<1>4. CASE /\ resolveQueue = <<>> /\ running' = running \ {c}
           /\ ScheduleBackgroundPromotion(promotion)
           /\ UNCHANGED queues
  <2>1. SchedulerTypeOK'
    BY <1>1, <1>2, <1>4
    DEF SchedulerTypeOK, Waiting, queues, ScheduleBackgroundPromotion
  <2>2. NoLostWakeup'
    BY <1>1, <1>4 DEF NoLostWakeup, queues, ScheduleBackgroundPromotion
  <2>3. QED
    BY <1>1, <2>1, <2>2 DEF SchedulerInv
<1>5. QED
  BY <1>3, <1>4 DEF Finish

\* The callbacks of the two timers: #drain with the slots as they are.
LEMMA TimerInv ==
    ASSUME SchedulerInv, NEW pending \in BOOLEAN, NEW suppressed \in BOOLEAN,
           Drain(running, pending, suppressed)
    PROVE  /\ promotion' = pending /\ delayed' = suppressed
           /\ suppressed => sampling \/ ~accepting
           /\ UNCHANGED <<settled, reservations, left, sampling, accepting>>
           => SchedulerInv'
<1>1. SchedulerTypeOK /\ NoLostWakeup /\ running \in SUBSET running
  BY DEF SchedulerInv
<1>2. accepting =>
        /\ resolveQueue' \in Seq(ResolveCalls) /\ Distinct(resolveQueue')
        /\ Len(resolveQueue') <= ResolveQueueDepth
        /\ backgroundQueue' \in Seq(BackgroundCalls) /\ Distinct(backgroundQueue')
        /\ Len(backgroundQueue') <= BackgroundQueueDepth
        /\ running' \subseteq Calls /\ running' \subseteq running \cup Waiting
        /\ Waiting' \subseteq Waiting /\ Waiting' \cap running' = {}
        /\ IsFiniteSet(running') /\ Cardinality(running') <= Concurrency
        /\ resolveQueue' # <<>> => Cardinality(running') = Concurrency
        /\ backgroundQueue' # <<>> =>
             \/ reservations # {} \/ pending \/ suppressed
             \/ Cardinality(running') = Concurrency
  BY <1>1, DrainLeaves
<1> HAVE /\ promotion' = pending /\ delayed' = suppressed
         /\ suppressed => sampling \/ ~accepting
         /\ UNCHANGED <<settled, reservations, left, sampling, accepting>>
<1>3. CASE accepting
  <2>1. SchedulerTypeOK'
    <3>1. running' \cap settled' = {} /\ Waiting' \cap settled' = {}
      BY <1>1, <1>2, <1>3 DEF SchedulerTypeOK
    <3>2. QED
      BY <1>1, <1>2, <1>3, <3>1 DEF SchedulerTypeOK
  <2>2. Cardinality(running') = Concurrency => running' # {}
    BY FS_EmptySet, ProfileAssumption
  <2>3. NoLostWakeup'
    BY <1>2, <1>3, <2>2 DEF NoLostWakeup
  <2>4. QED
    BY <2>1, <2>3 DEF SchedulerInv
<1>4. CASE ~accepting
  <2>1. UNCHANGED <<resolveQueue, backgroundQueue, running>>
    BY <1>4 DEF Drain, queues
  <2>2. SchedulerTypeOK'
    BY <1>1, <2>1 DEF SchedulerTypeOK, Waiting
  <2>3. NoLostWakeup'
    BY <1>1, <1>4, <2>1 DEF NoLostWakeup
  <2>4. QED
    BY <1>4, <2>2, <2>3 DEF SchedulerInv
<1>5. QED
  BY <1>3, <1>4

LEMMA PromoteInv == ASSUME SchedulerInv, Promote PROVE SchedulerInv'
<1>1. /\ FALSE \in BOOLEAN /\ delayed \in BOOLEAN /\ delayed' = delayed
      /\ promotion' = FALSE
      /\ delayed => sampling \/ ~accepting
      /\ Drain(running, FALSE, delayed)
      /\ UNCHANGED <<settled, reservations, left, sampling, accepting>>
  BY DEF Promote, SchedulerInv, SchedulerTypeOK, scopes
<1>2. QED
  BY <1>1, TimerInv

LEMMA SampleInv ==
    ASSUME SchedulerInv, NEW lag \in BOOLEAN, Sample(lag) PROVE SchedulerInv'
<1>1. /\ promotion \in BOOLEAN /\ promotion' = promotion /\ delayed' = lag
      /\ sampling /\ Drain(running, promotion, lag)
      /\ UNCHANGED <<settled, reservations, left, sampling, accepting>>
  BY DEF Sample, SchedulerInv, SchedulerTypeOK, scopes
<1>2. QED
  BY <1>1, TimerInv

LEMMA ScopeInv ==
    ASSUME SchedulerInv, NEW s \in Scopes, EnterScope(s) \/ LeaveScope(s)
    PROVE  SchedulerInv'
<1>1. SchedulerTypeOK /\ NoLostWakeup
  BY DEF SchedulerInv
<1>2. CASE EnterScope(s)
  <2>1. SchedulerTypeOK'
    BY <1>1, <1>2 DEF SchedulerTypeOK, EnterScope, Waiting, queues
  <2>2. NoLostWakeup'
    BY <1>1, <1>2 DEF NoLostWakeup, EnterScope, queues
  <2>3. QED
    BY <1>2, <2>1, <2>2 DEF SchedulerInv, EnterScope
<1>3. CASE LeaveScope(s)
  <2>1. SchedulerTypeOK'
    BY <1>1, <1>3
    DEF SchedulerTypeOK, LeaveScope, ScheduleBackgroundPromotion, Waiting, queues
  <2>2. NoLostWakeup'
    <3>1. reservations = {s} => (backgroundQueue # <<>> => promotion')
      BY <1>1, <1>3 DEF NoLostWakeup, LeaveScope, ScheduleBackgroundPromotion
    <3>2. reservations # {s} => reservations' # {}
      BY <1>3 DEF LeaveScope
    <3>3. QED
      BY <1>1, <1>3, <3>1, <3>2 DEF NoLostWakeup, LeaveScope, queues
  <2>3. QED
    BY <1>3, <2>1, <2>2 DEF SchedulerInv, LeaveScope
<1>4. QED
  BY <1>2, <1>3

LEMMA ControlInv ==
    ASSUME SchedulerInv, StartMonitoring \/ StopAccepting PROVE SchedulerInv'
<1>1. SchedulerTypeOK /\ NoLostWakeup
  BY DEF SchedulerInv
<1>2. CASE StartMonitoring
  <2>1. SchedulerTypeOK'
    BY <1>1, <1>2 DEF SchedulerTypeOK, StartMonitoring, Waiting, queues, scopes
  <2>2. NoLostWakeup'
    BY <1>1, <1>2 DEF NoLostWakeup, StartMonitoring, queues, scopes
  <2>3. QED
    BY <1>2, <2>1, <2>2 DEF SchedulerInv, StartMonitoring
<1>3. CASE StopAccepting
  <2>1. Waiting' = {} /\ Distinct(<<>>) /\ Len(<<>>) = 0
    BY <1>3 DEF StopAccepting, Waiting, Elements, Distinct
  <2>2. Waiting \subseteq Calls /\ Waiting \cap running = {}
    BY <1>1, ElementsType DEF SchedulerTypeOK, Waiting, Calls
  <2>3. SchedulerTypeOK'
    <3>1. /\ <<>> \in Seq(ResolveCalls) /\ <<>> \in Seq(BackgroundCalls)
          /\ 0 <= ResolveQueueDepth /\ 0 <= BackgroundQueueDepth
      BY EmptySeq, ProfileAssumption
    <3>2. /\ settled' \subseteq Calls /\ running' \cap settled' = {}
          /\ Waiting' \cap (running' \cup settled') = {}
      BY <1>1, <1>3, <2>1, <2>2 DEF SchedulerTypeOK, StopAccepting
    <3>3. QED
      BY <1>1, <1>3, <2>1, <3>1, <3>2 DEF SchedulerTypeOK, StopAccepting, scopes
  <2>4. NoLostWakeup'
    BY <1>3 DEF NoLostWakeup, StopAccepting
  <2>5. QED
    BY <1>3, <2>3, <2>4 DEF SchedulerInv, StopAccepting
<1>4. QED
  BY <1>2, <1>3

LEMMA NextInv == SchedulerInv /\ [SchedulerNext]_schedulerVars => SchedulerInv'
<1> SUFFICES ASSUME SchedulerInv, [SchedulerNext]_schedulerVars PROVE SchedulerInv'
  OBVIOUS
<1>1. ASSUME NEW c \in Calls,
             \/ Refuse(c) \/ RunResolve(c) \/ RunBackground(c)
             \/ AbortWaiting(c) \/ Finish(c)
      PROVE  SchedulerInv'
  BY <1>1, RefuseInv, RunResolveInv, RunBackgroundInv, AbortWaitingInv, FinishInv
<1>2. ASSUME NEW s \in Scopes, EnterScope(s) \/ LeaveScope(s) PROVE SchedulerInv'
  BY <1>2, ScopeInv
<1>3. CASE Promote
  BY <1>3, PromoteInv
<1>4. CASE StartMonitoring \/ StopAccepting
  BY <1>4, ControlInv
<1>5. ASSUME NEW lag \in BOOLEAN, Sample(lag) PROVE SchedulerInv'
  BY <1>5, SampleInv
<1>6. CASE UNCHANGED schedulerVars
  BY <1>6 DEF schedulerVars, SchedulerInv, SchedulerTypeOK, NoLostWakeup, Waiting
<1>7. QED
  BY <1>1, <1>2, <1>3, <1>4, <1>5, <1>6 DEF SchedulerNext

LEMMA Invariance == SchedulerSpec => []SchedulerInv
BY InitInv, NextInv, PTL DEF SchedulerSpec

-----------------------------------------------------------------------------
(* Theorems                                                                *)

\* run, #start, #drain, #remove and stopAccepting keep every call in one
\* place and never run or queue more calls than the profile allows.
THEOREM SchedulerTypeCorrect == SchedulerSpec => []SchedulerTypeOK
<1>1. SchedulerInv => SchedulerTypeOK
  BY DEF SchedulerInv
<1>2. QED
  BY <1>1, Invariance, PTL

\* However calls, aborts, scopes, timers and the sampler interleave, a waiting
\* call is never left without a callback that will look at its queue again.
THEOREM WakeupNeverLost == SchedulerSpec => []NoLostWakeup
<1>1. SchedulerInv => NoLostWakeup
  BY DEF SchedulerInv
<1>2. QED
  BY <1>1, Invariance, PTL

\* #drain starts a background call only in a turn of its own, with no resolve
\* call waiting, no resolve scope open and the event loop not delayed.
THEOREM BackgroundAlwaysYields == SchedulerSpec => BackgroundYields
<1> DEFINE Yields == \A c \in BackgroundCalls : c \in running' \ running =>
                       /\ resolveQueue' = <<>> /\ reservations' = {} /\ ~delayed'
                       /\ settled' = settled
<1>1. SchedulerInv /\ [SchedulerNext]_schedulerVars => [Yields]_schedulerVars
  <2> SUFFICES ASSUME SchedulerInv, SchedulerNext, NEW c \in BackgroundCalls,
                      c \in running', c \notin running
               PROVE  /\ resolveQueue' = <<>> /\ reservations' = {} /\ ~delayed'
                      /\ settled' = settled
    OBVIOUS
  <2>1. SchedulerTypeOK /\ NoLostWakeup
    BY DEF SchedulerInv
  <2>2. ASSUME NEW pending \in BOOLEAN, NEW suppressed \in BOOLEAN,
               delayed' = suppressed, Drain(running, pending, suppressed),
               UNCHANGED <<settled, reservations>>
        PROVE  /\ resolveQueue' = <<>> /\ reservations' = {} /\ ~delayed'
               /\ settled' = settled
    <3>1. running \in SUBSET running
      OBVIOUS
    <3>2. accepting
      BY <2>2 DEF Drain
    <3>3. QED
      BY <2>1, <2>2, <3>1, <3>2, DrainLeaves
  <2>3. ASSUME NEW d \in Calls, Finish(d) PROVE FALSE
    BY <2>1, <2>3, FinishStarts DEF Finish
  <2>4. ASSUME NEW d \in Calls,
               \/ Refuse(d) \/ RunResolve(d) \/ RunBackground(d) \/ AbortWaiting(d)
        PROVE  FALSE
    BY <2>4, ProfileAssumption DEF Refuse, RunResolve, RunBackground, AbortWaiting
  <2>5. ASSUME NEW s \in Scopes, EnterScope(s) \/ LeaveScope(s) PROVE FALSE
    BY <2>5 DEF EnterScope, LeaveScope
  <2>6. CASE StartMonitoring \/ StopAccepting
    BY <2>6 DEF StartMonitoring, StopAccepting
  <2>7. CASE Promote
    BY <2>1, <2>2, <2>7 DEF Promote, SchedulerTypeOK, scopes
  <2>8. ASSUME NEW lag \in BOOLEAN, Sample(lag)
        PROVE  /\ resolveQueue' = <<>> /\ reservations' = {} /\ ~delayed'
               /\ settled' = settled
    BY <2>1, <2>2, <2>8 DEF Sample, SchedulerTypeOK, scopes
  <2>9. QED
    BY <2>3, <2>4, <2>5, <2>6, <2>7, <2>8 DEF SchedulerNext
<1>2. QED
  BY <1>1, Invariance, PTL DEF SchedulerSpec, BackgroundYields

=============================================================================
