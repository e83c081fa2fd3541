------------------------ MODULE SelectContextProofs ------------------------
(***************************************************************************)
(* Proofs about SelectContext, for any catalog, query, policy context,     *)
(* limits and values of the scores: why a card is admitted, that taking    *)
(* cards out of the plan loses nothing, and that selectContext accepts     *)
(* every plan it builds.                                                   *)
(***************************************************************************)
EXTENDS SelectContext, FiniteSetTheorems, WellFoundedInduction, TLAPS

-----------------------------------------------------------------------------
(* Least and greatest numbers of a set, and induction, from the            *)
(* well-foundedness of the natural numbers.                                *)

LEMMA LeastOf ==
    ASSUME NEW T \in SUBSET Nat, T # {}
    PROVE  \E x \in T : \A y \in T : x <= y
<1>1. \E x \in T : \A y \in T : ~ (<<y, x>> \in OpToRel(<, Nat))
  BY NatLessThanWellFounded, WFMin
<1>2. PICK x \in T : \A y \in T : ~ (<<y, x>> \in OpToRel(<, Nat))
  BY <1>1
<1>3. ASSUME NEW y \in T PROVE x <= y
  <2>1. ~ (<<y, x>> \in {ss \in Nat \X Nat : ss[1] < ss[2]})
    BY <1>2 DEF OpToRel
  <2> QED  BY <2>1
<1> QED  BY <1>3

LEMMA GreatestOf ==
    ASSUME NEW T \in SUBSET Int, NEW bound \in Int, \A y \in T : y <= bound, T # {}
    PROVE  /\ Max(T) \in T
           /\ \A y \in T : y <= Max(T)
<1> DEFINE G == {n \in Nat : \E y \in T : n = bound - y}
<1>1. G # {}
  <2> PICK y \in T : TRUE
    OBVIOUS
  <2>1. bound - y \in G
    OBVIOUS
  <2> QED  BY <2>1
<1>2. PICK n \in G : \A m \in G : n <= m
  BY <1>1, LeastOf
<1>3. PICK x \in T : n = bound - x
  BY <1>2
<1>4. ASSUME NEW y \in T PROVE y <= x
  <2>1. bound - y \in G
    OBVIOUS
  <2> QED  BY <2>1, <1>2, <1>3
<1>5. \E z \in T : \A y \in T : z >= y
  BY <1>4
<1> QED  BY <1>5 DEF Max

LEMMA LowestOf ==
    ASSUME NEW T \in SUBSET Int, NEW bound \in Int, \A y \in T : y >= bound, T # {}
    PROVE  /\ Min(T) \in T
           /\ \A y \in T : y >= Min(T)
<1> DEFINE G == {n \in Nat : \E y \in T : n = y - bound}
<1>1. G # {}
  <2> PICK y \in T : TRUE
    OBVIOUS
  <2>1. y - bound \in G
    OBVIOUS
  <2> QED  BY <2>1
<1>2. PICK n \in G : \A m \in G : n <= m
  BY <1>1, LeastOf
<1>3. PICK x \in T : n = x - bound
  BY <1>2
<1>4. ASSUME NEW y \in T PROVE y >= x
  <2>1. y - bound \in G
    OBVIOUS
  <2> QED  BY <2>1, <1>2, <1>3
<1>5. \E z \in T : \A y \in T : z =< y
  BY <1>4
<1> QED  BY <1>5 DEF Min

\* The larger and the smaller of two numbers.
LEMMA OfTwo ==
    ASSUME NEW a \in Int, NEW b \in Int
    PROVE  /\ Max({a, b}) = IF a >= b THEN a ELSE b
           /\ Min({a, b}) = IF a <= b THEN a ELSE b
<1>1. \A y \in {a, b} : y <= IF a >= b THEN a ELSE b
  OBVIOUS
<1>2. \A y \in {a, b} : y >= IF a <= b THEN a ELSE b
  OBVIOUS
<1>3. Max({a, b}) \in {a, b} /\ \A y \in {a, b} : y <= Max({a, b})
  BY <1>1, GreatestOf
<1>4. Min({a, b}) \in {a, b} /\ \A y \in {a, b} : y >= Min({a, b})
  BY <1>2, LowestOf
<1> QED  BY <1>3, <1>4

LEMMA InductionOnNat ==
    ASSUME NEW G \in SUBSET Nat, 0 \in G, \A n \in Nat : n \in G => n + 1 \in G
    PROVE  G = Nat
<1> SUFFICES ASSUME Nat \ G # {} PROVE FALSE
  OBVIOUS
<1>1. PICK x \in Nat \ G : \A y \in Nat \ G : x <= y
  BY LeastOf
<1>2. x # 0 /\ x - 1 \in Nat /\ x - 1 \notin Nat \ G
  BY <1>1
<1> QED  BY <1>2, <1>1

\* A property of sets that the empty set has and that adding a member keeps.
LEMMA InductionOnSet ==
    ASSUME NEW S, IsFiniteSet(S), NEW G \in SUBSET SUBSET S, {} \in G,
           \A T \in SUBSET S, x \in S : T \in G /\ x \notin T => T \cup {x} \in G
    PROVE  S \in G
<1> DEFINE H == {n \in Nat : \A T \in SUBSET S : Cardinality(T) = n => T \in G}
<1>1. 0 \in H
  BY FS_EmptySet, FS_Subset
<1>2. ASSUME NEW n \in Nat, n \in H PROVE n + 1 \in H
  <2> SUFFICES ASSUME NEW T \in SUBSET S, Cardinality(T) = n + 1 PROVE T \in G
    BY DEF H
  <2>1. IsFiniteSet(T)
    BY FS_Subset
  <2>2. T # {}
    <3> SUFFICES ASSUME T = {} PROVE FALSE
      OBVIOUS
    <3>1. Cardinality(T) = 0
      BY FS_EmptySet
    <3> QED  BY <3>1
  <2>3. PICK x \in T : TRUE
    BY <2>2
  <2>4. Cardinality(T \ {x}) = n
    <3>1. Cardinality(T \ {x}) = Cardinality(T) - 1
      BY <2>1, <2>3, FS_RemoveElement
    <3> QED  BY <3>1
  <2>5. T \ {x} \in G
    BY <2>4, <1>2
  <2>6. T = (T \ {x}) \cup {x} /\ x \notin T \ {x} /\ T \ {x} \in SUBSET S /\ x \in S
    BY <2>3
  <2> QED  BY <2>5, <2>6
<1> HIDE DEF H
<1>3. H = Nat
  <2>1. H \in SUBSET Nat
    BY DEF H
  <2> QED  BY <2>1, <1>1, <1>2, InductionOnNat
<1>4. Cardinality(S) \in H
  BY <1>3, FS_CardinalityType
<1> QED  BY <1>4 DEF H

-----------------------------------------------------------------------------
(* Sums: the fold of the library counts pairs, a member with each unit of  *)
(* its weight, so that what is known of cardinalities holds for sums.      *)

Weighed(f, S) == {p \in S \X Nat : p[2] \in 1..f[p[1]]}

LEMMA WeighedStep ==
    ASSUME NEW S, NEW f, \A x \in S : f[x] \in Nat, NEW x \in S,
           IsFiniteSet(Weighed(f, S \ {x}))
    PROVE  /\ IsFiniteSet(Weighed(f, S))
           /\ Cardinality(Weighed(f, S)) = f[x] + Cardinality(Weighed(f, S \ {x}))
<1> DEFINE A == Weighed(f, S \ {x})
           B == {x} \X (1..f[x])
<1>1. Weighed(f, S) = A \cup B
  BY DEF Weighed
<1>2. A \cap B = {}
  BY DEF Weighed
<1>3. IsFiniteSet(1..f[x]) /\ Cardinality(1..f[x]) = f[x]
  <2>1. f[x] \in Nat /\ f[x] \in Int /\ 1 \in Int
    OBVIOUS
  <2>2. IsFiniteSet(1..f[x]) /\ Cardinality(1..f[x]) = IF 1 > f[x] THEN 0 ELSE f[x] - 1 + 1
    BY <2>1, FS_Interval
  <2> QED  BY <2>1, <2>2
<1>4. IsFiniteSet({x}) /\ Cardinality({x}) = 1
  BY FS_Singleton
<1>5. IsFiniteSet(B) /\ Cardinality(B) = f[x]
  <2>1. IsFiniteSet(B) /\ Cardinality(B) = Cardinality({x}) * Cardinality(1..f[x])
    BY <1>3, <1>4, FS_Product
  <2> QED  BY <2>1, <1>3, <1>4
<1>6. Cardinality(A) \in Nat /\ Cardinality({}) = 0
  BY FS_CardinalityType, FS_EmptySet
<1> HIDE DEF A, B
<1>7. IsFiniteSet(A)
  BY DEF A
<1>8. IsFiniteSet(A \cup B) /\ Cardinality(A \cup B) = Cardinality(A) + Cardinality(B) - Cardinality(A \cap B)
  BY <1>5, <1>7, FS_Union
<1>9. Cardinality(A \cup B) = Cardinality(A) + f[x]
  <2>1. Cardinality(A \cap B) = 0 /\ f[x] \in Nat
    BY <1>2, <1>6
  <2> QED  BY <1>8, <2>1, <1>5, <1>6
<1> QED  BY <1>1, <1>8, <1>9, <1>6 DEF A

LEMMA WeighedFinite ==
    ASSUME NEW S, IsFiniteSet(S), NEW f, \A x \in S : f[x] \in Nat
    PROVE  IsFiniteSet(Weighed(f, S)) /\ Cardinality(Weighed(f, S)) \in Nat
<1> DEFINE G == {T \in SUBSET S : IsFiniteSet(Weighed(f, T))}
<1>1. {} \in G
  <2>1. Weighed(f, {}) = {}
    BY DEF Weighed
  <2> QED  BY <2>1, FS_EmptySet
<1>2. ASSUME NEW T \in SUBSET S, NEW x \in S, T \in G, x \notin T PROVE T \cup {x} \in G
  <2>1. (T \cup {x}) \ {x} = T
    BY <1>2
  <2>2. IsFiniteSet(Weighed(f, T \cup {x}))
    <3> DEFINE U == T \cup {x}
    <3>1. x \in U /\ (\A y \in U : f[y] \in Nat) /\ IsFiniteSet(Weighed(f, U \ {x}))
      BY <2>1, <1>2
    <3> HIDE DEF U
    <3>2. IsFiniteSet(Weighed(f, U))
      BY <3>1, WeighedStep
    <3> QED  BY <3>2 DEF U
  <2> QED  BY <2>2
<1>3. S \in G
  <2> HIDE DEF G
  <2>1. G \in SUBSET SUBSET S
    BY DEF G
  <2> QED  BY <2>1, <1>1, <1>2, InductionOnSet
<1> QED  BY <1>3, FS_CardinalityType

\* What the library's fold solves.
SumTable(f, S, t) ==
    t = [s \in SUBSET S |->
            IF s = {} THEN 0
            ELSE LET x == CHOOSE x \in s : TRUE IN f[x] + t[s \ {x}]]

LEMMA SumUnfolds ==
    ASSUME NEW S, NEW f
    PROVE  SumFunctionOnSet(f, S) = (CHOOSE t : SumTable(f, S, t))[S]
BY DEF SumFunctionOnSet, FoldFunctionOnSet, MapThenFoldSet, SumTable

LEMMA SumIsCount ==
    ASSUME NEW S, IsFiniteSet(S), NEW f, \A x \in S : f[x] \in Nat
    PROVE  SumFunctionOnSet(f, S) = Cardinality(Weighed(f, S))
<1> DEFINE c == [s \in SUBSET S |-> Cardinality(Weighed(f, s))]
<1>1. SumTable(f, S, c)
  <2>1. ASSUME NEW s \in SUBSET S
        PROVE  c[s] = IF s = {} THEN 0 ELSE LET x == CHOOSE x \in s : TRUE IN f[x] + c[s \ {x}]
    <3>1. CASE s = {}
      <4>1. Weighed(f, s) = {}
        BY <3>1 DEF Weighed
      <4> QED  BY <3>1, <4>1, FS_EmptySet
    <3>2. CASE s # {}
      <4> DEFINE x == CHOOSE x \in s : TRUE
      <4>1. x \in s
        BY <3>2
      <4> HIDE DEF x
      <4>2. IsFiniteSet(s \ {x}) /\ \A y \in s : f[y] \in Nat
        BY FS_Subset, FS_RemoveElement
      <4>3. IsFiniteSet(Weighed(f, s \ {x}))
        BY <4>2, WeighedFinite
      <4>4. Cardinality(Weighed(f, s)) = f[x] + Cardinality(Weighed(f, s \ {x}))
        BY <4>1, <4>2, <4>3, WeighedStep
      <4>5. c[s] = f[x] + c[s \ {x}]
        BY <4>4
      <4> QED  BY <3>2, <4>5 DEF x
    <3> QED  BY <3>1, <3>2
  <2> QED  BY <2>1 DEF SumTable
<1> DEFINE t == CHOOSE t : SumTable(f, S, t)
<1>2. SumTable(f, S, t)
  BY <1>1
<1> HIDE DEF t, c
<1> DEFINE H == {n \in Nat : \A s \in SUBSET S : Cardinality(s) = n => t[s] = c[s]}
<1>3. 0 \in H
  <2> SUFFICES ASSUME NEW s \in SUBSET S, Cardinality(s) = 0 PROVE t[s] = c[s]
    OBVIOUS
  <2>1. s = {}
    BY FS_EmptySet, FS_Subset
  <2> QED  BY <2>1, <1>1, <1>2 DEF SumTable
<1>4. ASSUME NEW n \in Nat, n \in H PROVE n + 1 \in H
  <2> SUFFICES ASSUME NEW s \in SUBSET S, Cardinality(s) = n + 1 PROVE t[s] = c[s]
    OBVIOUS
  <2>1. s # {}
    <3> SUFFICES ASSUME s = {} PROVE FALSE
      OBVIOUS
    <3>1. Cardinality(s) = 0
      BY FS_EmptySet
    <3> QED  BY <3>1
  <2> DEFINE x == CHOOSE x \in s : TRUE
  <2>2. x \in s
    BY <2>1
  <2>3. t[s] = f[x] + t[s \ {x}] /\ c[s] = f[x] + c[s \ {x}]
    BY <2>1, <1>1, <1>2 DEF SumTable
  <2> HIDE DEF x
  <2>4. IsFiniteSet(s)
    BY FS_Subset
  <2>5. Cardinality(s \ {x}) = n
    <3>1. Cardinality(s \ {x}) = Cardinality(s) - 1
      BY <2>2, <2>4, FS_RemoveElement
    <3> QED  BY <3>1
  <2>6. t[s \ {x}] = c[s \ {x}]
    BY <2>5, <1>4
  <2> QED  BY <2>3, <2>6
<1>5. H = Nat
  <2> HIDE DEF H
  <2>1. H \in SUBSET Nat
    BY DEF H
  <2> QED  BY <2>1, <1>3, <1>4, InductionOnNat
<1>6. t[S] = c[S]
  <2>1. Cardinality(S) \in H
    BY <1>5, FS_CardinalityType
  <2> QED  BY <2>1
<1> QED  BY <1>6, SumUnfolds DEF t, c


LEMMA SumType ==
    ASSUME NEW S, IsFiniteSet(S), NEW f, \A x \in S : f[x] \in Nat
    PROVE  SumFunctionOnSet(f, S) \in Nat
BY SumIsCount, WeighedFinite

LEMMA SumAgrees ==
    ASSUME NEW S, IsFiniteSet(S), NEW f, NEW g, \A x \in S : f[x] \in Nat /\ g[x] = f[x]
    PROVE  SumFunctionOnSet(g, S) = SumFunctionOnSet(f, S)
<1>1. Weighed(g, S) = Weighed(f, S)
  BY DEF Weighed
<1> QED  BY <1>1, SumIsCount

LEMMA SumSplits ==
    ASSUME NEW S, IsFiniteSet(S), NEW f, \A x \in S : f[x] \in Nat, NEW T \in SUBSET S
    PROVE  /\ SumFunctionOnSet(f, S) = SumFunctionOnSet(f, T) + SumFunctionOnSet(f, S \ T)
           /\ SumFunctionOnSet(f, T) \in Nat
           /\ SumFunctionOnSet(f, S \ T) \in Nat
<1> DEFINE A == Weighed(f, T)
           B == Weighed(f, S \ T)
<1>1. Weighed(f, S) = A \cup B /\ A \cap B = {}
  BY DEF Weighed
<1>2. IsFiniteSet(T) /\ IsFiniteSet(S \ T)
  BY FS_Subset, FS_Difference
<1>3. IsFiniteSet(A) /\ IsFiniteSet(B) /\ Cardinality(A) \in Nat /\ Cardinality(B) \in Nat
  BY <1>2, WeighedFinite
<1>4. /\ SumFunctionOnSet(f, S) = Cardinality(A \cup B)
      /\ SumFunctionOnSet(f, T) = Cardinality(A)
      /\ SumFunctionOnSet(f, S \ T) = Cardinality(B)
  BY <1>1, <1>2, SumIsCount
<1> HIDE DEF A, B
<1>5. Cardinality(A \cap B) = 0
  BY <1>1, FS_EmptySet
<1>6. Cardinality(A \cup B) = Cardinality(A) + Cardinality(B) - Cardinality(A \cap B)
  BY <1>3, FS_Union
<1> QED  BY <1>3, <1>4, <1>5, <1>6

LEMMA SumOfZeros ==
    ASSUME NEW S, IsFiniteSet(S), NEW f, \A x \in S : f[x] = 0
    PROVE  SumFunctionOnSet(f, S) = 0
<1>1. Weighed(f, S) = {}
  BY DEF Weighed
<1> QED  BY <1>1, SumIsCount, FS_EmptySet

LEMMA SumOfConstant ==
    ASSUME NEW S, IsFiniteSet(S), NEW c \in Nat, NEW f, \A x \in S : f[x] = c
    PROVE  SumFunctionOnSet(f, S) = Cardinality(S) * c
<1>1. Weighed(f, S) = S \X (1..c)
  BY DEF Weighed
<1>2. IsFiniteSet(1..c) /\ Cardinality(1..c) = c
  BY FS_Interval
<1>3. Cardinality(S \X (1..c)) = Cardinality(S) * Cardinality(1..c)
  BY <1>2, FS_Product
<1> QED  BY <1>1, <1>2, <1>3, SumIsCount

\* One more for each member of a subset.
LEMMA SumOneMore ==
    ASSUME NEW S, IsFiniteSet(S), NEW f, NEW g, NEW M \in SUBSET S,
           \A x \in S : g[x] \in Nat /\ f[x] = (IF x \in M THEN g[x] + 1 ELSE g[x])
    PROVE  SumFunctionOnSet(f, S) = SumFunctionOnSet(g, S) + Cardinality(M)
<1> DEFINE A == Weighed(g, S)
           B == {p \in S \X Nat : p[1] \in M /\ p[2] = f[p[1]]}
           b == [x \in M |-> <<x, f[x]>>]
<1>1. \A x \in S : f[x] \in Nat
  OBVIOUS
<1>2. Weighed(f, S) = A \cup B
  BY DEF Weighed
<1>3. A \cap B = {}
  BY DEF Weighed
<1>4. IsFiniteSet(M) /\ Cardinality(M) \in Nat
  BY FS_Subset, FS_CardinalityType
<1>5. b \in Bijection(M, B)
  <2>1. b \in [M -> B]
    BY <1>1
  <2>2. \A x, y \in M : b[x] = b[y] => x = y
    OBVIOUS
  <2>3. \A p \in B : \E x \in M : b[x] = p
    OBVIOUS
  <2> QED  BY <2>1, <2>2, <2>3 DEF Bijection, Injection, Surjection, IsInjective
<1> HIDE DEF b, B, A
<1>6. IsFiniteSet(B) /\ Cardinality(B) = Cardinality(M)
  BY <1>4, <1>5, FS_Bijection DEF ExistsBijection
<1>7. IsFiniteSet(A) /\ Cardinality(A) \in Nat /\ SumFunctionOnSet(g, S) = Cardinality(A)
  BY WeighedFinite, SumIsCount DEF A
<1>8. SumFunctionOnSet(f, S) = Cardinality(A \cup B)
  BY <1>1, <1>2, SumIsCount
<1>9. Cardinality(A \cap B) = 0
  BY <1>3, FS_EmptySet
<1>10. Cardinality(A \cup B) = Cardinality(A) + Cardinality(B) - Cardinality(A \cap B)
  BY <1>6, <1>7, FS_Union
<1> QED  BY <1>4, <1>6, <1>7, <1>8, <1>9, <1>10

-----------------------------------------------------------------------------
(* What Ordered lists: the members of a set, each once, in the order.      *)

StrictOrder(S, R) ==
    /\ \A x \in S : <<x, x>> \notin R
    /\ \A x, y, z \in S : <<x, y>> \in R /\ <<y, z>> \in R => <<x, z>> \in R
    /\ \A x, y \in S : x # y => <<x, y>> \in R \/ <<y, x>> \in R

Before(x, S, R) == {y \in S : <<y, x>> \in R}

LEMMA BeforeCounted ==
    ASSUME NEW S, IsFiniteSet(S), NEW R, StrictOrder(S, R), NEW x \in S
    PROVE  IsFiniteSet(Before(x, S, R)) /\ Cardinality(Before(x, S, R)) \in 0..Cardinality(S) - 1
<1> DEFINE n == Cardinality(S)
           B == Before(x, S, R)
<1>1. B \in SUBSET (S \ {x})
  BY DEF StrictOrder, Before
<1>2. IsFiniteSet(S \ {x}) /\ Cardinality(S \ {x}) = n - 1 /\ n \in Nat
  BY FS_RemoveElement, FS_CardinalityType
<1> HIDE DEF n, B
<1>3. IsFiniteSet(B) /\ Cardinality(B) <= n - 1
  BY <1>1, <1>2, FS_Subset
<1>4. Cardinality(B) \in Nat
  BY <1>3, FS_CardinalityType
<1> QED  BY <1>2, <1>3, <1>4 DEF n, B

LEMMA BeforeGrows ==
    ASSUME NEW S, IsFiniteSet(S), NEW R, StrictOrder(S, R), NEW x \in S, NEW y \in S, <<x, y>> \in R
    PROVE  Cardinality(Before(x, S, R)) < Cardinality(Before(y, S, R))
<1> DEFINE A == Before(x, S, R)
           B == Before(y, S, R)
<1>1. A \in SUBSET B /\ x \in B /\ x \notin A
  BY DEF StrictOrder, Before
<1>2. IsFiniteSet(A) /\ IsFiniteSet(B)
  BY BeforeCounted
<1>3. Cardinality(A) \in Nat /\ Cardinality(B) \in Nat
  BY <1>2, FS_CardinalityType
<1>4. Cardinality(A) <= Cardinality(B) /\ (Cardinality(B) = Cardinality(A) => B = A)
  <2> HIDE DEF A, B
  <2> QED  BY <1>1, <1>2, FS_Subset
<1> QED  BY <1>1, <1>3, <1>4

\* Members with fewer than a limit before them: at most as many.
FirstFew(S, R, limit) == {x \in S : Cardinality(Before(x, S, R)) < limit}

LEMMA FirstFewCounted ==
    ASSUME NEW S, IsFiniteSet(S), NEW R, StrictOrder(S, R), NEW limit \in Nat
    PROVE  Cardinality(FirstFew(S, R, limit)) <= limit
<1> DEFINE F == FirstFew(S, R, limit)
           place == [x \in F |-> Cardinality(Before(x, S, R))]
<1>1. F \in SUBSET S
  BY DEF FirstFew
<1>2. ASSUME NEW x \in F PROVE place[x] \in 0..limit - 1
  <2>1. Cardinality(Before(x, S, R)) \in 0..Cardinality(S) - 1 /\ Cardinality(Before(x, S, R)) < limit
    BY <1>1, BeforeCounted DEF FirstFew
  <2> QED  BY <2>1
<1>3. ASSUME NEW x \in F, NEW y \in F, place[x] = place[y] PROVE x = y
  <2>1. x \in S /\ y \in S
    BY <1>1
  <2>2. Cardinality(Before(x, S, R)) = Cardinality(Before(y, S, R))
    BY <1>3
  <2>3. Cardinality(Before(x, S, R)) \in Int
    BY <2>1, BeforeCounted
  <2>4. <<x, y>> \notin R
    <3> SUFFICES ASSUME <<x, y>> \in R PROVE FALSE
      OBVIOUS
    <3>1. Cardinality(Before(x, S, R)) < Cardinality(Before(y, S, R))
      BY <2>1, BeforeGrows
    <3> QED  BY <3>1, <2>2, <2>3
  <2>5. <<y, x>> \notin R
    <3> SUFFICES ASSUME <<y, x>> \in R PROVE FALSE
      OBVIOUS
    <3>1. Cardinality(Before(y, S, R)) < Cardinality(Before(x, S, R))
      BY <2>1, BeforeGrows
    <3> QED  BY <3>1, <2>2, <2>3
  <2> QED  BY <2>1, <2>4, <2>5 DEF StrictOrder
<1>4. place \in Injection(F, 0..limit - 1)
  <2>1. place \in [F -> 0..limit - 1]
    BY <1>2
  <2> HIDE DEF place, F
  <2> QED  BY <1>3, <2>1 DEF Injection, IsInjective
<1>5. IsFiniteSet(0..limit - 1) /\ Cardinality(0..limit - 1) = limit
  <2>1. IsFiniteSet(0..limit - 1) /\ Cardinality(0..limit - 1) = IF 0 > limit - 1 THEN 0 ELSE limit - 1 - 0 + 1
    BY FS_Interval
  <2> QED  BY <2>1
<1>6. Cardinality(F) <= Cardinality(0..limit - 1)
  <2> HIDE DEF place, F
  <2> QED  BY <1>4, <1>5, FS_Injection
<1> QED  BY <1>5, <1>6

LEMMA OrderedLists ==
    ASSUME NEW S, IsFiniteSet(S), NEW R, StrictOrder(S, R)
    PROVE  /\ Cardinality(S) \in Nat
           /\ Ordered(S, R) \in [1..Cardinality(S) -> S]
           /\ \A j, k \in 1..Cardinality(S) : j < k => <<Ordered(S, R)[j], Ordered(S, R)[k]>> \in R
           /\ \A x \in S : \E k \in 1..Cardinality(S) : Ordered(S, R)[k] = x
           /\ \A j, k \in 1..Cardinality(S) : Ordered(S, R)[j] = Ordered(S, R)[k] => j = k
<1> DEFINE n == Cardinality(S)
           Below(x) == {y \in S : <<y, x>> \in R}
           rank == [x \in S |-> Cardinality(Below(x))]
<1>1. n \in Nat
  BY FS_CardinalityType
<1>2. ASSUME NEW x \in S PROVE rank[x] \in 0..n - 1
  BY BeforeCounted DEF Before
<1>3. ASSUME NEW x \in S, NEW y \in S, <<x, y>> \in R
      PROVE  rank[x] < rank[y]
  <2>1. Cardinality(Before(x, S, R)) < Cardinality(Before(y, S, R))
    BY <1>3, BeforeGrows
  <2> QED  BY <2>1 DEF Before
<1>4. rank \in Injection(S, 0..n - 1)
  <2>1. rank \in [S -> 0..n - 1]
    BY <1>2
  <2>2. ASSUME NEW x \in S, NEW y \in S, rank[x] = rank[y] PROVE x = y
    <3> HIDE DEF rank, n
    <3>1. ~(rank[x] < rank[y]) /\ ~(rank[y] < rank[x])
      <4>1. rank[x] \in 0..n - 1 /\ rank[y] \in 0..n - 1
        BY <2>1
      <4> QED  BY <4>1, <2>2, <1>1
    <3>2. <<x, y>> \notin R /\ <<y, x>> \notin R
      BY <3>1, <1>3
    <3> QED  BY <3>2 DEF StrictOrder
  <2> HIDE DEF rank, n
  <2> QED  BY <2>1, <2>2 DEF Injection, IsInjective
<1> HIDE DEF rank
<1>5. rank \in Surjection(S, 0..n - 1)
  <2>1. IsFiniteSet(0..n - 1) /\ Cardinality(0..n - 1) = n
    <3> HIDE DEF n
    <3>1. IsFiniteSet(0..n - 1) /\ Cardinality(0..n - 1) = IF 0 > n - 1 THEN 0 ELSE n - 1 - 0 + 1
      BY <1>1, FS_Interval
    <3> QED  BY <3>1, <1>1
  <2> QED  BY <2>1, <1>4, FS_Injection
<1> DEFINE o == Ordered(S, R)
<1>6. ASSUME NEW k \in 1..n PROVE o[k] \in S /\ rank[o[k]] = k - 1
  <2> HIDE DEF n
  <2>1. k - 1 \in 0..n - 1
    BY <1>1
  <2>2. \E x \in S : rank[x] = k - 1
    BY <2>1, <1>5 DEF Surjection
  <2>3. \E x \in S : Cardinality({y \in S : <<y, x>> \in R}) = k - 1
    BY <2>2 DEF rank
  <2>4. o[k] = CHOOSE x \in S : Cardinality({y \in S : <<y, x>> \in R}) = k - 1
    BY DEF Ordered, n
  <2>5. o[k] \in S /\ Cardinality({y \in S : <<y, o[k]>> \in R}) = k - 1
    <3> HIDE DEF o
    <3> QED  BY <2>3, <2>4
  <2> QED  BY <2>5 DEF rank
<1>7. o \in [1..n -> S]
  <2> DEFINE e(k) == CHOOSE x \in S : Cardinality({y \in S : <<y, x>> \in R}) = k - 1
  <2>1. o = [k \in 1..n |-> e(k)]
    BY DEF Ordered
  <2> HIDE DEF o, n, e
  <2>2. \A k \in 1..n : e(k) = o[k]
    BY <2>1
  <2> QED  BY <2>1, <2>2, <1>6
<1> HIDE DEF o, n
<1>8. ASSUME NEW j \in 1..n, NEW k \in 1..n, j < k PROVE <<o[j], o[k]>> \in R
  <2>1. o[j] \in S /\ o[k] \in S /\ rank[o[j]] = j - 1 /\ rank[o[k]] = k - 1
    BY <1>6
  <2>2. ~(rank[o[k]] < rank[o[j]]) /\ rank[o[k]] # rank[o[j]]
    BY <2>1, <1>8
  <2> QED  BY <2>1, <2>2, <1>3 DEF StrictOrder
<1>9. ASSUME NEW x \in S PROVE \E k \in 1..n : o[k] = x
  <2>1. rank[x] \in 0..n - 1
    BY <1>4 DEF Injection
  <2> DEFINE k == rank[x] + 1
  <2>2. k \in 1..n /\ k - 1 = rank[x]
    BY <2>1, <1>1
  <2> HIDE DEF k
  <2>3. o[k] \in S /\ rank[o[k]] = rank[x]
    BY <2>2, <1>6
  <2> QED  BY <2>2, <2>3, <1>4 DEF Injection, IsInjective
<1>10. ASSUME NEW j \in 1..n, NEW k \in 1..n, o[j] = o[k] PROVE j = k
  <2>1. rank[o[j]] = j - 1 /\ rank[o[k]] = k - 1
    BY <1>6
  <2>2. j - 1 = k - 1
    BY <2>1, <1>10
  <2> QED  BY <2>2, <1>1
<1> QED  BY <1>1, <1>7, <1>8, <1>9, <1>10 DEF o, n


-----------------------------------------------------------------------------
(* The cost of a plan, and what taking a card out of it saves.             *)

\* What the plan of some cards needs to be so: finitely many scopes, each
\* known by its reference.
Plannable(ids, cs) ==
    /\ IsFiniteSet(ids)
    /\ \A i \in ids : IsFiniteSet(cs[i].scopes) /\ cs[i].scopes # {}
    /\ \A s \in ScopesOf(ids, cs) : s.bytes \in Nat
    /\ \A s, t \in ScopesOf(ids, cs) : s.ref = t.ref => s = t

LEMMA PlanScopesFinite ==
    ASSUME NEW ids, NEW cs, Plannable(ids, cs)
    PROVE  IsFiniteSet(ScopesOf(ids, cs))
<1> DEFINE all == {cs[i].scopes : i \in ids}
           scope == [i \in ids |-> cs[i].scopes]
<1>1. scope \in Surjection(ids, all)
  BY DEF Surjection
<1>2. IsFiniteSet(all)
  BY <1>1, FS_Surjection DEF Plannable
<1>3. \A X \in all : IsFiniteSet(X)
  BY DEF Plannable
<1>4. IsFiniteSet(UNION all)
  <2> HIDE DEF all
  <2> QED  BY <1>2, <1>3, FS_UNION
<1> QED  BY <1>4 DEF ScopesOf

LEMMA FewerPlannable ==
    ASSUME NEW ids, NEW cs, Plannable(ids, cs), NEW some \in SUBSET ids
    PROVE  Plannable(some, cs) /\ ScopesOf(some, cs) \subseteq ScopesOf(ids, cs)
<1>1. ScopesOf(some, cs) \subseteq ScopesOf(ids, cs)
  BY DEF ScopesOf
<1>2. IsFiniteSet(some)
  BY FS_Subset DEF Plannable
<1> QED  BY <1>1, <1>2 DEF Plannable

\* Managed scopes and targets correspond.
LEMMA TargetsCount ==
    ASSUME NEW X, IsFiniteSet(X), \A s, t \in X : s.ref = t.ref => s = t
    PROVE  /\ IsFiniteSet(Managed(X)) /\ IsFiniteSet(PlanTargets(X))
           /\ Cardinality(PlanTargets(X)) = Cardinality(Managed(X))
           /\ LimitsOf(PlanTargets(X)) = Cardinality(Managed(X)) * ChunkLimit
<1> DEFINE M == Managed(X)
           P == PlanTargets(X)
           to == [s \in M |-> [ref |-> s.ref, limit |-> ChunkLimit]]
           limit == [t \in P |-> t.limit]
<1>1. M \in SUBSET X
  BY DEF Managed
<1>2. IsFiniteSet(M)
  BY <1>1, FS_Subset
<1>3. to \in Bijection(M, P)
  <2>1. to \in [M -> P]
    BY DEF PlanTargets
  <2>2. ASSUME NEW s \in M, NEW t \in M, to[s] = to[t] PROVE s = t
    <3>1. to[s].ref = s.ref /\ to[t].ref = t.ref
      OBVIOUS
    <3> QED  BY <3>1, <2>2, <1>1
  <2>3. \A p \in P : \E s \in M : to[s] = p
    BY DEF PlanTargets
  <2> HIDE DEF to, P, M
  <2> QED  BY <2>1, <2>2, <2>3 DEF Bijection, Injection, Surjection, IsInjective
<1>4. IsFiniteSet(P) /\ Cardinality(P) = Cardinality(M)
  <2> HIDE DEF to, P, M
  <2> QED  BY <1>2, <1>3, FS_Bijection DEF ExistsBijection
<1>5. ChunkLimit \in Nat
  BY PlanningAssumption
<1>6. \A t \in P : limit[t] = ChunkLimit
  BY DEF PlanTargets
<1>7. LimitsOf(P) = SumFunctionOnSet(limit, P)
  BY DEF LimitsOf, SumFunction
<1>8. SumFunctionOnSet(limit, P) = Cardinality(P) * ChunkLimit
  <2> HIDE DEF limit, P
  <2> QED  BY <1>4, <1>5, <1>6, SumOfConstant
<1> QED  BY <1>2, <1>4, <1>7, <1>8

LEMMA BytesAre ==
    ASSUME NEW S, IsFiniteSet(S), \A s \in S : s.bytes \in Nat, NEW X \in SUBSET S
    PROVE  /\ BytesOf(X) = SumFunctionOnSet([s \in S |-> s.bytes], X)
           /\ BytesOf(X) \in Nat
<1> DEFINE f == [s \in S |-> s.bytes]
           g == [s \in X |-> s.bytes]
<1>1. BytesOf(X) = SumFunctionOnSet(g, X)
  BY DEF BytesOf, SumFunction
<1>2. IsFiniteSet(X)
  BY FS_Subset
<1>3. \A s \in X : f[s] \in Nat /\ g[s] = f[s]
  OBVIOUS
<1> HIDE DEF f, g
<1>4. SumFunctionOnSet(g, X) = SumFunctionOnSet(f, X)
  BY <1>2, <1>3, SumAgrees
<1>5. SumFunctionOnSet(f, X) \in Nat
  BY <1>2, <1>3, SumType
<1> QED  BY <1>1, <1>4, <1>5 DEF f

LEMMA BytesSplit ==
    ASSUME NEW S, IsFiniteSet(S), \A s \in S : s.bytes \in Nat, NEW X \in SUBSET S
    PROVE  /\ BytesOf(S) = BytesOf(X) + BytesOf(S \ X)
           /\ BytesOf(X) \in Nat /\ BytesOf(S \ X) \in Nat
<1> DEFINE f == [s \in S |-> s.bytes]
<1>1. \A s \in S : f[s] \in Nat
  OBVIOUS
<1>2. /\ BytesOf(S) = SumFunctionOnSet(f, S)
      /\ BytesOf(X) = SumFunctionOnSet(f, X)
      /\ BytesOf(S \ X) = SumFunctionOnSet(f, S \ X)
  BY BytesAre
<1> HIDE DEF f
<1> QED  BY <1>1, <1>2, SumSplits

\* A part of a finite set and the rest of it.
LEMMA CardSplit ==
    ASSUME NEW S, IsFiniteSet(S), NEW X \in SUBSET S
    PROVE  /\ IsFiniteSet(X) /\ IsFiniteSet(S \ X)
           /\ Cardinality(S) \in Nat /\ Cardinality(X) \in Nat /\ Cardinality(S \ X) \in Nat
           /\ Cardinality(S) = Cardinality(X) + Cardinality(S \ X)
<1>1. IsFiniteSet(X) /\ IsFiniteSet(S \ X)
  BY FS_Subset, FS_Difference
<1>2. Cardinality(S) \in Nat /\ Cardinality(X) \in Nat /\ Cardinality(S \ X) \in Nat
  BY <1>1, FS_CardinalityType
<1>3. Cardinality(S \ X) = Cardinality(S) - Cardinality(S \cap X) /\ S \cap X = X
  BY FS_Difference
<1> QED  BY <1>1, <1>2, <1>3


\* The scopes only one card asks for.
LEMMA OnlyScopes ==
    ASSUME NEW ids, NEW cs, NEW id \in ids
    PROVE  /\ DOMAIN PlanItems(ids, cs) = ScopesOf(ids, cs)
           /\ cs[id].scopes \subseteq ScopesOf(ids, cs)
           /\ \A s \in ScopesOf(ids, cs) :
                 /\ PlanItems(ids, cs)[s] = {id} <=> s \notin ScopesOf(ids \ {id}, cs)
                 /\ id \in PlanItems(ids, cs)[s] <=> s \in cs[id].scopes
<1> DEFINE S == ScopesOf(ids, cs)
           items == PlanItems(ids, cs)
<1>1. DOMAIN items = S /\ \A s \in S : items[s] = {i \in ids : s \in cs[i].scopes}
  BY DEF PlanItems
<1>2. \A s : s \in S <=> \E i \in ids : s \in cs[i].scopes
  BY DEF ScopesOf
<1>3. \A s : s \in ScopesOf(ids \ {id}, cs) <=> \E i \in ids \ {id} : s \in cs[i].scopes
  BY DEF ScopesOf
<1>4. ASSUME NEW s \in S PROVE items[s] = {id} <=> s \notin ScopesOf(ids \ {id}, cs)
  <2>1. PICK i \in ids : s \in cs[i].scopes
    BY <1>2
  <2>2. i \in items[s]
    BY <2>1, <1>1
  <2>3. ASSUME items[s] = {id} PROVE s \notin ScopesOf(ids \ {id}, cs)
    <3> HIDE DEF S, items
    <3>1. \A j \in ids : s \in cs[j].scopes => j = id
      BY <2>3, <1>1
    <3> QED  BY <3>1, <1>3
  <2>4. ASSUME s \notin ScopesOf(ids \ {id}, cs) PROVE items[s] = {id}
    <3> HIDE DEF S, items
    <3>1. \A j \in ids : s \in cs[j].scopes => j = id
      BY <2>4, <1>3
    <3>2. i = id
      BY <2>1, <3>1
    <3> QED  BY <3>1, <3>2, <2>2, <1>1
  <2> QED  BY <2>3, <2>4
<1> HIDE DEF S, items
<1>5. cs[id].scopes \subseteq S
  BY <1>2
<1>6. \A s \in S : id \in items[s] <=> s \in cs[id].scopes
  BY <1>1
<1> QED  BY <1>1, <1>4, <1>5, <1>6 DEF S, items

\* How often the cards of a plan ask for something, with a card and without.
LEMMA AttributionsSplit ==
    ASSUME NEW ids, NEW cs, Plannable(ids, cs), NEW id \in ids
    PROVE  LET asked(of) == SumFunction([s \in ScopesOf(of, cs) |-> Cardinality(PlanItems(of, cs)[s])])
           IN /\ asked(ids) = asked(ids \ {id}) + Cardinality(cs[id].scopes)
              /\ asked(ids \ {id}) \in Nat
<1> DEFINE S == ScopesOf(ids, cs)
           S1 == ScopesOf(ids \ {id}, cs)
           M == cs[id].scopes
           items == PlanItems(ids, cs)
           items1 == PlanItems(ids \ {id}, cs)
           f == [s \in S |-> Cardinality(items[s])]
           g == [s \in S |-> Cardinality(items[s] \ {id})]
           h == [s \in S1 |-> Cardinality(items1[s])]
<1>1. IsFiniteSet(S) /\ S1 \subseteq S
  BY PlanScopesFinite, FewerPlannable
<1>2. M \subseteq S /\ \A s \in S : (id \in items[s] <=> s \in M) /\ (items[s] = {id} <=> s \notin S1)
  BY OnlyScopes
<1>3. \A s \in S : items[s] \in SUBSET ids
  BY DEF PlanItems
<1>4. \A s \in S1 : items1[s] = items[s] \ {id}
  BY <1>1 DEF PlanItems
<1> HIDE DEF items, items1, S, S1, M
<1>5. ASSUME NEW s \in S
      PROVE  g[s] \in Nat /\ f[s] = IF s \in M THEN g[s] + 1 ELSE g[s]
  <2> DEFINE I == items[s]
  <2>1. IsFiniteSet(I)
    BY <1>3, FS_Subset DEF Plannable
  <2>2. s \in M <=> id \in I
    BY <1>2
  <2> HIDE DEF I
  <2>3. Cardinality(I) \in Nat /\ Cardinality(I \ {id}) = IF id \in I THEN Cardinality(I) - 1 ELSE Cardinality(I)
    BY <2>1, FS_CardinalityType, FS_RemoveElement
  <2>4. Cardinality(I \ {id}) \in Nat
    BY <2>1, FS_RemoveElement, FS_CardinalityType
  <2>5. g[s] = Cardinality(I \ {id}) /\ f[s] = Cardinality(I)
    BY DEF I
  <2> HIDE DEF f, g
  <2> QED  BY <2>2, <2>3, <2>4, <2>5
<1>6. \A s \in S1 : g[s] \in Nat /\ h[s] = g[s]
  BY <1>1, <1>4, <1>5
<1>7. \A s \in S \ S1 : g[s] = 0
  <2> SUFFICES ASSUME NEW s \in S \ S1 PROVE g[s] = 0
    OBVIOUS
  <2>1. items[s] = {id}
    BY <1>2
  <2>2. items[s] \ {id} = {}
    BY <2>1
  <2> QED  BY <2>2, FS_EmptySet
<1>8. SumFunction(f) = SumFunctionOnSet(f, S) /\ SumFunction(h) = SumFunctionOnSet(h, S1)
  BY DEF SumFunction
<1> HIDE DEF f, g, h
<1>9. SumFunctionOnSet(f, S) = SumFunctionOnSet(g, S) + Cardinality(M)
  BY <1>1, <1>2, <1>5, SumOneMore
<1>10. IsFiniteSet(S1) /\ IsFiniteSet(S \ S1)
  BY <1>1, FS_Subset, FS_Difference
<1>11. /\ SumFunctionOnSet(g, S) = SumFunctionOnSet(g, S1) + SumFunctionOnSet(g, S \ S1)
       /\ SumFunctionOnSet(g, S1) \in Nat
  BY <1>1, <1>5, SumSplits
<1>12. SumFunctionOnSet(g, S \ S1) = 0
  BY <1>7, <1>10, SumOfZeros
<1>13. SumFunctionOnSet(h, S1) = SumFunctionOnSet(g, S1)
  BY <1>6, <1>10, SumAgrees
<1>14. SumFunction(f) = SumFunction(h) + Cardinality(M) /\ SumFunction(h) \in Nat
  BY <1>8, <1>9, <1>11, <1>12, <1>13
<1> QED  BY <1>14 DEF f, h, S, S1, M, items, items1

\* What a card alone asks for is what taking it out saves.
LEMMA SavingsAre ==
    ASSUME NEW ids, NEW cs, Plannable(ids, cs), NEW id \in ids
    PROVE  LET only == ScopesOf(ids, cs) \ ScopesOf(ids \ {id}, cs)
           IN RemovalSavings(id, ids, cs) =
                [targets |-> Cardinality(PlanTargets(only)), chunks |-> LimitsOf(PlanTargets(only)),
                 delegated |-> Cardinality(only \ Managed(only)), bytes |-> BytesOf(only),
                 selectedBy |-> Cardinality(cs[id].scopes), cards |-> 1]
<1> DEFINE S == ScopesOf(ids, cs)
           S1 == ScopesOf(ids \ {id}, cs)
           only == S \ S1
           exact == {t \in PlanTargets(only) : Cardinality({s \in Managed(S) : s.ref = t.ref}) = 1}
           saved == RemovalSavings(id, ids, cs)
<1>1. \A s, t \in S : s.ref = t.ref => s = t
  BY DEF Plannable
<1>2. saved = [targets |-> Cardinality(exact), chunks |-> LimitsOf(exact),
               delegated |-> Cardinality(only \ Managed(only)), bytes |-> BytesOf(only),
               selectedBy |-> Cardinality(cs[id].scopes), cards |-> 1]
  <2> HIDE DEF S, S1
  <2>1. /\ DOMAIN PlanItems(ids, cs) = S /\ cs[id].scopes \subseteq S
        /\ \A s \in S : /\ PlanItems(ids, cs)[s] = {id} <=> s \notin S1
                        /\ id \in PlanItems(ids, cs)[s] <=> s \in cs[id].scopes
    BY OnlyScopes DEF S, S1
  <2>2. /\ {s \in S : PlanItems(ids, cs)[s] = {id}} = only
        /\ {s \in S : id \in PlanItems(ids, cs)[s]} = cs[id].scopes
    BY <2>1
  <2> HIDE DEF only
  <2> QED  BY <2>1, <2>2 DEF RemovalSavings
<1>3. exact = PlanTargets(only)
  <2> SUFFICES ASSUME NEW t \in PlanTargets(only)
               PROVE  Cardinality({s \in Managed(S) : s.ref = t.ref}) = 1
    OBVIOUS
  <2>1. PICK s \in Managed(only) : t = [ref |-> s.ref, limit |-> ChunkLimit]
    BY DEF PlanTargets
  <2>2. s \in Managed(S) /\ t.ref = s.ref
    BY <2>1 DEF Managed
  <2>3. {u \in Managed(S) : u.ref = t.ref} = {s}
    BY <2>2, <1>1 DEF Managed
  <2> QED  BY <2>3, FS_Singleton
<1> HIDE DEF exact
<1> QED  BY <1>2, <1>3

\* The running cost of the planner is the cost measured again.
LEMMA RemovalIsExact ==
    ASSUME NEW ids, NEW cs, Plannable(ids, cs), NEW id \in ids
    PROVE  MeasurePlanCost(ids \ {id}, cs)
             = SubtractPlanCost(MeasurePlanCost(ids, cs), RemovalSavings(id, ids, cs))
<1> DEFINE S == ScopesOf(ids, cs)
           S1 == ScopesOf(ids \ {id}, cs)
           only == S \ S1
           asked(of) == SumFunction([s \in ScopesOf(of, cs) |-> Cardinality(PlanItems(of, cs)[s])])
           before == MeasurePlanCost(ids, cs)
           after == MeasurePlanCost(ids \ {id}, cs)
           saved == RemovalSavings(id, ids, cs)
<1>1. IsFiniteSet(S) /\ S1 \in SUBSET S /\ only \in SUBSET S /\ IsFiniteSet(S1) /\ IsFiniteSet(only)
  <2>1. IsFiniteSet(S) /\ S1 \in SUBSET S
    BY PlanScopesFinite, FewerPlannable
  <2> QED  BY <2>1, CardSplit
<1>2. \A s, t \in S : s.ref = t.ref => s = t
  BY DEF Plannable
<1>3. \A s \in S : s.bytes \in Nat
  BY DEF Plannable
<1>4. before = [targets |-> Cardinality(PlanTargets(S)), chunks |-> LimitsOf(PlanTargets(S)),
                delegated |-> Cardinality(S \ Managed(S)), bytes |-> BytesOf(S),
                selectedBy |-> asked(ids), cards |-> Cardinality(ids)]
  BY DEF MeasurePlanCost, CostOf, PlanItems
<1>5. after = [targets |-> Cardinality(PlanTargets(S1)), chunks |-> LimitsOf(PlanTargets(S1)),
               delegated |-> Cardinality(S1 \ Managed(S1)), bytes |-> BytesOf(S1),
               selectedBy |-> asked(ids \ {id}), cards |-> Cardinality(ids \ {id})]
  BY DEF MeasurePlanCost, CostOf, PlanItems
<1>6. saved = [targets |-> Cardinality(PlanTargets(only)), chunks |-> LimitsOf(PlanTargets(only)),
               delegated |-> Cardinality(only \ Managed(only)), bytes |-> BytesOf(only),
               selectedBy |-> Cardinality(cs[id].scopes), cards |-> 1]
  BY SavingsAre
<1> HIDE DEF S, S1, asked
<1>8. /\ \A s, t \in S1 : s.ref = t.ref => s = t
      /\ \A s, t \in only : s.ref = t.ref => s = t
  BY <1>1, <1>2
<1>9. Managed(S1) = Managed(S) \cap S1 /\ Managed(only) = Managed(S) \ S1
  BY <1>1 DEF Managed
<1>10. IsFiniteSet(Managed(S)) /\ Managed(S) \in SUBSET S
  BY <1>1, FS_Subset DEF Managed
<1>11. /\ Cardinality(Managed(S)) = Cardinality(Managed(S1)) + Cardinality(Managed(only))
       /\ Cardinality(Managed(S1)) \in Nat /\ Cardinality(Managed(only)) \in Nat
  <2> DEFINE A == Managed(S)
             B == Managed(S) \cap S1
  <2>1. B \in SUBSET A /\ A \ B = Managed(S) \ S1
    OBVIOUS
  <2> HIDE DEF B
  <2>2. Cardinality(A) = Cardinality(B) + Cardinality(A \ B) /\ Cardinality(B) \in Nat /\ Cardinality(A \ B) \in Nat
    BY <1>10, <2>1, CardSplit
  <2> QED  BY <2>1, <2>2, <1>9 DEF B
<1>12. /\ Cardinality(PlanTargets(S)) = Cardinality(Managed(S))
       /\ LimitsOf(PlanTargets(S)) = Cardinality(Managed(S)) * ChunkLimit
       /\ Cardinality(PlanTargets(S1)) = Cardinality(Managed(S1))
       /\ LimitsOf(PlanTargets(S1)) = Cardinality(Managed(S1)) * ChunkLimit
       /\ Cardinality(PlanTargets(only)) = Cardinality(Managed(only))
       /\ LimitsOf(PlanTargets(only)) = Cardinality(Managed(only)) * ChunkLimit
  <2> HIDE DEF only
  <2> QED  BY <1>1, <1>2, <1>8, TargetsCount
<1>13. Cardinality(PlanTargets(S1)) = Cardinality(PlanTargets(S)) - Cardinality(PlanTargets(only))
  BY <1>11, <1>12
<1>14. LimitsOf(PlanTargets(S1)) = LimitsOf(PlanTargets(S)) - LimitsOf(PlanTargets(only))
  <2> DEFINE a == Cardinality(Managed(S1))
             b == Cardinality(Managed(only))
  <2>1. a \in Nat /\ b \in Nat /\ ChunkLimit \in Nat
    BY <1>11, PlanningAssumption
  <2>2. LimitsOf(PlanTargets(S)) = (a + b) * ChunkLimit
    BY <1>11, <1>12
  <2>3. LimitsOf(PlanTargets(only)) = b * ChunkLimit /\ LimitsOf(PlanTargets(S1)) = a * ChunkLimit
    BY <1>12
  <2> HIDE DEF a, b
  <2>4. a * ChunkLimit = (a + b) * ChunkLimit - b * ChunkLimit
    BY <2>1
  <2> QED  BY <2>2, <2>3, <2>4
<1>15. Cardinality(S1 \ Managed(S1)) = Cardinality(S \ Managed(S)) - Cardinality(only \ Managed(only))
  <2> DEFINE A == S \ Managed(S)
             B == S1 \ Managed(S1)
  <2>1. B \in SUBSET A /\ A \ B = only \ Managed(only)
    BY <1>1, <1>9
  <2>2. IsFiniteSet(A)
    BY <1>1, FS_Difference
  <2> HIDE DEF A, B
  <2>3. /\ Cardinality(A) = Cardinality(B) + Cardinality(A \ B)
        /\ Cardinality(B) \in Nat /\ Cardinality(A \ B) \in Nat
    BY <2>1, <2>2, CardSplit
  <2>4. Cardinality(B) = Cardinality(A) - Cardinality(A \ B)
    BY <2>3
  <2> QED  BY <2>1, <2>4 DEF A, B
<1>16. BytesOf(S1) = BytesOf(S) - BytesOf(only)
  <2>1. BytesOf(S) = BytesOf(S1) + BytesOf(only) /\ BytesOf(S1) \in Nat /\ BytesOf(only) \in Nat
    BY <1>1, <1>3, BytesSplit
  <2> QED  BY <2>1
<1>17. asked(ids \ {id}) = asked(ids) - Cardinality(cs[id].scopes)
  <2>1. IsFiniteSet(cs[id].scopes)
    BY DEF Plannable
  <2>2. Cardinality(cs[id].scopes) \in Nat
    BY <2>1, FS_CardinalityType
  <2>3. asked(ids) = asked(ids \ {id}) + Cardinality(cs[id].scopes) /\ asked(ids \ {id}) \in Nat
    BY AttributionsSplit, ZenonT(60) DEF asked
  <2> QED  BY <2>2, <2>3
<1>18. Cardinality(ids \ {id}) = Cardinality(ids) - 1
  BY FS_RemoveElement DEF Plannable
<1> HIDE DEF before, after, saved, only
<1>19. SubtractPlanCost(before, saved) =
          [targets |-> before.targets - saved.targets, chunks |-> before.chunks - saved.chunks,
           delegated |-> before.delegated - saved.delegated, bytes |-> before.bytes - saved.bytes,
           selectedBy |-> before.selectedBy - saved.selectedBy, cards |-> before.cards - saved.cards]
  BY <1>4 DEF SubtractPlanCost
<1>20. SubtractPlanCost(before, saved) = after
  BY <1>19, <1>4, <1>5, <1>6, <1>13, <1>14, <1>15, <1>16, <1>17, <1>18
<1> QED  BY <1>20 DEF before, after, saved


-----------------------------------------------------------------------------
(* Scores are numbers, and without a match they stay below the thresholds. *)

Tabled(m) == \A n \in 2..m : n \in DOMAIN LogRatio /\ 1..n \subseteq DOMAIN LogRatio[n]

LEMMA SpecificityBounded ==
    ASSUME NEW m \in Nat, Tabled(m), NEW n \in 0..m, NEW f \in 0..n
    PROVE  DeclaredSpecificity(n, f) \in 0..100
<1> DEFINE shared == IF f < 1 THEN 1 ELSE f
<1>1. DeclaredSpecificity(n, f) = IF n <= 1 THEN 100 ELSE LogRatio[n][shared]
  BY DEF DeclaredSpecificity
<1>2. ASSUME n > 1 PROVE LogRatio[n][shared] \in 0..100
  <2>1. n \in 2..m /\ shared \in 1..n
    BY <1>2
  <2>2. n \in DOMAIN LogRatio /\ shared \in DOMAIN LogRatio[n]
    BY <2>1 DEF Tabled
  <2> QED  BY <2>2, ScoringAssumption
<1> HIDE DEF shared
<1> QED  BY <1>1, <1>2

LEMMA FrequencyBounded ==
    ASSUME NEW q, NEW cs, IsFiniteSet(cs)
    PROVE  /\ Cardinality(ScoringCards(q, cs)) \in 0..Cardinality(cs)
           /\ Cardinality(cs) \in Nat
           /\ \A t : DocumentFrequency(t, q, cs) \in 0..Cardinality(ScoringCards(q, cs))
           /\ \A t, kinds : DeclaredFrequency(t, kinds, q, cs) \in 0..Cardinality(ScoringCards(q, cs))
<1> DEFINE SC == ScoringCards(q, cs)
<1>1. SC \in SUBSET cs
  BY DEF ScoringCards
<1>2. IsFiniteSet(SC) /\ Cardinality(SC) <= Cardinality(cs)
  BY <1>1, FS_Subset
<1>3. Cardinality(SC) \in Nat /\ Cardinality(cs) \in Nat
  BY <1>2, FS_CardinalityType
<1>4. ASSUME NEW X \in SUBSET SC PROVE Cardinality(X) \in 0..Cardinality(SC)
  <2> HIDE DEF SC
  <2>1. IsFiniteSet(X) /\ Cardinality(X) <= Cardinality(SC)
    BY <1>2, FS_Subset
  <2>2. Cardinality(X) \in Nat
    BY <2>1, FS_CardinalityType
  <2> QED  BY <2>1, <2>2, <1>3
<1>5. ASSUME NEW t PROVE DocumentFrequency(t, q, cs) \in 0..Cardinality(SC)
  <2> HIDE DEF SC
  <2> QED  BY <1>4 DEF DocumentFrequency, SC
<1>6. ASSUME NEW t, NEW kinds PROVE DeclaredFrequency(t, kinds, q, cs) \in 0..Cardinality(SC)
  <2> HIDE DEF SC
  <2> QED  BY <1>4 DEF DeclaredFrequency, SC
<1> QED  BY <1>2, <1>3, <1>5, <1>6

LEMMA MatchesBounded ==
    ASSUME NEW q, NEW card, NEW cs, IsFiniteSet(cs), Tabled(Cardinality(cs)),
           \A f \in card.fields : DOMAIN f.tokens # {},
           NEW m \in Matches(q, card, cs)
    PROVE  m.specificity \in 0..100
<1> DEFINE n == Cardinality(ScoringCards(q, cs))
           scopes == {f \in card.fields : f.field = "scope"}
           wholly == {f \in card.fields : Declared(f) /\ WhollyMatched(q, f)}
           kinds(f) == IF f.field = "alias" THEN {"alias"} ELSE {"keyword", "alias"}
           values(f) == {DeclaredSpecificity(n, DeclaredFrequency(f.tokens[i], kinds(f), q, cs)) : i \in DOMAIN f.tokens}
           A == {[field |-> "coordinate", tokens |-> q, specificity |-> 100] :
                    f \in {g \in scopes : g.tokens = q}}
           B == {[field |-> "scope", tokens |-> <<t>>,
                  specificity |-> DeclaredSpecificity(n, DocumentFrequency(t, q, cs))] :
                    t \in UNION {ToSet(f.tokens) \cap ToSet(q) : f \in {g \in scopes : g.tokens # q}}}
           C == {[field |-> f.field, tokens |-> f.tokens, specificity |-> Max(values(f))] : f \in wholly}
<1>1. Matches(q, card, cs) = A \cup B \cup C
  BY DEF Matches
<1>2. /\ n \in 0..Cardinality(cs) /\ Cardinality(cs) \in Nat
      /\ \A t : DocumentFrequency(t, q, cs) \in 0..n
      /\ \A t, k : DeclaredFrequency(t, k, q, cs) \in 0..n
  BY FrequencyBounded
<1>3. \A f \in 0..n : DeclaredSpecificity(n, f) \in 0..100
  <2> HIDE DEF n
  <2> QED  BY <1>2, SpecificityBounded
<1> HIDE DEF n
<1>4. CASE m \in A
  BY <1>4
<1>5. CASE m \in B
  <2>1. PICK t : m = [field |-> "scope", tokens |-> <<t>>,
                      specificity |-> DeclaredSpecificity(n, DocumentFrequency(t, q, cs))]
    BY <1>5
  <2> QED  BY <2>1, <1>2, <1>3
<1>6. CASE m \in C
  <2>1. PICK f \in wholly : m = [field |-> f.field, tokens |-> f.tokens, specificity |-> Max(values(f))]
    BY <1>6
  <2>2. DOMAIN f.tokens # {}
    BY <2>1
  <2>3. values(f) # {} /\ \A v \in values(f) : v \in 0..100
    BY <2>2, <1>2, <1>3
  <2> DEFINE V == values(f)
  <2>4. V \in SUBSET Int /\ V # {} /\ (\A v \in V : v <= 100) /\ 100 \in Int
    <3> HIDE DEF values
    <3> QED  BY <2>3
  <2>5. Max(V) \in V
    <3> HIDE DEF V
    <3> QED  BY <2>4, GreatestOf
  <2>6. Max(values(f)) \in 0..100
    <3> HIDE DEF values
    <3> QED  BY <2>3, <2>5
  <2>7. m.specificity = Max(values(f))
    BY <2>1
  <2> QED  BY <2>6, <2>7
<1> HIDE DEF A, B, C
<1> QED  BY <1>1, <1>4, <1>5, <1>6

\* The contribution of the declared words, once the strongest match is known.
Raw(matched) ==
    42 + (40 * Max({m.specificity : m \in matched})) \div 100
       + 9 * (IF Cardinality(matched) >= 2 THEN 2 ELSE 1)

LEMMA ContributionForms ==
    ASSUME NEW q, NEW card, NEW cs, NEW bm25
    PROVE  LET matched == Matches(q, card, cs)
           IN \/ DirectContribution(q, card, cs, bm25) = 0
              \/ matched # {} /\ \/ DirectContribution(q, card, cs, bm25) = Min({Raw(matched), 84})
                                 \/ DirectContribution(q, card, cs, bm25) = Max({Raw(matched), 91})
                                 \/ DirectContribution(q, card, cs, bm25) = Max({Raw(matched), 0})
BY ZenonT(60) DEF DirectContribution, Raw

LEMMA UnmatchedContributes ==
    ASSUME NEW q, NEW card, NEW cs, NEW bm25, Matches(q, card, cs) = {}
    PROVE  DirectContribution(q, card, cs, bm25) = 0
BY Zenon DEF DirectContribution


LEMMA ScoreIsNumber ==
    ASSUME NEW q, NEW card, NEW cs, IsFiniteSet(cs), Tabled(Cardinality(cs)),
           \A f \in card.fields : DOMAIN f.tokens # {},
           NEW bm25 \in Nat, NEW ngram \in Nat
    PROVE  /\ ScoreCard(q, card, cs, bm25, ngram) \in Int
           /\ Matches(q, card, cs) = {} => ScoreCard(q, card, cs, bm25, ngram) <= 34
<1> DEFINE matched == Matches(q, card, cs)
           d == DirectContribution(q, card, cs, bm25)
           e == IndirectScore(bm25, ngram)
           w == (75 * bm25 + 25 * ngram) \div 100
<1>1. w \in Int
  OBVIOUS
<1>2. e \in Int /\ e <= 34
  <2> HIDE DEF w
  <2>1. Min({34, w}) = IF 34 <= w THEN 34 ELSE w
    BY <1>1, OfTwo
  <2>2. e = Min({34, w})
    BY DEF IndirectScore, w
  <2> QED  BY <1>1, <2>1, <2>2
<1>3. d \in Int
  <2>1. ASSUME matched # {} PROVE Raw(matched) \in Int
    <3> DEFINE V == {m.specificity : m \in matched}
    <3>1. \A v \in V : v \in 0..100
      <4> SUFFICES ASSUME NEW m \in matched PROVE m.specificity \in 0..100
        OBVIOUS
      <4> QED  BY MatchesBounded
    <3>2. V \in SUBSET Int /\ V # {} /\ (\A v \in V : v <= 100) /\ 100 \in Int
      <4>1. V # {}
        BY <2>1
      <4> HIDE DEF V
      <4> QED  BY <4>1, <3>1
    <3>3. Max(V) \in V
      <4> HIDE DEF V
      <4> QED  BY <3>2, GreatestOf
    <3> DEFINE top == Max(V)
               twice == IF Cardinality(matched) >= 2 THEN 2 ELSE 1
    <3>4. top \in Int
      <4> HIDE DEF V
      <4> QED  BY <3>1, <3>3
    <3>5. Raw(matched) = 42 + (40 * top) \div 100 + 9 * twice
      BY DEF Raw
    <3>6. twice \in Int
      OBVIOUS
    <3> HIDE DEF top, twice
    <3> QED  BY <3>4, <3>5, <3>6
  <2> DEFINE r == Raw(matched)
  <2>2. d = 0 \/ (matched # {} /\ (d = Min({r, 84}) \/ d = Max({r, 91}) \/ d = Max({r, 0})))
    BY ContributionForms
  <2> HIDE DEF r, d, matched
  <2>3. ASSUME r \in Int PROVE Min({r, 84}) \in Int /\ Max({r, 91}) \in Int /\ Max({r, 0}) \in Int
    <3>1. 84 \in Int /\ 91 \in Int /\ 0 \in Int
      OBVIOUS
    <3>2. Min({r, 84}) = IF r <= 84 THEN r ELSE 84
      BY <2>3, <3>1, OfTwo
    <3>3. Max({r, 91}) = IF r >= 91 THEN r ELSE 91
      BY <2>3, <3>1, OfTwo
    <3>4. Max({r, 0}) = IF r >= 0 THEN r ELSE 0
      BY <2>3, <3>1, OfTwo
    <3> QED  BY <2>3, <3>2, <3>3, <3>4
  <2> QED  BY <2>1, <2>2, <2>3 DEF r
<1>4. ScoreCard(q, card, cs, bm25, ngram) = IF q = << >> THEN 0 ELSE Max({d, e})
  BY DEF ScoreCard
<1>5. matched = {} => d = 0
  BY UnmatchedContributes
<1> HIDE DEF d, e, matched
<1>6. Max({d, e}) = IF d >= e THEN d ELSE e
  BY <1>2, <1>3, OfTwo
<1> QED  BY <1>2, <1>3, <1>4, <1>5, <1>6 DEF matched

-----------------------------------------------------------------------------
(* The rank order and the verdicts.                                        *)

LEMMA RankedLists ==
    ASSUME NEW ids \in SUBSET Nat, IsFiniteSet(ids), NEW value, \A i \in ids : value[i] \in Int
    PROVE  /\ Cardinality(ids) \in Nat
           /\ RankedBy(ids, value) \in [1..Cardinality(ids) -> ids]
           /\ \A i \in ids : \E k \in 1..Cardinality(ids) : RankedBy(ids, value)[k] = i
           /\ \A j, k \in 1..Cardinality(ids) : RankedBy(ids, value)[j] = RankedBy(ids, value)[k] => j = k
<1> DEFINE R == {p \in ids \X ids :
                    value[p[1]] > value[p[2]] \/ (value[p[1]] = value[p[2]] /\ p[1] < p[2])}
<1>1. StrictOrder(ids, R)
  <2>1. \A x, y \in ids : <<x, y>> \in R <=> (value[x] > value[y] \/ (value[x] = value[y] /\ x < y))
    OBVIOUS
  <2> HIDE DEF R
  <2>2. \A x \in ids : <<x, x>> \notin R
    BY <2>1
  <2>3. ASSUME NEW x \in ids, NEW y \in ids, NEW z \in ids, <<x, y>> \in R, <<y, z>> \in R
        PROVE  <<x, z>> \in R
    <3>1. value[x] \in Int /\ value[y] \in Int /\ value[z] \in Int /\ x \in Nat /\ y \in Nat /\ z \in Nat
      OBVIOUS
    <3> QED  BY <2>1, <2>3, <3>1
  <2>4. ASSUME NEW x \in ids, NEW y \in ids, x # y PROVE <<x, y>> \in R \/ <<y, x>> \in R
    <3>1. value[x] \in Int /\ value[y] \in Int /\ x \in Nat /\ y \in Nat
      OBVIOUS
    <3> QED  BY <2>1, <2>4, <3>1
  <2> QED  BY <2>2, <2>3, <2>4 DEF StrictOrder
<1>2. RankedBy(ids, value) = Ordered(ids, R)
  BY DEF RankedBy
<1> HIDE DEF R
<1> QED  BY <1>1, <1>2, OrderedLists


Verdicts == {"admit", "defer", "reject"}
OutcomeRecords(ids) ==
    [card : ids, score : Int, verdict : Verdicts,
     rule : {"none", "score.at.or.below.reject", "score.below.admit"}]

\* The outcomes of a judgement: every card once, in some order.
OutcomesOf(os, ids) ==
    /\ os \in [1..Cardinality(ids) -> OutcomeRecords(ids)]
    /\ \A j, k \in 1..Cardinality(ids) : os[j].card = os[k].card => j = k

LEMMA VerdictCases ==
    ASSUME NEW score \in Int
    PROVE  /\ VerdictOf(score).verdict \in Verdicts
           /\ VerdictOf(score).rule \in {"none", "score.at.or.below.reject", "score.below.admit"}
           /\ VerdictOf(score).verdict = "admit" <=> score >= 85
BY DEF VerdictOf, Verdicts, AdmitThreshold, RejectThreshold

LEMMA JudgedOutcomes ==
    ASSUME NEW ids \in SUBSET Nat, IsFiniteSet(ids), NEW scores, \A i \in ids : scores[i] \in Int
    PROVE  /\ OutcomesOf(JudgeCandidates(ids, scores), ids)
           /\ AdmittedIn(JudgeCandidates(ids, scores)) = {i \in ids : scores[i] >= 85}
<1> DEFINE ranked == RankedBy(ids, scores)
           os == JudgeCandidates(ids, scores)
           n == Cardinality(ids)
<1>1. /\ ranked \in [1..n -> ids]
      /\ \A i \in ids : \E k \in 1..n : ranked[k] = i
      /\ \A j, k \in 1..n : ranked[j] = ranked[k] => j = k
  BY RankedLists
<1>2. os = [k \in DOMAIN ranked |->
              [card |-> ranked[k], score |-> scores[ranked[k]],
               verdict |-> VerdictOf(scores[ranked[k]]).verdict, rule |-> VerdictOf(scores[ranked[k]]).rule]]
  BY DEF JudgeCandidates
<1> HIDE DEF os, ranked, n
<1>3. DOMAIN os = 1..n
  BY <1>1, <1>2
<1>4. ASSUME NEW k \in 1..n
      PROVE  /\ os[k] = [card |-> ranked[k], score |-> scores[ranked[k]],
                         verdict |-> VerdictOf(scores[ranked[k]]).verdict,
                         rule |-> VerdictOf(scores[ranked[k]]).rule]
             /\ os[k] \in OutcomeRecords(ids)
             /\ os[k].card = ranked[k]
             /\ os[k].verdict = "admit" <=> scores[ranked[k]] >= 85
  <2>1. os[k] = [card |-> ranked[k], score |-> scores[ranked[k]],
                 verdict |-> VerdictOf(scores[ranked[k]]).verdict,
                 rule |-> VerdictOf(scores[ranked[k]]).rule]
    BY <1>1, <1>2
  <2>2. ranked[k] \in ids /\ scores[ranked[k]] \in Int
    BY <1>1
  <2> DEFINE v == VerdictOf(scores[ranked[k]]).verdict
             r == VerdictOf(scores[ranked[k]]).rule
  <2>3. v \in Verdicts /\ r \in {"none", "score.at.or.below.reject", "score.below.admit"}
        /\ (v = "admit" <=> scores[ranked[k]] >= 85)
    BY <2>2, VerdictCases
  <2>4. os[k] = [card |-> ranked[k], score |-> scores[ranked[k]], verdict |-> v, rule |-> r]
    BY <2>1
  <2> HIDE DEF v, r
  <2>5. os[k] \in OutcomeRecords(ids) /\ os[k].card = ranked[k] /\ os[k].verdict = v
    BY <2>2, <2>3, <2>4 DEF OutcomeRecords
  <2> QED  BY <2>1, <2>3, <2>5
<1>5. os \in [1..n -> OutcomeRecords(ids)]
  <2>1. os = [k \in 1..n |-> os[k]]
    BY <1>1, <1>2, <1>3
  <2> QED  BY <2>1, <1>4
<1>6. \A j, k \in 1..n : os[j].card = os[k].card => j = k
  <2>1. \A k \in 1..n : os[k].card = ranked[k]
    BY <1>4
  <2> QED  BY <2>1, <1>1
<1>7. AdmittedIn(os) = {i \in ids : scores[i] >= 85}
  <2>1. ASSUME NEW i \in AdmittedIn(os) PROVE i \in ids /\ scores[i] >= 85
    <3>1. PICK k \in DOMAIN os : i = os[k].card /\ os[k].verdict = "admit"
      BY DEF AdmittedIn
    <3> QED  BY <3>1, <1>1, <1>3, <1>4
  <2>2. ASSUME NEW i \in ids, scores[i] >= 85 PROVE i \in AdmittedIn(os)
    <3>1. PICK k \in 1..n : ranked[k] = i
      BY <1>1
    <3>2. os[k].card = i /\ os[k].verdict = "admit"
      BY <3>1, <2>2, <1>4
    <3> QED  BY <3>1, <3>2, <1>3 DEF AdmittedIn
  <2> QED  BY <2>1, <2>2
<1> QED  BY <1>5, <1>6, <1>7 DEF OutcomesOf, os, n

\* The nearest cards are a start of the rank order.
LEMMA TopOf ==
    ASSUME NEW ids \in SUBSET Nat, IsFiniteSet(ids), NEW value, \A i \in ids : value[i] \in Int,
           NEW limit \in Nat
    PROVE  /\ TopK(ids, value, limit) \in Seq(ids)
           /\ ToSet(TopK(ids, value, limit)) \subseteq ids
<1> DEFINE all == RankedBy(ids, value)
           m == Min({limit, Len(all)})
<1>1. Cardinality(ids) \in Nat /\ all \in [1..Cardinality(ids) -> ids]
  BY RankedLists
<1> HIDE DEF all
<1>2. all \in Seq(ids) /\ Len(all) \in Nat
  BY <1>1
<1>3. m \in 0..Len(all)
  <2> DEFINE l == Len(all)
  <2>1. l \in Int /\ limit \in Int
    BY <1>2
  <2> HIDE DEF l
  <2>2. Min({limit, l}) = IF limit <= l THEN limit ELSE l
    BY <2>1, OfTwo
  <2> QED  BY <2>2, <1>2 DEF l
<1> HIDE DEF m
<1>4. SubSeq(all, 1, m) \in Seq(ids)
  BY <1>2, <1>3
<1>5. TopK(ids, value, limit) = SubSeq(all, 1, m)
  BY DEF TopK, all, m
<1> QED  BY <1>4, <1>5 DEF ToSet

LEMMA SemanticCases ==
    ASSUME NEW i, NEW ids, NEW lex, NEW sim, NEW top
    PROVE  LET read == i \in ToSet(top)
               raw == IF read THEN SemanticScoreFor(sim[i]) ELSE 0
               runnerUp == IF Len(top) >= 2 THEN sim[top[2]] ELSE 0
           IN \/ /\ lex[i] \in 80..84
                 /\ SemanticScore(i, ids, lex, sim, top) = Max({raw, 85})
              \/ /\ top # << >> /\ i = top[1]
                 /\ SemanticScore(i, ids, lex, sim, top)
                      = ConfidentLeadingScore(lex[i], sim[i], runnerUp, StrongestLexical(ids, lex))
              \/ SemanticScore(i, ids, lex, sim, top) = Min({raw, 34})
BY DEF SemanticScore

LEMMA LeadingForms ==
    ASSUME NEW score, NEW sim \in Nat, NEW runnerUp, NEW strongest
    PROVE  ConfidentLeadingScore(score, sim, runnerUp, strongest) \in Int
<1> DEFINE v == SemanticScoreFor(sim)
<1>1. v \in Int
  BY DEF SemanticScoreFor
<1>2. ConfidentLeadingScore(score, sim, runnerUp, strongest) \in {Max({v, 85}), Min({v, 34})}
  BY DEF ConfidentLeadingScore
<1> HIDE DEF v
<1>3. 85 \in Int /\ 34 \in Int
  OBVIOUS
<1>4. Max({v, 85}) = IF v >= 85 THEN v ELSE 85
  BY <1>1, <1>3, OfTwo
<1>5. Min({v, 34}) = IF v <= 34 THEN v ELSE 34
  BY <1>1, <1>3, OfTwo
<1> QED  BY <1>1, <1>2, <1>4, <1>5

\* Similarity lifts no card of a low lexical score over the threshold but the
\* one that leads.
LEMMA HybridScores ==
    ASSUME NEW ids \in SUBSET Nat, IsFiniteSet(ids), NEW lex, \A i \in ids : lex[i] \in Int,
           NEW sim, \A i \in ids : sim[i] \in Nat, NEW limit \in Nat, NEW i \in ids
    PROVE  /\ RankHybrid(ids, lex, sim, limit)[i] \in Int
           /\ lex[i] <= 34 /\ RankHybrid(ids, lex, sim, limit)[i] >= 85
                => i = TopK(ids, sim, limit)[1]
<1> DEFINE top == TopK(ids, sim, limit)
           raw == IF i \in ToSet(top) THEN SemanticScoreFor(sim[i]) ELSE 0
           sem == SemanticScore(i, ids, lex, sim, top)
           runnerUp == IF Len(top) >= 2 THEN sim[top[2]] ELSE 0
<1>1. RankHybrid(ids, lex, sim, limit)[i] = Max({lex[i], sem})
  BY DEF RankHybrid
<1>2. raw \in Int
  BY DEF SemanticScoreFor
<1>3. \/ lex[i] \in 80..84 /\ sem = Max({raw, 85})
      \/ /\ i = top[1]
         /\ sem = ConfidentLeadingScore(lex[i], sim[i], runnerUp, StrongestLexical(ids, lex))
      \/ sem = Min({raw, 34})
  BY SemanticCases
<1>4. ConfidentLeadingScore(lex[i], sim[i], runnerUp, StrongestLexical(ids, lex)) \in Int
  BY LeadingForms
<1> HIDE DEF raw, sem, top, runnerUp
<1>5. 85 \in Int /\ 34 \in Int /\ lex[i] \in Int
  OBVIOUS
<1>6. Max({raw, 85}) = IF raw >= 85 THEN raw ELSE 85
  BY <1>2, <1>5, OfTwo
<1>7. Min({raw, 34}) = IF raw <= 34 THEN raw ELSE 34
  BY <1>2, <1>5, OfTwo
<1>8. sem \in Int
  BY <1>2, <1>3, <1>4, <1>6, <1>7
<1>9. Max({lex[i], sem}) = IF lex[i] >= sem THEN lex[i] ELSE sem
  BY <1>5, <1>8, OfTwo
<1>10. lex[i] <= 34 /\ Max({lex[i], sem}) >= 85 => i = top[1]
  BY <1>2, <1>3, <1>5, <1>7, <1>8, <1>9
<1> QED  BY <1>1, <1>5, <1>8, <1>9, <1>10 DEF top


-----------------------------------------------------------------------------
(* The invariant of a selection, phase by phase.                           *)

ListedInv == cards \in Catalogs /\ eligible \subseteq DOMAIN cards

\* A lexical score is a number, and a low one without a declared match.
ScoredInv ==
    /\ lexical \in [eligible -> Int]
    /\ \A i \in eligible : Matches(QueryTokens, cards[i], EligibleCards) = {} => lexical[i] <= 34

JudgedInv == OutcomesOf(outcomes, eligible)

\* The planner never takes out a protected card or the last one, it keeps the
\* coverage of all admitted cards, and its running cost is the measured one.
PlanningInv ==
    /\ Plannable(Strong, cards)
    /\ \A i \in Strong, f \in Facets : supports[i][f].score \in Nat
    /\ selected \subseteq Strong /\ Spared \subseteq selected
    /\ Strong # {} => selected # {}
    /\ PreservesFacetCoverage(selected, supports, Facets, Baseline)
    /\ cost = MeasurePlanCost(selected, cards)

SelectionInv ==
    /\ NeverRefusesItself
    /\ selPhase \in {"listed", "scored", "judged", "planning", "reading"} => ListedInv
    /\ selPhase = "scored" => ScoredInv
    /\ selPhase \in {"judged", "planning", "reading"} => JudgedInv
    /\ AdmittedForAReason
    /\ selPhase \in {"planning", "reading"} => PlanningInv

\* What a catalog is known to be.
LEMMA ServedCatalog ==
    ASSUME ListedInv
    PROVE  /\ IsFiniteSet(Ids) /\ Ids \subseteq Nat
           /\ IsFiniteSet(eligible) /\ eligible \subseteq Nat
           /\ \A i \in Ids : /\ cards[i].scopes # {} /\ IsFiniteSet(cards[i].scopes)
                             /\ \A s \in cards[i].scopes : s.bytes \in Nat
                             /\ \A f \in cards[i].fields : DOMAIN f.tokens # {}
           /\ \A s, t \in ScopesOf(Ids, cards) : s.ref = t.ref /\ s.def = t.def => s = t
           /\ Tabled(Cardinality(Ids))
<1>1. cards \in Catalogs /\ eligible \in SUBSET Ids
  BY DEF ListedInv, Ids
<1>2. IsFiniteSet(Ids) /\ Ids \subseteq Nat
  BY <1>1, CatalogAssumption DEF Ids
<1>3. IsFiniteSet(eligible)
  BY <1>1, <1>2, FS_Subset
<1>4. Tabled(Cardinality(Ids))
  BY <1>1, CatalogAssumption DEF Ids, Tabled
<1>5. \A i \in Ids : /\ cards[i].scopes # {} /\ IsFiniteSet(cards[i].scopes)
                     /\ \A s \in cards[i].scopes : s.bytes \in Nat
                     /\ \A f \in cards[i].fields : DOMAIN f.tokens # {}
  BY <1>1, CatalogAssumption DEF Ids
<1>6. \A s, t \in ScopesOf(Ids, cards) : s.ref = t.ref /\ s.def = t.def => s = t
  BY <1>1, CatalogAssumption DEF Ids
<1> QED  BY <1>1, <1>2, <1>3, <1>4, <1>5, <1>6

LEMMA EligibleTabled ==
    ASSUME ListedInv
    PROVE  IsFiniteSet(EligibleCards) /\ Tabled(Cardinality(EligibleCards))
<1>1. IsFiniteSet(Ids) /\ IsFiniteSet(eligible) /\ Tabled(Cardinality(Ids)) /\ eligible \in SUBSET Ids
  BY ServedCatalog DEF ListedInv, Ids
<1> DEFINE card == [i \in eligible |-> cards[i]]
<1>2. card \in Surjection(eligible, EligibleCards)
  BY DEF Surjection, EligibleCards
<1>3. IsFiniteSet(EligibleCards) /\ Cardinality(EligibleCards) <= Cardinality(eligible)
  <2> HIDE DEF card
  <2> QED  BY <1>1, <1>2, FS_Surjection
<1>4. Cardinality(eligible) <= Cardinality(Ids)
  BY <1>1, FS_Subset
<1>5. Cardinality(eligible) \in Nat /\ Cardinality(Ids) \in Nat /\ Cardinality(EligibleCards) \in Nat
  BY <1>1, <1>3, FS_CardinalityType
<1>6. \A n \in 2..Cardinality(EligibleCards) : n \in 2..Cardinality(Ids)
  BY <1>3, <1>4, <1>5
<1> QED  BY <1>1, <1>3, <1>6 DEF Tabled

\* Scoring: what ScoreLexically leaves is scored.
LEMMA ScoresHold ==
    ASSUME ListedInv, ScoreLexically
    PROVE  ListedInv' /\ ScoredInv'
<1>1. PICK bm25 \in [eligible -> Bm25Values], ngram \in [eligible -> NgramValues] :
        lexical' = [i \in eligible |-> ScoreCard(QueryTokens, cards[i], EligibleCards, bm25[i], ngram[i])]
  BY DEF ScoreLexically
<1>2. query' = query /\ cards' = cards /\ eligible' = eligible
  BY DEF ScoreLexically
<1>3. QueryTokens' = QueryTokens /\ EligibleCards' = EligibleCards
  BY <1>2 DEF QueryTokens, EligibleCards
<1>4. ASSUME NEW i \in eligible
      PROVE  /\ lexical'[i] \in Int
             /\ Matches(QueryTokens, cards[i], EligibleCards) = {} => lexical'[i] <= 34
  <2>1. \A f \in cards[i].fields : DOMAIN f.tokens # {}
    BY ServedCatalog DEF ListedInv, Ids
  <2>2. IsFiniteSet(EligibleCards) /\ Tabled(Cardinality(EligibleCards))
    BY EligibleTabled
  <2>3. bm25[i] \in Nat /\ ngram[i] \in Nat
    BY ValuesAssumption
  <2>4. lexical'[i] = ScoreCard(QueryTokens, cards[i], EligibleCards, bm25[i], ngram[i])
    BY <1>1
  <2> DEFINE cs == EligibleCards
             q == QueryTokens
             c == cards[i]
             b == bm25[i]
             g == ngram[i]
  <2>5. ScoreCard(q, c, cs, b, g) \in Int /\ (Matches(q, c, cs) = {} => ScoreCard(q, c, cs, b, g) <= 34)
    <3> HIDE DEF cs, q, c, b, g
    <3>1. /\ IsFiniteSet(cs) /\ Tabled(Cardinality(cs)) /\ b \in Nat /\ g \in Nat
          /\ \A f \in c.fields : DOMAIN f.tokens # {}
      BY <2>1, <2>2, <2>3 DEF cs, b, g, c
    <3> QED  BY <3>1, ScoreIsNumber
  <2> QED  BY <2>4, <2>5
<1>5. lexical' \in [eligible -> Int]
  BY <1>1, <1>4
<1>6. ScoredInv'
  <2>1. \A i \in eligible : Matches(QueryTokens, cards[i], EligibleCards) = {} => lexical'[i] <= 34
    BY <1>4
  <2> QED  BY <2>1, <1>2, <1>3, <1>5 DEF ScoredInv
<1> QED  BY <1>2, <1>6 DEF ListedInv


\* A card without a declared match.
Unmatched == {i \in eligible : Matches(QueryTokens, cards[i], EligibleCards) = {}}

LEMMA JudgeHolds ==
    ASSUME ListedInv, NEW scores, \A i \in eligible : scores[i] \in Int,
           NEW newMode, Judge(scores, newMode),
           Cardinality({i \in Unmatched : scores[i] >= 85}) <= (IF newMode = "hybrid" THEN 1 ELSE 0)
    PROVE  ListedInv' /\ JudgedInv' /\ AdmittedForAReason'
<1>1. /\ query' = query /\ cards' = cards /\ eligible' = eligible
      /\ outcomes' = JudgeCandidates(eligible, scores) /\ mode' = newMode
  BY DEF Judge
<1>2. IsFiniteSet(eligible) /\ eligible \in SUBSET Nat
  BY ServedCatalog
<1>3. /\ OutcomesOf(JudgeCandidates(eligible, scores), eligible)
      /\ AdmittedIn(JudgeCandidates(eligible, scores)) = {i \in eligible : scores[i] >= 85}
  BY <1>2, JudgedOutcomes
<1>4. Strong' = {i \in eligible : scores[i] >= 85}
  BY <1>1, <1>3 DEF Strong
<1>5. QueryTokens' = QueryTokens /\ EligibleCards' = EligibleCards
  BY <1>1 DEF QueryTokens, EligibleCards
<1>6. {i \in Strong : Matches(QueryTokens, cards[i], EligibleCards) = {}}'
        = {i \in Unmatched : scores[i] >= 85}
  BY <1>1, <1>4, <1>5 DEF Unmatched
<1>7. JudgedInv'
  BY <1>1, <1>3 DEF JudgedInv
<1>8. AdmittedForAReason'
  BY <1>1, <1>6 DEF AdmittedForAReason
<1> QED  BY <1>1, <1>7, <1>8 DEF ListedInv

LEMMA DegradedHolds ==
    ASSUME ListedInv, ScoredInv, Judge(lexical, "lexical_degraded")
    PROVE  ListedInv' /\ JudgedInv' /\ AdmittedForAReason'
<1>1. \A i \in eligible : lexical[i] \in Int
  BY DEF ScoredInv
<1>2. {i \in Unmatched : lexical[i] >= 85} = {}
  <2> SUFFICES ASSUME NEW i \in Unmatched, lexical[i] >= 85 PROVE FALSE
    OBVIOUS
  <2>1. i \in eligible /\ lexical[i] <= 34
    BY DEF Unmatched, ScoredInv
  <2> QED  BY <2>1, <1>1
<1>3. Cardinality({i \in Unmatched : lexical[i] >= 85}) <= (IF "lexical_degraded" = "hybrid" THEN 1 ELSE 0)
  BY <1>2, FS_EmptySet
<1> QED  BY <1>1, <1>3, JudgeHolds

LEMMA HybridHolds ==
    ASSUME ListedInv, ScoredInv, ScoreHybrid
    PROVE  ListedInv' /\ JudgedInv' /\ AdmittedForAReason'
<1>1. PICK sim \in [eligible -> Similarities] :
        Judge(RankHybrid(eligible, lexical, sim, SemanticTopK), "hybrid")
  BY DEF ScoreHybrid
<1> DEFINE scores == RankHybrid(eligible, lexical, sim, SemanticTopK)
           first == TopK(eligible, sim, SemanticTopK)[1]
<1>2. IsFiniteSet(eligible) /\ eligible \in SUBSET Nat
  BY ServedCatalog
<1>3. (\A i \in eligible : lexical[i] \in Int) /\ (\A i \in eligible : sim[i] \in Nat) /\ SemanticTopK \in Nat
  BY ValuesAssumption DEF ScoredInv
<1>4. ASSUME NEW i \in eligible
      PROVE  scores[i] \in Int /\ (lexical[i] <= 34 /\ scores[i] >= 85 => i = first)
  BY <1>2, <1>3, HybridScores
<1> HIDE DEF scores, first
<1>5. {i \in Unmatched : scores[i] >= 85} \in SUBSET {first}
  <2> SUFFICES ASSUME NEW i \in Unmatched, scores[i] >= 85 PROVE i = first
    OBVIOUS
  <2>1. i \in eligible /\ lexical[i] <= 34
    BY DEF Unmatched, ScoredInv
  <2> QED  BY <2>1, <1>4
<1>6. IsFiniteSet({first}) /\ Cardinality({first}) = 1
  BY FS_Singleton
<1>7. Cardinality({i \in Unmatched : scores[i] >= 85}) <= 1
  BY <1>5, <1>6, FS_Subset
<1>8. Judge(scores, "hybrid")
  BY <1>1 DEF scores
<1>9. Cardinality({i \in Unmatched : scores[i] >= 85}) <= (IF "hybrid" = "hybrid" THEN 1 ELSE 0)
  BY <1>7
<1> QED  BY <1>4, <1>8, <1>9, JudgeHolds


-----------------------------------------------------------------------------
(* The planner.                                                            *)

LEMMA FiniteMax ==
    ASSUME NEW T \in SUBSET Nat, IsFiniteSet(T), T # {}
    PROVE  Max(T) \in T /\ \A y \in T : y <= Max(T)
<1> DEFINE G == {U \in SUBSET T : \E b \in Nat : \A y \in U : y <= b}
<1>1. {} \in G
  OBVIOUS
<1>2. ASSUME NEW U \in SUBSET T, NEW x \in T, U \in G, x \notin U PROVE U \cup {x} \in G
  <2>1. PICK b \in Nat : \A y \in U : y <= b
    BY <1>2
  <2>2. b + x \in Nat /\ \A y \in U \cup {x} : y <= b + x
    BY <2>1
  <2> QED  BY <2>2
<1>3. T \in G
  <2>1. G \in SUBSET SUBSET T
    OBVIOUS
  <2> HIDE DEF G
  <2> QED  BY <1>1, <1>2, <2>1, InductionOnSet
<1>4. PICK b \in Nat : \A y \in T : y <= b
  BY <1>3
<1>5. T \in SUBSET Int /\ b \in Int
  OBVIOUS
<1> QED  BY <1>4, <1>5, GreatestOf

\* The score of a coverage is the best of its cards, or none.
LEMMA CoverageScore ==
    ASSUME NEW ids, IsFiniteSet(ids), NEW sup, NEW facets, NEW f \in facets,
           \A i \in ids : sup[i][f].score \in Nat
    PROVE  /\ CoverageForCards(ids, sup, facets)[f].score \in Nat
           /\ \A i \in ids : sup[i][f].score <= CoverageForCards(ids, sup, facets)[f].score
           /\ \/ CoverageForCards(ids, sup, facets)[f].score = 0
              \/ \E i \in ids : sup[i][f].score = CoverageForCards(ids, sup, facets)[f].score
<1> DEFINE V == {sup[i][f].score : i \in ids}
           value == [i \in ids |-> sup[i][f].score]
           T == {0} \cup V
<1>1. value \in Surjection(ids, V)
  BY DEF Surjection
<1>2. IsFiniteSet(V)
  BY <1>1, FS_Surjection
<1>3. IsFiniteSet(T)
  <2> HIDE DEF V
  <2>1. IsFiniteSet(V \cup {0}) /\ V \cup {0} = T
    BY <1>2, FS_AddElement
  <2> QED  BY <2>1
<1>4. T \in SUBSET Nat /\ T # {}
  OBVIOUS
<1>5. CoverageForCards(ids, sup, facets)[f].score = Max(T)
  BY DEF CoverageForCards
<1>6. Max(T) \in T /\ \A y \in T : y <= Max(T)
  <2> HIDE DEF T
  <2> QED  BY <1>3, <1>4, FiniteMax
<1> QED  BY <1>4, <1>5, <1>6

\* The lexicographic comparison of two costs, written out.
LEMMA LessForms ==
    ASSUME NEW a, NEW b
    PROVE  ExecutionLess(a, b) <=>
              \/ a.targets < b.targets
              \/ a.targets = b.targets /\ a.chunks < b.chunks
              \/ a.targets = b.targets /\ a.chunks = b.chunks /\ a.delegated < b.delegated
              \/ a.targets = b.targets /\ a.chunks = b.chunks /\ a.delegated = b.delegated /\ a.bytes < b.bytes
<1> DEFINE K == ExecutionKeys
           at(k) == a[K[k]] < b[K[k]] /\ \A j \in 1..k - 1 : a[K[j]] = b[K[j]]
<1>1. DOMAIN K = {1, 2, 3, 4} /\ K[1] = "targets" /\ K[2] = "chunks" /\ K[3] = "delegated" /\ K[4] = "bytes"
  BY DEF ExecutionKeys
<1>2. ExecutionLess(a, b) <=> \E k \in DOMAIN K : at(k)
  BY DEF ExecutionLess
<1>3. 1..1 - 1 = {} /\ 1..2 - 1 = {1} /\ 1..3 - 1 = {1, 2} /\ 1..4 - 1 = {1, 2, 3}
  OBVIOUS
<1> HIDE DEF K
<1>4. at(1) <=> a.targets < b.targets
  BY <1>1, <1>3
<1>5. at(2) <=> a.chunks < b.chunks /\ a.targets = b.targets
  BY <1>1, <1>3
<1>6. at(3) <=> a.delegated < b.delegated /\ a.targets = b.targets /\ a.chunks = b.chunks
  BY <1>1, <1>3
<1>7. at(4) <=> a.bytes < b.bytes /\ a.targets = b.targets /\ a.chunks = b.chunks /\ a.delegated = b.delegated
  BY <1>1, <1>3
<1>8. (\E k \in DOMAIN K : at(k)) <=> at(1) \/ at(2) \/ at(3) \/ at(4)
  <2> HIDE DEF at
  <2> QED  BY <1>1
<1> HIDE DEF at
<1> QED  BY <1>2, <1>4, <1>5, <1>6, <1>7, <1>8

Measured(c) == c.targets \in Int /\ c.chunks \in Int /\ c.delegated \in Int /\ c.bytes \in Int

LEMMA SavingsMeasured ==
    ASSUME NEW ids, NEW cs, Plannable(ids, cs), NEW id \in ids
    PROVE  Measured(RemovalSavings(id, ids, cs))
<1> DEFINE S == ScopesOf(ids, cs)
           only == S \ ScopesOf(ids \ {id}, cs)
           saved == RemovalSavings(id, ids, cs)
<1>1. saved = [targets |-> Cardinality(PlanTargets(only)), chunks |-> LimitsOf(PlanTargets(only)),
               delegated |-> Cardinality(only \ Managed(only)), bytes |-> BytesOf(only),
               selectedBy |-> Cardinality(cs[id].scopes), cards |-> 1]
  BY SavingsAre
<1>2. IsFiniteSet(S) /\ only \in SUBSET S
  BY PlanScopesFinite
<1>3. IsFiniteSet(only)
  BY <1>2, FS_Subset
<1>4. (\A s, t \in only : s.ref = t.ref => s = t) /\ (\A s \in S : s.bytes \in Nat)
  BY <1>2 DEF Plannable
<1> HIDE DEF only, saved, S
<1>5. /\ IsFiniteSet(Managed(only))
      /\ Cardinality(PlanTargets(only)) = Cardinality(Managed(only))
      /\ LimitsOf(PlanTargets(only)) = Cardinality(Managed(only)) * ChunkLimit
  BY <1>3, <1>4, TargetsCount
<1>6. Cardinality(Managed(only)) \in Nat /\ ChunkLimit \in Nat
  BY <1>5, FS_CardinalityType, PlanningAssumption
<1>7. Cardinality(Managed(only)) * ChunkLimit \in Nat
  BY <1>6
<1>8. IsFiniteSet(only \ Managed(only))
  BY <1>3, FS_Difference
<1>9. Cardinality(only \ Managed(only)) \in Nat
  BY <1>8, FS_CardinalityType
<1>10. BytesOf(only) \in Nat
  BY <1>2, <1>4, BytesAre
<1> QED  BY <1>1, <1>5, <1>6, <1>7, <1>9, <1>10 DEF Measured, saved

LEMMA LessIsOrder ==
    ASSUME NEW a, NEW b, NEW c, Measured(a), Measured(b), Measured(c)
    PROVE  /\ ~ExecutionLess(a, a)
           /\ ExecutionLess(a, b) => ~ExecutionLess(b, a)
           /\ ExecutionLess(a, b) /\ ExecutionLess(b, c) => ExecutionLess(a, c)
           /\ ExecutionLess(a, b) => ExecutionLess(a, c) \/ ExecutionLess(c, b)
BY LessForms DEF Measured


\* Of the cards that may be taken out, one saves most and ranks last.
LEMMA ChosenIsCandidate ==
    ASSUME NEW ids, NEW cs, Plannable(ids, cs), NEW cand \in SUBSET ids, cand # {},
           NEW os, DOMAIN os \subseteq Nat, \A i \in cand : \E k \in DOMAIN os : os[k].card = i
    PROVE  ChosenForRemoval(cand, ids, cs, os) \in cand
<1> DEFINE saving(i) == RemovalSavings(i, ids, cs)
           place(i) == CHOOSE k \in DOMAIN os : os[k].card = i
           better(i, j) == \/ ExecutionLess(saving(j), saving(i))
                           \/ ~ExecutionLess(saving(i), saving(j)) /\ place(i) > place(j)
           R == {p \in cand \X cand : better(p[1], p[2])}
<1>1. ASSUME NEW i \in cand PROVE Measured(saving(i))
  BY SavingsMeasured
<1>2. ASSUME NEW i \in cand PROVE place(i) \in Nat /\ os[place(i)].card = i
  <2>1. \E k \in DOMAIN os : os[k].card = i
    OBVIOUS
  <2> QED  BY <2>1
<1>3. ChosenForRemoval(cand, ids, cs, os) = CHOOSE i \in cand : \A j \in cand \ {i} : better(i, j)
  BY DEF ChosenForRemoval
<1> HIDE DEF saving, place
<1>4. \A x, y \in cand : <<x, y>> \in R <=> better(x, y)
  OBVIOUS
<1>5. StrictOrder(cand, R)
  <2>1. ASSUME NEW x \in cand PROVE ~better(x, x)
    <3>1. Measured(saving(x)) /\ place(x) \in Nat
      BY <1>1, <1>2
    <3>2. ~ExecutionLess(saving(x), saving(x))
      BY <3>1, LessIsOrder
    <3> QED  BY <3>1, <3>2
  <2>2. ASSUME NEW x \in cand, NEW y \in cand, NEW z \in cand, better(x, y), better(y, z)
        PROVE  better(x, z)
    <3> DEFINE a == saving(x)
               b == saving(y)
               c == saving(z)
    <3>1. Measured(a) /\ Measured(b) /\ Measured(c)
      BY <1>1
    <3>2. place(x) \in Nat /\ place(y) \in Nat /\ place(z) \in Nat
      BY <1>2
    <3>3. /\ ExecutionLess(b, a) \/ (~ExecutionLess(a, b) /\ place(x) > place(y))
          /\ ExecutionLess(c, b) \/ (~ExecutionLess(b, c) /\ place(y) > place(z))
      BY <2>2
    <3> HIDE DEF a, b, c
    <3>4. /\ ExecutionLess(c, b) /\ ExecutionLess(b, a) => ExecutionLess(c, a)
          /\ ExecutionLess(b, a) => ExecutionLess(b, c) \/ ExecutionLess(c, a)
          /\ ExecutionLess(c, b) => ExecutionLess(c, a) \/ ExecutionLess(a, b)
          /\ ExecutionLess(a, c) => ExecutionLess(a, b) \/ ExecutionLess(b, c)
      BY <3>1, LessIsOrder
    <3>5. ExecutionLess(c, a) \/ (~ExecutionLess(a, c) /\ place(x) > place(z))
      BY <3>2, <3>3, <3>4
    <3> QED  BY <3>5 DEF a, c
  <2>3. ASSUME NEW x \in cand, NEW y \in cand, x # y PROVE better(x, y) \/ better(y, x)
    <3>1. place(x) \in Nat /\ place(y) \in Nat /\ place(x) # place(y)
      BY <2>3, <1>2
    <3> QED  BY <3>1
  <2> HIDE DEF R, better
  <2> QED  BY <1>4, <2>1, <2>2, <2>3 DEF StrictOrder
<1> HIDE DEF R, better
<1> DEFINE o == Ordered(cand, R)
           n == Cardinality(cand)
<1>6. IsFiniteSet(cand)
  BY FS_Subset DEF Plannable
<1>7. /\ n \in Nat /\ o \in [1..n -> cand]
      /\ \A j, k \in 1..n : j < k => <<o[j], o[k]>> \in R
      /\ \A x \in cand : \E k \in 1..n : o[k] = x
  BY <1>5, <1>6, OrderedLists
<1> HIDE DEF o, n
<1>8. 1 \in 1..n
  <2>1. PICK x \in cand : TRUE
    OBVIOUS
  <2>2. PICK k \in 1..n : o[k] = x
    BY <1>7
  <2> QED  BY <1>7
<1>9. o[1] \in cand /\ \A j \in cand \ {o[1]} : better(o[1], j)
  <2>1. o[1] \in cand
    BY <1>7, <1>8
  <2>2. ASSUME NEW j \in cand \ {o[1]} PROVE better(o[1], j)
    <3>1. PICK k \in 1..n : o[k] = j
      BY <1>7
    <3>2. 1 < k
      BY <3>1, <1>7
    <3>3. <<o[1], j>> \in R
      BY <3>1, <3>2, <1>7, <1>8
    <3> QED  BY <3>3, <2>1, <1>4
  <2> QED  BY <2>1, <2>2
<1>10. \E i \in cand : \A j \in cand \ {i} : better(i, j)
  BY <1>9
<1> QED  BY <1>3, <1>10

\* What a judgement gives the planner.
LEMMA StrongAdmitted ==
    ASSUME ListedInv, JudgedInv
    PROVE  /\ Strong \subseteq eligible /\ IsFiniteSet(Strong)
           /\ DOMAIN outcomes \subseteq Nat
           /\ \A i \in Strong : \E k \in DOMAIN outcomes : outcomes[k].card = i /\ outcomes[k].verdict = "admit"
<1>1. outcomes \in [1..Cardinality(eligible) -> OutcomeRecords(eligible)]
  BY DEF JudgedInv, OutcomesOf
<1>2. \A i \in Strong : \E k \in DOMAIN outcomes : outcomes[k].card = i /\ outcomes[k].verdict = "admit"
  BY DEF Strong, AdmittedIn
<1>3. Strong \subseteq eligible
  <2> SUFFICES ASSUME NEW i \in Strong PROVE i \in eligible
    OBVIOUS
  <2>1. PICK k \in DOMAIN outcomes : outcomes[k].card = i
    BY <1>2
  <2>2. outcomes[k] \in OutcomeRecords(eligible)
    BY <1>1
  <2> QED  BY <2>1, <2>2 DEF OutcomeRecords
<1>4. IsFiniteSet(eligible)
  BY ServedCatalog
<1>5. IsFiniteSet(Strong)
  BY <1>3, <1>4, FS_Subset
<1>6. DOMAIN outcomes \subseteq Nat
  <2>1. DOMAIN outcomes = 1..Cardinality(eligible) /\ Cardinality(eligible) \in Nat
    BY <1>1, <1>4, FS_CardinalityType
  <2> QED  BY <2>1
<1> QED  BY <1>2, <1>3, <1>5, <1>6

LEMMA StrongPlannable ==
    ASSUME ListedInv, JudgedInv, DefinedOnce(Strong, cards)
    PROVE  Plannable(Strong, cards)
<1>1. Strong \subseteq Ids /\ IsFiniteSet(Strong)
  BY StrongAdmitted DEF ListedInv, Ids
<1>2. ScopesOf(Strong, cards) \subseteq ScopesOf(Ids, cards)
  BY <1>1 DEF ScopesOf
<1>3. \A s \in ScopesOf(Strong, cards) : \E i \in Ids : s \in cards[i].scopes
  BY <1>1 DEF ScopesOf
<1>4. \A i \in Ids : /\ cards[i].scopes # {} /\ IsFiniteSet(cards[i].scopes)
                     /\ \A s \in cards[i].scopes : s.bytes \in Nat
  BY ServedCatalog
<1>5. \A s, t \in ScopesOf(Ids, cards) : s.ref = t.ref /\ s.def = t.def => s = t
  BY ServedCatalog
<1>6. \A s, t \in ScopesOf(Strong, cards) : s.ref = t.ref => s = t
  BY <1>2, <1>5 DEF DefinedOnce
<1> QED  BY <1>1, <1>3, <1>4, <1>6 DEF Plannable


LEMMA BeginHolds ==
    ASSUME ListedInv, JudgedInv, BeginSetPlan, DefinedOnce(Strong, cards)
    PROVE  ListedInv' /\ JudgedInv' /\ PlanningInv' /\ selPhase' = "planning"
<1>1. /\ query' = query /\ cards' = cards /\ eligible' = eligible /\ outcomes' = outcomes
      /\ mode' = mode /\ weak' = weak
      /\ selected' = Strong /\ cost' = MeasurePlanCost(Strong, cards) /\ selPhase' = "planning"
  BY DEF BeginSetPlan
<1>2. PICK score \in [Strong -> [Facets -> FacetScores]] :
        supports' = [i \in Strong |-> SupportOf(cards[i], Facets, score[i])]
  BY DEF BeginSetPlan
<1>3. Strong' = Strong /\ Facets' = Facets
  BY <1>1 DEF Strong, Facets
<1>4. Plannable(Strong, cards) /\ IsFiniteSet(Strong)
  BY StrongPlannable DEF Plannable
<1>5. \A i \in Strong, f \in Facets : supports'[i][f].score \in Nat
  BY <1>2, ValuesAssumption DEF SupportOf
<1>6. Spared' \subseteq Strong
  BY <1>3 DEF Spared, ProtectedCandidates
<1>7. PreservesFacetCoverage(Strong, supports', Facets, CoverageForCards(Strong, supports', Facets))
  <2> DEFINE c == CoverageForCards(Strong, supports', Facets)
  <2>1. ASSUME NEW f \in Facets PROVE c[f].score >= c[f].score
    <3>1. \A i \in Strong : supports'[i][f].score \in Nat
      BY <1>5
    <3>2. c[f].score \in Nat
      BY <1>4, <3>1, CoverageScore
    <3> QED  BY <3>2
  <2> HIDE DEF c
  <2>2. \A f \in Facets : c[f].score >= c[f].score /\ c[f].tokens \subseteq c[f].tokens /\ c[f].kinds \subseteq c[f].kinds
    BY <2>1
  <2> QED  BY <2>2 DEF PreservesFacetCoverage, c
<1>8. Baseline' = CoverageForCards(Strong, supports', Facets)
  BY <1>3 DEF Baseline
<1>9. PreservesFacetCoverage(selected, supports, Facets, Baseline)'
  BY <1>1, <1>3, <1>7, <1>8
<1>10. PlanningInv'
  BY <1>1, <1>3, <1>4, <1>5, <1>6, <1>9 DEF PlanningInv
<1> QED  BY <1>1, <1>10 DEF ListedInv, JudgedInv

LEMMA RemovableIs ==
    ASSUME NEW i \in RemovableCards
    PROVE  /\ i \in selected /\ i \notin Spared /\ ~(Cardinality(selected) <= 1)
           /\ PreservesFacetCoverage(selected \ {i}, supports, Facets, Baseline)
BY DEF RemovableCards, Removable

LEMMA RemoveHolds ==
    ASSUME ListedInv, JudgedInv, PlanningInv, RemoveCard
    PROVE  ListedInv' /\ JudgedInv' /\ PlanningInv' /\ selPhase' = "planning"
<1> DEFINE i == ChosenForRemoval(RemovableCards, selected, cards, outcomes)
<1>1. /\ query' = query /\ cards' = cards /\ eligible' = eligible /\ outcomes' = outcomes
      /\ mode' = mode /\ weak' = weak /\ supports' = supports /\ selPhase' = "planning"
      /\ cost' = SubtractPlanCost(cost, RemovalSavings(i, selected, cards))
      /\ selected' = selected \ {i}
  BY DEF RemoveCard
<1>2. Strong' = Strong /\ Facets' = Facets /\ Baseline' = Baseline /\ Spared' = Spared
  BY <1>1 DEF Strong, Facets, Baseline, Spared
<1>3. Plannable(selected, cards) /\ IsFiniteSet(selected)
  BY FewerPlannable DEF PlanningInv, Plannable
<1>4. i \in RemovableCards
  <2>1. RemovableCards \in SUBSET selected /\ RemovableCards # {}
    BY RemovableIs DEF RemoveCard
  <2>2. DOMAIN outcomes \subseteq Nat /\ \A j \in RemovableCards : \E k \in DOMAIN outcomes : outcomes[k].card = j
    BY <2>1, StrongAdmitted DEF PlanningInv
  <2> DEFINE cand == RemovableCards
  <2> HIDE DEF cand
  <2>3. cand \in SUBSET selected /\ cand # {} /\ \A j \in cand : \E k \in DOMAIN outcomes : outcomes[k].card = j
    BY <2>1, <2>2 DEF cand
  <2>4. ChosenForRemoval(cand, selected, cards, outcomes) \in cand
    BY <1>3, <2>2, <2>3, ChosenIsCandidate
  <2> QED  BY <2>4 DEF cand
<1> HIDE DEF i
<1>5. /\ i \in selected /\ i \notin Spared /\ ~(Cardinality(selected) <= 1)
      /\ PreservesFacetCoverage(selected \ {i}, supports, Facets, Baseline)
  BY <1>4, RemovableIs
<1>6. selected \ {i} # {}
  <2> SUFFICES ASSUME selected \ {i} = {} PROVE FALSE
    OBVIOUS
  <2>1. selected = {i}
    BY <1>5
  <2>2. Cardinality(selected) = 1
    BY <2>1, FS_Singleton
  <2> QED  BY <2>2, <1>5
<1>7. MeasurePlanCost(selected \ {i}, cards)
        = SubtractPlanCost(MeasurePlanCost(selected, cards), RemovalSavings(i, selected, cards))
  BY <1>3, <1>5, RemovalIsExact
<1>8. cost' = MeasurePlanCost(selected', cards')
  BY <1>1, <1>7 DEF PlanningInv
<1>9. PreservesFacetCoverage(selected, supports, Facets, Baseline)'
  BY <1>1, <1>2, <1>5
<1>10. PlanningInv'
  BY <1>1, <1>2, <1>5, <1>6, <1>8, <1>9 DEF PlanningInv
<1> QED  BY <1>1, <1>10 DEF ListedInv, JudgedInv

-----------------------------------------------------------------------------
(* The plan that is answered from, and its record.                         *)

\* The set plan turns verdicts of cards it took out, and nothing else.
LEMMA AppliedPlan ==
    ASSUME NEW ids, NEW os, OutcomesOf(os, ids), NEW sel, sel \subseteq AdmittedIn(os)
    PROVE  LET after == ApplySetPlanningDecision(os, sel)
               D == 1..Cardinality(ids)
           IN /\ DOMAIN after = D /\ after = [k \in D |-> after[k]]
              /\ \A k \in D : after[k].card = os[k].card /\ after[k].card \in ids /\ after[k].verdict \in Verdicts
              /\ \A j, k \in D : after[j].card = after[k].card => j = k
              /\ \A k \in D : os[k].verdict = "admit" /\ os[k].card \notin sel =>
                    after[k].verdict = "defer" /\ after[k].rule = "plan.covered_by_selected_set"
              /\ AdmittedIn(after) = sel
<1> DEFINE after == ApplySetPlanningDecision(os, sel)
           D == 1..Cardinality(ids)
           out(k) == os[k].verdict = "admit" /\ os[k].card \notin sel
<1>1. DOMAIN os = D /\ \A k \in D : os[k] \in OutcomeRecords(ids)
  BY DEF OutcomesOf
<1>2. after = [k \in D |-> IF out(k)
                           THEN [os[k] EXCEPT !.verdict = "defer", !.rule = "plan.covered_by_selected_set"]
                           ELSE os[k]]
  BY <1>1 DEF ApplySetPlanningDecision
<1>3. ASSUME NEW k \in D
      PROVE  /\ after[k].card = os[k].card /\ after[k].card \in ids /\ after[k].verdict \in Verdicts
             /\ out(k) => after[k].verdict = "defer" /\ after[k].rule = "plan.covered_by_selected_set"
             /\ ~out(k) => after[k] = os[k]
  <2>1. os[k] \in OutcomeRecords(ids)
    BY <1>1
  <2>2. CASE out(k)
    <3>1. after[k] = [os[k] EXCEPT !.verdict = "defer", !.rule = "plan.covered_by_selected_set"]
      BY <1>2, <2>2
    <3> HIDE DEF after
    <3> QED  BY <2>1, <2>2, <3>1 DEF OutcomeRecords, Verdicts
  <2>3. CASE ~out(k)
    <3>1. after[k] = os[k]
      BY <1>2, <2>3
    <3> HIDE DEF after
    <3> QED  BY <2>1, <2>3, <3>1 DEF OutcomeRecords, Verdicts
  <2> QED  BY <2>2, <2>3
<1>4. DOMAIN after = D /\ after = [k \in D |-> after[k]]
  BY <1>2
<1>5. \A j, k \in D : os[j].card = os[k].card => j = k
  BY DEF OutcomesOf
<1> HIDE DEF after
<1>6. AdmittedIn(after) = sel
  <2>1. ASSUME NEW i \in AdmittedIn(after) PROVE i \in sel
    <3>1. PICK k \in D : after[k].card = i /\ after[k].verdict = "admit"
      BY <1>4 DEF AdmittedIn
    <3>2. ~out(k)
      BY <3>1, <1>3
    <3>3. os[k].card = i /\ os[k].verdict = "admit"
      BY <3>1, <3>2, <1>3
    <3> QED  BY <3>2, <3>3
  <2>2. ASSUME NEW i \in sel PROVE i \in AdmittedIn(after)
    <3>1. PICK k \in D : os[k].card = i /\ os[k].verdict = "admit"
      BY <1>1 DEF AdmittedIn
    <3>2. ~out(k) /\ after[k] = os[k]
      BY <3>1, <1>3
    <3> QED  BY <3>1, <3>2, <1>4 DEF AdmittedIn
  <2> QED  BY <2>1, <2>2
<1> HIDE DEF D
<1>7. \A k \in D : after[k].card = os[k].card /\ after[k].card \in ids /\ after[k].verdict \in Verdicts
  BY <1>3
<1>8. \A j, k \in D : after[j].card = after[k].card => j = k
  BY <1>5, <1>7
<1>9. \A k \in D : out(k) => after[k].verdict = "defer" /\ after[k].rule = "plan.covered_by_selected_set"
  BY <1>3
<1> QED  BY <1>4, <1>6, <1>7, <1>8, <1>9 DEF after, D

\* The items of a plan are for its cards, and its targets for its items.
LEMMA PlannedItems ==
    ASSUME NEW sel, NEW cs, Plannable(sel, cs), NEW p,
           p.items = PlanItems(sel, cs), p.targets = PlanTargets(DOMAIN p.items)
    PROVE  /\ ItemsHold(p)
           /\ UNION {p.items[s] : s \in DOMAIN p.items} = sel
           /\ \A s \in DOMAIN p.items : p.items[s] \subseteq sel
<1> DEFINE S == ScopesOf(sel, cs)
<1>1. DOMAIN p.items = S /\ \A s \in S : p.items[s] = {i \in sel : s \in cs[i].scopes}
  BY DEF PlanItems
<1>2. \A s : s \in S <=> \E i \in sel : s \in cs[i].scopes
  BY DEF ScopesOf
<1>3. \A s, t \in S : s.ref = t.ref => s = t
  BY DEF Plannable
<1>4. p.targets = {[ref |-> s.ref, limit |-> ChunkLimit] : s \in Managed(S)}
  BY <1>1 DEF PlanTargets
<1> HIDE DEF S
<1>5. ItemsHold(p)
  <2>1. \A s, t \in S : s.ref = t.ref => s.def = t.def
    BY <1>3
  <2>2. \A s \in S : p.items[s] # {}
    BY <1>1, <1>2
  <2>3. \A s \in Managed(S) : [ref |-> s.ref, limit |-> ChunkLimit] \in p.targets
    BY <1>4
  <2>4. \A t \in p.targets : \E s \in Managed(S) : s.ref = t.ref
    BY <1>4
  <2> QED  BY <1>1, <2>1, <2>2, <2>3, <2>4 DEF ItemsHold
<1>6. ASSUME NEW i \in sel PROVE \E s \in S : i \in p.items[s]
  <2>1. PICK s \in cs[i].scopes : TRUE
    BY DEF Plannable
  <2> QED  BY <2>1, <1>1, <1>2
<1>7. \A s \in S : p.items[s] \subseteq sel
  BY <1>1
<1>8. UNION {p.items[s] : s \in S} = sel
  BY <1>6, <1>7
<1> QED  BY <1>1, <1>5, <1>7, <1>8

\* As many images as members, when no two members have the same.
LEMMA ImageCounted ==
    ASSUME NEW S, IsFiniteSet(S), NEW f, DOMAIN f = S, f = [x \in S |-> f[x]],
           \A x, y \in S : f[x] = f[y] => x = y,
           NEW T, \A x \in S : f[x] \in T, \A t \in T : \E x \in S : f[x] = t
    PROVE  IsFiniteSet(T) /\ Cardinality(T) = Cardinality(S)
<1>1. f \in Bijection(S, T)
  <2>1. f \in [S -> T]
    OBVIOUS
  <2> QED  BY <2>1 DEF Bijection, Injection, Surjection, IsInjective
<1> QED  BY <1>1, FS_Bijection DEF ExistsBijection

\* One decision for each admitted card; those taken out are "not_planned".
LEMMA DecidedOnce ==
    ASSUME NEW strong, IsFiniteSet(strong), NEW sel \in SUBSET strong,
           NEW kept, NEW cs, NEW sup, NEW facets, NEW base,
           NEW ds, ds = DecisionsFor(strong, sel, kept, cs, sup, facets, base)
    PROVE  /\ \A d \in ds : d.card \in strong /\ (d.decision = "not_planned" <=> d.card \notin sel)
           /\ \A i \in strong : \E d \in ds : d.card = i
           /\ Cardinality(ds) = Cardinality(strong)
           /\ Cardinality({d \in ds : d.decision = "not_planned"}) = Cardinality(strong) - Cardinality(sel)
<1> DEFINE reason(i) == IF i \notin sel THEN "covered_by_selected_set"
                        ELSE IF i \in kept THEN "protected"
                        ELSE SelectedReason(i, sel, cs, sup, facets, base)
           replaced(i) == IF i \in sel THEN {} ELSE ReplacementCards(i, sel, sup, facets)
           word(i) == IF i \notin sel THEN "not_planned" ELSE IF i \in kept THEN "protected" ELSE "selected"
           dec == [i \in strong |-> [card |-> i, decision |-> word(i), reason |-> reason(i),
                                     replacements |-> replaced(i)]]
           out == {d \in ds : d.decision = "not_planned"}
           gone == strong \ sel
           decOut == [i \in gone |-> dec[i]]
<1>1. ds = {[card |-> i, decision |-> word(i), reason |-> reason(i), replacements |-> replaced(i)] : i \in strong}
  BY DEF DecisionsFor
<1> HIDE DEF reason, replaced
<1>2. ASSUME NEW i \in strong PROVE dec[i].card = i /\ (dec[i].decision = "not_planned" <=> i \notin sel)
  OBVIOUS
<1>3. (\A i \in strong : dec[i] \in ds) /\ (\A d \in ds : \E i \in strong : dec[i] = d)
  BY <1>1
<1>4. DOMAIN dec = strong /\ dec = [i \in strong |-> dec[i]]
  OBVIOUS
<1> HIDE DEF dec
<1>5. \A i, j \in strong : dec[i] = dec[j] => i = j
  BY <1>2
<1>6. Cardinality(ds) = Cardinality(strong)
  BY <1>3, <1>4, <1>5, ImageCounted
<1>7. IsFiniteSet(gone) /\ Cardinality(gone) = Cardinality(strong) - Cardinality(sel)
  <2>1. IsFiniteSet(strong \ sel) /\ Cardinality(strong) = Cardinality(sel) + Cardinality(strong \ sel)
        /\ Cardinality(strong) \in Nat /\ Cardinality(sel) \in Nat /\ Cardinality(strong \ sel) \in Nat
    BY CardSplit
  <2> QED  BY <2>1
<1>8. /\ \A i \in gone : decOut[i] \in out
      /\ \A d \in out : \E i \in gone : decOut[i] = d
      /\ \A i, j \in gone : decOut[i] = decOut[j] => i = j
      /\ DOMAIN decOut = gone /\ decOut = [i \in gone |-> decOut[i]]
  BY <1>2, <1>3, <1>5
<1>9. Cardinality(out) = Cardinality(gone)
  <2> HIDE DEF out, gone, decOut
  <2> QED  BY <1>7, <1>8, ImageCounted
<1>10. \A d \in ds : d.card \in strong /\ (d.decision = "not_planned" <=> d.card \notin sel)
  BY <1>2, <1>3
<1>11. \A i \in strong : \E d \in ds : d.card = i
  BY <1>2, <1>3
<1> QED  BY <1>6, <1>7, <1>9, <1>10, <1>11

\* The record of a plan agrees with itself.
LEMMA RecordAgrees ==
    ASSUME NEW p, NEW n \in Nat, NEW os, p.outcomes = os,
           DOMAIN os = 1..n, os = [k \in 1..n |-> os[k]],
           \A k \in 1..n : os[k].verdict \in Verdicts,
           \A j, k \in 1..n : os[j].card = os[k].card => j = k,
           IsFiniteSet(p.excluded)
    PROVE  RecordHolds(SelectionAuditRecord(p))
<1> DEFINE D == 1..n
           class == [admit |-> 1, defer |-> 2, reject |-> 3]
           at(k) == class[os[k].verdict]
           R == {q \in D \X D : at(q[1]) < at(q[2]) \/ (at(q[1]) = at(q[2]) /\ q[1] < q[2])}
           places == FirstFew(D, R, DetailLimit)
           cardAt == [k \in places |-> os[k].card]
           verdictAt == [k \in places |-> [card |-> os[k].card, verdict |-> os[k].verdict]]
           detailed == DetailedCards(p)
           r == SelectionAuditRecord(p)
<1>1. IsFiniteSet(D) /\ Cardinality(D) = n
  <2>1. IsFiniteSet(1..n) /\ Cardinality(1..n) = IF 1 > n THEN 0 ELSE n - 1 + 1
    BY FS_Interval
  <2> QED  BY <2>1
<1>2. Len(os) = n
  <2>1. os \in Seq({os[k] : k \in 1..n})
    OBVIOUS
  <2> QED  BY <2>1
<1>3. \A k \in D : at(k) \in Int
  BY DEF Verdicts
<1>4. \A j, k \in D : <<j, k>> \in R <=> (at(j) < at(k) \/ (at(j) = at(k) /\ j < k))
  OBVIOUS
<1>5. StrictOrder(D, R)
  <2> DEFINE c(k) == at(k)
  <2> HIDE DEF R, c
  <2>1. \A k \in D : c(k) \in Int /\ k \in Int
    BY <1>3 DEF c
  <2>2. \A j, k \in D : <<j, k>> \in R <=> (c(j) < c(k) \/ (c(j) = c(k) /\ j < k))
    BY <1>4 DEF c
  <2> QED  BY <2>1, <2>2 DEF StrictOrder
<1>6. DetailLimit \in Nat
  BY PlanningAssumption
<1>7. Cardinality(places) <= DetailLimit
  <2> HIDE DEF R, D
  <2> QED  BY <1>1, <1>5, <1>6, FirstFewCounted
<1>8. \A k : k \in places <=> k \in D /\ Cardinality({j \in D : at(j) < at(k) \/ (at(j) = at(k) /\ j < k)}) < DetailLimit
  <2>1. ASSUME NEW k \in D PROVE Before(k, D, R) = {j \in D : at(j) < at(k) \/ (at(j) = at(k) /\ j < k)}
    <3> HIDE DEF R
    <3> QED  BY <1>4 DEF Before
  <2> HIDE DEF R, D
  <2> QED  BY <2>1 DEF FirstFew
<1>9. detailed = {os[k].card : k \in places}
  <2> DEFINE chosen == {k \in D : Cardinality({j \in D : at(j) < at(k) \/ (at(j) = at(k) /\ j < k)}) < DetailLimit}
  <2>1. detailed = {os[k].card : k \in chosen}
    BY DEF DetailedCards
  <2>2. chosen = places
    <3> HIDE DEF places
    <3> QED  BY <1>8
  <2> HIDE DEF chosen, places
  <2> QED  BY <2>1, <2>2
<1>10. places \in SUBSET D
  BY DEF FirstFew
<1> HIDE DEF places, R
<1>11. IsFiniteSet(places) /\ Cardinality(places) <= n
  BY <1>1, <1>10, FS_Subset
<1>12. IsFiniteSet(detailed) /\ Cardinality(detailed) = Cardinality(places)
  <2>1. (\A k \in places : cardAt[k] \in detailed) /\ \A t \in detailed : \E k \in places : cardAt[k] = t
    BY <1>9
  <2>2. \A j, k \in places : cardAt[j] = cardAt[k] => j = k
    BY <1>10
  <2>3. DOMAIN cardAt = places /\ cardAt = [k \in places |-> cardAt[k]]
    OBVIOUS
  <2> HIDE DEF cardAt, detailed
  <2> QED  BY <1>11, <2>1, <2>2, <2>3, ImageCounted
<1>13. \A k \in D : os[k].card \in detailed <=> k \in places
  <2> HIDE DEF detailed
  <2> QED  BY <1>9, <1>10
<1>14. r.decisions = {[card |-> os[k].card, verdict |-> os[k].verdict] : k \in places}
  <2>1. r.decisions = {[card |-> os[k].card, verdict |-> os[k].verdict] : k \in {m \in D : os[m].card \in detailed}}
    BY DEF SelectionAuditRecord
  <2>2. {m \in D : os[m].card \in detailed} = places
    <3> HIDE DEF detailed
    <3> QED  BY <1>10, <1>13
  <2> HIDE DEF r, detailed
  <2> QED  BY <2>1, <2>2
<1>15. Cardinality(r.decisions) = Cardinality(places)
  <2>1. (\A k \in places : verdictAt[k] \in r.decisions) /\ \A t \in r.decisions : \E k \in places : verdictAt[k] = t
    BY <1>14
  <2>2. \A j, k \in places : verdictAt[j] = verdictAt[k] => j = k
    <3>1. \A k \in places : verdictAt[k].card = os[k].card
      OBVIOUS
    <3>2. \A j, k \in places : os[j].card = os[k].card => j = k
      BY <1>10
    <3> HIDE DEF verdictAt, places
    <3>3. ASSUME NEW j \in places, NEW k \in places, verdictAt[j] = verdictAt[k] PROVE j = k
      <4>1. os[j].card = os[k].card
        BY <3>1, <3>3
      <4> QED  BY <4>1, <3>2
    <3> QED  BY <3>3
  <2>3. DOMAIN verdictAt = places /\ verdictAt = [k \in places |-> verdictAt[k]]
    OBVIOUS
  <2> DEFINE T == r.decisions
  <2> HIDE DEF verdictAt, T, r
  <2>4. (\A k \in places : verdictAt[k] \in T) /\ \A t \in T : \E k \in places : verdictAt[k] = t
    BY <2>1 DEF T
  <2>5. Cardinality(T) = Cardinality(places)
    BY <1>11, <2>2, <2>3, <2>4, ImageCounted
  <2> QED  BY <2>5 DEF T
<1>16. CountOf(p, "admit") + CountOf(p, "defer") + CountOf(p, "reject") = n
  <2> DEFINE A == {k \in D : os[k].verdict = "admit"}
             B == {k \in D : os[k].verdict = "defer"}
             C == {k \in D : os[k].verdict = "reject"}
  <2>1. CountOf(p, "admit") = Cardinality(A) /\ CountOf(p, "defer") = Cardinality(B) /\ CountOf(p, "reject") = Cardinality(C)
    BY DEF CountOf
  <2>2. A \in SUBSET D /\ B \in SUBSET (D \ A) /\ (D \ A) \ B = C
    BY DEF Verdicts
  <2> HIDE DEF A, B, C, D
  <2>3. /\ IsFiniteSet(D \ A) /\ Cardinality(D) = Cardinality(A) + Cardinality(D \ A)
        /\ Cardinality(A) \in Nat /\ Cardinality(D \ A) \in Nat
    BY <1>1, <2>2, CardSplit
  <2>4. /\ Cardinality(D \ A) = Cardinality(B) + Cardinality((D \ A) \ B)
        /\ Cardinality(B) \in Nat /\ Cardinality((D \ A) \ B) \in Nat
    BY <2>2, <2>3, CardSplit
  <2>5. Cardinality((D \ A) \ B) = Cardinality(C)
    BY <2>2
  <2> DEFINE a == Cardinality(A)
             b == Cardinality(B)
             c == Cardinality(C)
             ab == Cardinality(D \ A)
  <2>6. a \in Nat /\ b \in Nat /\ c \in Nat /\ ab \in Nat /\ n = a + ab /\ ab = b + c
    BY <1>1, <2>3, <2>4, <2>5
  <2> HIDE DEF a, b, c, ab
  <2>7. a + b + c = n
    BY <2>6
  <2> QED  BY <2>1, <2>7 DEF a, b, c
<1>17. Min({DetailLimit, Cardinality(p.excluded)}) <= Cardinality(p.excluded)
  <2>1. DetailLimit \in Int /\ Cardinality(p.excluded) \in Int
    BY <1>6, FS_CardinalityType
  <2> DEFINE e == Cardinality(p.excluded)
  <2> HIDE DEF e
  <2>2. e \in Int
    BY <2>1 DEF e
  <2>3. Min({DetailLimit, e}) = IF DetailLimit <= e THEN DetailLimit ELSE e
    BY <2>1, <2>2, OfTwo
  <2>4. Min({DetailLimit, e}) <= e
    BY <2>1, <2>2, <2>3
  <2> QED  BY <2>4 DEF e
<1>18. /\ r.evaluated = n /\ r.detailed = detailed /\ r.omitted = n - Cardinality(detailed)
       /\ r.excluded = Cardinality(p.excluded)
       /\ r.exclusionsDetailed = Min({DetailLimit, Cardinality(p.excluded)})
       /\ r.counts["admit"] = CountOf(p, "admit") /\ r.counts["defer"] = CountOf(p, "defer")
       /\ r.counts["reject"] = CountOf(p, "reject")
  BY <1>2 DEF SelectionAuditRecord
<1> HIDE DEF r, detailed
<1>19. Cardinality(places) \in Nat
  BY <1>11, FS_CardinalityType
<1>20. r.omitted = r.evaluated - Cardinality(r.detailed) /\ r.omitted >= 0 /\ Cardinality(r.detailed) <= DetailLimit
  BY <1>6, <1>7, <1>11, <1>12, <1>18, <1>19
<1>21. r.exclusionsDetailed <= r.excluded /\ Cardinality(r.decisions) = Cardinality(r.detailed)
  BY <1>12, <1>15, <1>17, <1>18
<1>22. r.counts["admit"] + r.counts["defer"] + r.counts["reject"] = r.evaluated
  BY <1>16, <1>18
<1> QED  BY <1>20, <1>21, <1>22 DEF RecordHolds, r

\* The plan passes every check the code makes of it.
LEMMA PlanAccepted ==
    ASSUME ListedInv, JudgedInv, PlanningInv
    PROVE  /\ MayApplySetPlan(outcomes, selected)
           /\ VerifySelectionPlan(PlanOf)
           /\ RecordHolds(SelectionAuditRecord(PlanOf))
<1> DEFINE p == PlanOf
           after == ApplySetPlanningDecision(outcomes, selected)
           D == 1..Cardinality(eligible)
           ds == DecisionsFor(Strong, selected, Spared, cards, supports, Facets, Baseline)
<1>1. /\ p.items = PlanItems(selected, cards) /\ p.targets = PlanTargets(DOMAIN PlanItems(selected, cards))
      /\ p.outcomes = after /\ p.excluded = Ids \ eligible /\ p.decisions = ds
      /\ p.removals = Cardinality(Strong) - Cardinality(selected)
      /\ p.costBefore = MeasurePlanCost(Strong, cards) /\ p.costAfter = cost
  BY DEF PlanOf
<1>2. selected \subseteq Strong /\ IsFiniteSet(Strong) /\ selected \in SUBSET Strong
  BY DEF PlanningInv, Plannable
<1>3. Plannable(selected, cards)
  BY FewerPlannable DEF PlanningInv
<1>4. OutcomesOf(outcomes, eligible) /\ selected \subseteq AdmittedIn(outcomes)
  BY <1>2 DEF JudgedInv, Strong
<1>5. /\ DOMAIN after = D /\ after = [k \in D |-> after[k]]
      /\ \A k \in D : after[k].card = outcomes[k].card /\ after[k].card \in eligible /\ after[k].verdict \in Verdicts
      /\ \A j, k \in D : after[j].card = after[k].card => j = k
      /\ \A k \in D : outcomes[k].verdict = "admit" /\ outcomes[k].card \notin selected =>
            after[k].verdict = "defer" /\ after[k].rule = "plan.covered_by_selected_set"
      /\ AdmittedIn(after) = selected
  BY <1>4, AppliedPlan
<1>6. /\ \A d \in ds : d.card \in Strong /\ (d.decision = "not_planned" <=> d.card \notin selected)
      /\ \A i \in Strong : \E d \in ds : d.card = i
      /\ Cardinality(ds) = Cardinality(Strong)
      /\ Cardinality({d \in ds : d.decision = "not_planned"}) = Cardinality(Strong) - Cardinality(selected)
  <2> HIDE DEF ds
  <2> QED  BY <1>2, DecidedOnce DEF ds
<1>7. DOMAIN outcomes = D
  BY <1>4 DEF OutcomesOf
<1> HIDE DEF p, after, ds
<1>8. /\ ItemsHold(p)
      /\ UNION {p.items[s] : s \in DOMAIN p.items} = selected
      /\ \A s \in DOMAIN p.items : p.items[s] \subseteq selected
  <2>1. p.targets = PlanTargets(DOMAIN p.items)
    BY <1>1
  <2> QED  BY <1>1, <1>3, <2>1, PlannedItems
<1>9. SetPlanHolds(p, selected)
  <2>1. ASSUME NEW d \in p.decisions
        PROVE  IF d.decision = "not_planned"
               THEN \E k \in DOMAIN p.outcomes :
                       /\ p.outcomes[k].card = d.card
                       /\ p.outcomes[k].verdict = "defer"
                       /\ p.outcomes[k].rule = "plan.covered_by_selected_set"
               ELSE d.card \in selected
    <3>1. d.card \in Strong /\ (d.decision = "not_planned" <=> d.card \notin selected)
      BY <1>1, <1>6
    <3>2. PICK k \in D : outcomes[k].card = d.card /\ outcomes[k].verdict = "admit"
      BY <3>1, <1>7, StrongAdmitted
    <3>3. CASE d.card \notin selected
      <4>1. after[k].verdict = "defer" /\ after[k].rule = "plan.covered_by_selected_set" /\ after[k].card = d.card
        BY <3>2, <3>3, <1>5
      <4> QED  BY <4>1, <3>1, <3>3, <1>1, <1>5
    <3> QED  BY <3>1, <3>3
  <2>2. ASSUME NEW a \in selected PROVE \E d \in p.decisions : d.card = a /\ d.decision # "not_planned"
    BY <1>1, <1>2, <1>6
  <2>3. p.removals = Cardinality({d \in p.decisions : d.decision = "not_planned"})
    BY <1>1, <1>6
  <2>4. p.costBefore.cards = Cardinality(p.decisions)
    BY <1>1, <1>6 DEF MeasurePlanCost, CostOf
  <2>5. p.costAfter = CostOf(selected, p.items)
    BY <1>1 DEF MeasurePlanCost, PlanningInv
  <2> QED  BY <2>1, <2>2, <2>3, <2>4, <2>5 DEF SetPlanHolds
<1>10. PolicyHolds(p)
  <2>1. \A k \in DOMAIN p.outcomes : p.outcomes[k].card \notin p.excluded
    BY <1>1, <1>5
  <2>2. selected \subseteq eligible
    BY <1>2, StrongAdmitted
  <2>3. \A s \in DOMAIN p.items : p.items[s] \cap p.excluded = {}
    BY <1>1, <1>8, <2>2
  <2> QED  BY <2>1, <2>3 DEF PolicyHolds
<1>11. VerifySelectionPlan(p)
  BY <1>1, <1>5, <1>8, <1>9, <1>10 DEF VerifySelectionPlan
<1>12. RecordHolds(SelectionAuditRecord(p))
  <2>1. IsFiniteSet(Ids) /\ IsFiniteSet(eligible)
    BY ServedCatalog
  <2>2. IsFiniteSet(p.excluded) /\ Cardinality(eligible) \in Nat
    <3>1. IsFiniteSet(Ids \ eligible) /\ Cardinality(eligible) \in Nat
      BY <2>1, FS_Difference, FS_CardinalityType
    <3> QED  BY <1>1, <3>1
  <2> DEFINE n == Cardinality(eligible)
  <2>3. /\ p.outcomes = after /\ n \in Nat
        /\ DOMAIN after = 1..n /\ after = [k \in 1..n |-> after[k]]
        /\ \A k \in 1..n : after[k].verdict \in Verdicts
        /\ \A j, k \in 1..n : after[j].card = after[k].card => j = k
    BY <1>1, <1>5, <2>2
  <2> HIDE DEF n
  <2> QED  BY <2>2, <2>3, RecordAgrees
<1>13. MayApplySetPlan(outcomes, selected)
  BY <1>4 DEF MayApplySetPlan, PlanningInv, Strong
<1> QED  BY <1>11, <1>12, <1>13 DEF p

LEMMA FinishHolds ==
    ASSUME ListedInv, JudgedInv, PlanningInv, FinishPlan
    PROVE  selPhase' \in {"refused", "reading"} /\ ListedInv' /\ JudgedInv' /\ PlanningInv'
<1>1. /\ query' = query /\ cards' = cards /\ eligible' = eligible /\ outcomes' = outcomes
      /\ mode' = mode /\ weak' = weak /\ supports' = supports /\ selected' = selected /\ cost' = cost
  BY DEF FinishPlan
<1>2. Strong' = Strong /\ Facets' = Facets /\ Baseline' = Baseline /\ Spared' = Spared
  BY <1>1 DEF Strong, Facets, Baseline, Spared
<1>3. selPhase' \in {"refused", "reading"}
  BY PlanAccepted DEF FinishPlan
<1>4. PlanningInv'
  BY <1>1, <1>2 DEF PlanningInv
<1> QED  BY <1>1, <1>3, <1>4 DEF ListedInv, JudgedInv

-----------------------------------------------------------------------------
(* The theorems.                                                           *)

(* Every reachable state of a selection satisfies the invariant: the cards  *)
(* judged are the eligible ones, each once; the planner keeps coverage and  *)
(* protected cards, and its running cost is the measured one.               *)
THEOREM SelectionInvariant == SelSpec => []SelectionInv
<1>1. SelInit => SelectionInv
  BY DEF SelInit, SelectionInv, NeverRefusesItself, AdmittedForAReason
<1>2. SelectionInv /\ [SelNext]_selVars => SelectionInv'
  <2> SUFFICES ASSUME SelectionInv, [SelNext]_selVars PROVE SelectionInv'
    OBVIOUS
  <2>1. CASE RefuseEmpty
    BY <2>1 DEF RefuseEmpty, SelectionInv, NeverRefusesItself, AdmittedForAReason
  <2>2. CASE ListCards
    <3>1. selPhase' \in {"listed", "refused"} /\ ListedInv'
      BY <2>2 DEF ListCards, ListedInv
    <3> QED  BY <3>1 DEF SelectionInv, NeverRefusesItself, AdmittedForAReason
  <2>3. CASE ScoreLexically
    <3>1. selPhase = "listed" /\ selPhase' = "scored"
      BY <2>3 DEF ScoreLexically
    <3>2. ListedInv' /\ ScoredInv'
      BY <2>3, <3>1, ScoresHold DEF SelectionInv
    <3> QED  BY <3>1, <3>2 DEF SelectionInv, NeverRefusesItself, AdmittedForAReason
  <2>4. CASE Fail
    BY <2>4 DEF Fail, SelectionInv, NeverRefusesItself, AdmittedForAReason
  <2>5. CASE ScoreDegraded
    <3>1. selPhase = "scored" /\ (Judge(lexical, "lexical_degraded") \/ Fail)
      BY <2>5 DEF ScoreDegraded
    <3>2. CASE Judge(lexical, "lexical_degraded")
      <4>1. selPhase' = "judged"
        BY <3>2 DEF Judge
      <4>2. ListedInv' /\ JudgedInv' /\ AdmittedForAReason'
        BY <3>1, <3>2, DegradedHolds DEF SelectionInv
      <4> QED  BY <4>1, <4>2 DEF SelectionInv, NeverRefusesItself
    <3> QED  BY <2>4, <3>1, <3>2
  <2>6. CASE ScoreRefused
    BY <2>6 DEF ScoreRefused, SelectionInv, NeverRefusesItself, AdmittedForAReason
  <2>7. CASE ScoreHybrid
    <3>1. selPhase = "scored" /\ selPhase' = "judged"
      BY <2>7 DEF ScoreHybrid, Judge
    <3>2. ListedInv' /\ JudgedInv' /\ AdmittedForAReason'
      BY <2>7, <3>1, HybridHolds DEF SelectionInv
    <3> QED  BY <3>1, <3>2 DEF SelectionInv, NeverRefusesItself
  <2>8. CASE BeginSetPlan
    <3>1. selPhase = "judged" /\ ListedInv /\ JudgedInv
      BY <2>8 DEF BeginSetPlan, SelectionInv
    <3>2. CASE DefinedOnce(Strong, cards)
      <4>1. ListedInv' /\ JudgedInv' /\ PlanningInv' /\ selPhase' = "planning"
        BY <2>8, <3>1, <3>2, BeginHolds
      <4> QED  BY <4>1 DEF SelectionInv, NeverRefusesItself, AdmittedForAReason
    <3>3. CASE ~DefinedOnce(Strong, cards)
      <4>1. selPhase' = "failed"
        BY <2>8, <3>3 DEF BeginSetPlan
      <4> QED  BY <4>1 DEF SelectionInv, NeverRefusesItself, AdmittedForAReason
    <3> QED  BY <3>2, <3>3
  <2>9. CASE RemoveCard
    <3>1. selPhase = "planning"
      BY <2>9 DEF RemoveCard
    <3>2. ListedInv' /\ JudgedInv' /\ PlanningInv' /\ selPhase' = "planning"
      BY <2>9, <3>1, RemoveHolds DEF SelectionInv
    <3> QED  BY <3>2 DEF SelectionInv, NeverRefusesItself, AdmittedForAReason
  <2>10. CASE FinishPlan
    <3>1. selPhase = "planning"
      BY <2>10 DEF FinishPlan
    <3>2. selPhase' \in {"refused", "reading"} /\ ListedInv' /\ JudgedInv' /\ PlanningInv'
      BY <2>10, <3>1, FinishHolds DEF SelectionInv
    <3> QED  BY <3>2 DEF SelectionInv, NeverRefusesItself, AdmittedForAReason
  <2>11. CASE HandOver
    BY <2>11 DEF HandOver, SelectionInv, NeverRefusesItself, AdmittedForAReason
  <2>12. CASE Assemble
    BY <2>12 DEF Assemble, SelectionInv, NeverRefusesItself, AdmittedForAReason
  <2>13. CASE UNCHANGED selVars
    <3>1. /\ selPhase' = selPhase /\ query' = query /\ cards' = cards /\ eligible' = eligible
          /\ lexical' = lexical /\ mode' = mode /\ weak' = weak /\ outcomes' = outcomes
          /\ supports' = supports /\ selected' = selected /\ cost' = cost
      BY <2>13 DEF selVars
    <3>2. /\ Strong' = Strong /\ Facets' = Facets /\ Baseline' = Baseline /\ Spared' = Spared
          /\ QueryTokens' = QueryTokens /\ EligibleCards' = EligibleCards
      BY <3>1 DEF Strong, Facets, Baseline, Spared, QueryTokens, EligibleCards
    <3>3. /\ ListedInv' <=> ListedInv
          /\ ScoredInv' <=> ScoredInv
          /\ JudgedInv' <=> JudgedInv
          /\ PlanningInv' <=> PlanningInv
          /\ AdmittedForAReason' <=> AdmittedForAReason
          /\ NeverRefusesItself' <=> NeverRefusesItself
      BY <3>1, <3>2 DEF ListedInv, ScoredInv, JudgedInv, PlanningInv, AdmittedForAReason, NeverRefusesItself
    <3> QED  BY <3>1, <3>3 DEF SelectionInv
  <2> QED  BY <2>1, <2>2, <2>3, <2>5, <2>6, <2>7, <2>8, <2>9, <2>10, <2>11, <2>12, <2>13 DEF SelNext
<1> QED  BY <1>1, <1>2, PTL DEF SelSpec

(* verifySelectionPlan, applySetPlanningDecision and                        *)
(* assertSelectionAuditRecord accept every plan that selectContext builds.  *)
THEOREM PlanNeverRefused == SelSpec => []NeverRefusesItself
<1>1. SelectionInv => NeverRefusesItself
  BY DEF SelectionInv
<1> QED  BY <1>1, SelectionInvariant, PTL

(* Word statistics admit no card, and similarity admits at most one: every  *)
(* other admitted card holds a declared word of the query.                  *)
THEOREM AdmissionsHaveReasons == SelSpec => []AdmittedForAReason
<1>1. SelectionInv => AdmittedForAReason
  BY DEF SelectionInv
<1> QED  BY <1>1, SelectionInvariant, PTL

\* Fewer cards never make a dearer plan.
LEMMA FewerNoDearer ==
    ASSUME NEW ids, NEW cs, Plannable(ids, cs), NEW some \in SUBSET ids
    PROVE  ~ExecutionLess(MeasurePlanCost(ids, cs), MeasurePlanCost(some, cs))
<1> DEFINE S == ScopesOf(ids, cs)
           X == ScopesOf(some, cs)
           a == MeasurePlanCost(ids, cs)
           b == MeasurePlanCost(some, cs)
<1>1. IsFiniteSet(S) /\ X \in SUBSET S
  BY PlanScopesFinite, FewerPlannable
<1>2. IsFiniteSet(X)
  BY <1>1, FS_Subset
<1>3. (\A s, t \in S : s.ref = t.ref => s = t) /\ \A s \in S : s.bytes \in Nat
  BY DEF Plannable
<1>4. /\ a.targets = Cardinality(PlanTargets(S)) /\ a.chunks = LimitsOf(PlanTargets(S))
      /\ a.delegated = Cardinality(S \ Managed(S)) /\ a.bytes = BytesOf(S)
      /\ b.targets = Cardinality(PlanTargets(X)) /\ b.chunks = LimitsOf(PlanTargets(X))
      /\ b.delegated = Cardinality(X \ Managed(X)) /\ b.bytes = BytesOf(X)
  BY DEF MeasurePlanCost, CostOf, PlanItems
<1> HIDE DEF S, X, a, b
<1>5. /\ IsFiniteSet(Managed(S)) /\ Cardinality(PlanTargets(S)) = Cardinality(Managed(S))
      /\ LimitsOf(PlanTargets(S)) = Cardinality(Managed(S)) * ChunkLimit
  BY <1>1, <1>3, TargetsCount
<1>6. /\ IsFiniteSet(Managed(X)) /\ Cardinality(PlanTargets(X)) = Cardinality(Managed(X))
      /\ LimitsOf(PlanTargets(X)) = Cardinality(Managed(X)) * ChunkLimit
  <2>1. \A s, t \in X : s.ref = t.ref => s = t
    BY <1>1, <1>3
  <2> QED  BY <1>2, <2>1, TargetsCount
<1>7. /\ Cardinality(Managed(X)) <= Cardinality(Managed(S))
      /\ Cardinality(Managed(X)) \in Nat /\ Cardinality(Managed(S)) \in Nat
  <2>1. Managed(X) \in SUBSET Managed(S)
    BY <1>1 DEF Managed
  <2> QED  BY <1>5, <1>6, <2>1, FS_Subset, FS_CardinalityType
<1>8. /\ Cardinality(X \ Managed(X)) <= Cardinality(S \ Managed(S))
      /\ Cardinality(X \ Managed(X)) \in Nat /\ Cardinality(S \ Managed(S)) \in Nat
  <2>1. X \ Managed(X) \in SUBSET (S \ Managed(S))
    BY <1>1 DEF Managed
  <2>2. IsFiniteSet(S \ Managed(S))
    BY <1>1, FS_Difference
  <2>3. IsFiniteSet(X \ Managed(X))
    BY <1>2, FS_Difference
  <2> QED  BY <2>1, <2>2, <2>3, FS_Subset, FS_CardinalityType
<1>9. BytesOf(X) <= BytesOf(S) /\ BytesOf(X) \in Nat /\ BytesOf(S) \in Nat
  <2>1. BytesOf(S) = BytesOf(X) + BytesOf(S \ X) /\ BytesOf(X) \in Nat /\ BytesOf(S \ X) \in Nat
    BY <1>1, <1>3, BytesSplit
  <2> QED  BY <2>1
<1>10. b.chunks <= a.chunks /\ b.chunks \in Nat /\ a.chunks \in Nat
  <2> DEFINE m == Cardinality(Managed(X))
             n == Cardinality(Managed(S))
  <2>1. m \in Nat /\ n \in Nat /\ m <= n /\ ChunkLimit \in Nat
    BY <1>7, PlanningAssumption
  <2> HIDE DEF m, n
  <2>2. m * ChunkLimit <= n * ChunkLimit /\ m * ChunkLimit \in Nat /\ n * ChunkLimit \in Nat
    BY <2>1
  <2> QED  BY <2>2, <1>4, <1>5, <1>6 DEF m, n
<1>11. /\ b.targets <= a.targets /\ b.delegated <= a.delegated /\ b.bytes <= a.bytes
       /\ a.targets \in Nat /\ b.targets \in Nat /\ a.delegated \in Nat /\ b.delegated \in Nat
       /\ a.bytes \in Nat /\ b.bytes \in Nat
  BY <1>4, <1>5, <1>6, <1>7, <1>8, <1>9
<1>12. ~ExecutionLess(a, b)
  BY <1>10, <1>11, LessForms
<1> QED  BY <1>12 DEF a, b

LEMMA PlannedLosesNothing ==
    ASSUME PlanningInv
    PROVE  /\ \A f \in Facets, i \in Strong :
                 /\ \E j \in selected : supports[j][f].score >= supports[i][f].score
                 /\ \A w \in supports[i][f].tokens \cup supports[i][f].kinds :
                       \E j \in selected : w \in supports[j][f].tokens \cup supports[j][f].kinds
           /\ \A i \in Strong \ selected : mode = "hybrid" => i \notin weak
           /\ ~ExecutionLess(MeasurePlanCost(Strong, cards), MeasurePlanCost(selected, cards))
<1>1. selected \in SUBSET Strong /\ IsFiniteSet(Strong) /\ Plannable(Strong, cards)
  BY DEF PlanningInv, Plannable
<1>2. IsFiniteSet(selected)
  BY <1>1, FS_Subset
<1>3. ASSUME NEW f \in Facets, NEW i \in Strong
      PROVE  /\ \E j \in selected : supports[j][f].score >= supports[i][f].score
             /\ \A w \in supports[i][f].tokens \cup supports[i][f].kinds :
                   \E j \in selected : w \in supports[j][f].tokens \cup supports[j][f].kinds
  <2> DEFINE kept == CoverageForCards(selected, supports, Facets)[f]
             all == CoverageForCards(Strong, supports, Facets)[f]
  <2>1. kept.score >= all.score /\ all.tokens \subseteq kept.tokens /\ all.kinds \subseteq kept.kinds
    BY DEF PlanningInv, PreservesFacetCoverage, Baseline
  <2>2. \A j \in Strong : supports[j][f].score \in Nat
    BY DEF PlanningInv
  <2>3. all.score \in Nat /\ supports[i][f].score <= all.score
    BY <1>1, <2>2, CoverageScore
  <2>4. /\ kept.score \in Nat
        /\ kept.score = 0 \/ \E j \in selected : supports[j][f].score = kept.score
    <3>1. \A j \in selected : supports[j][f].score \in Nat
      BY <1>1, <2>2
    <3> QED  BY <1>2, <3>1, CoverageScore
  <2>5. /\ all.tokens = UNION {supports[j][f].tokens : j \in Strong}
        /\ all.kinds = UNION {supports[j][f].kinds : j \in Strong}
        /\ kept.tokens = UNION {supports[j][f].tokens : j \in selected}
        /\ kept.kinds = UNION {supports[j][f].kinds : j \in selected}
    BY DEF CoverageForCards
  <2> HIDE DEF kept, all
  <2>6. \E j \in selected : supports[j][f].score >= supports[i][f].score
    <3>1. CASE kept.score = 0
      <4>1. PICK j \in selected : TRUE
        BY DEF PlanningInv
      <4>2. supports[j][f].score \in Nat /\ supports[i][f].score \in Nat
        BY <1>1, <2>2
      <4>3. supports[i][f].score <= 0
        BY <2>1, <2>3, <3>1, <4>2
      <4> QED  BY <4>2, <4>3
    <3>2. ASSUME NEW j \in selected, supports[j][f].score = kept.score
          PROVE  supports[j][f].score >= supports[i][f].score
      <4>1. supports[i][f].score \in Nat
        BY <2>2
      <4> QED  BY <4>1, <2>1, <2>3, <2>4, <3>2
    <3> QED  BY <2>4, <3>1, <3>2
  <2>7. ASSUME NEW w \in supports[i][f].tokens \cup supports[i][f].kinds
        PROVE  \E j \in selected : w \in supports[j][f].tokens \cup supports[j][f].kinds
    <3>1. w \in all.tokens \cup all.kinds
      BY <2>5
    <3>2. w \in kept.tokens \cup kept.kinds
      BY <2>1, <3>1
    <3> QED  BY <2>5, <3>2
  <2> QED  BY <2>6, <2>7
<1>4. ASSUME NEW i \in Strong \ selected, mode = "hybrid" PROVE i \notin weak
  <2>1. i \notin Spared
    BY DEF PlanningInv
  <2> QED  BY <1>4, <2>1 DEF Spared, ProtectedCandidates
<1>5. ~ExecutionLess(MeasurePlanCost(Strong, cards), MeasurePlanCost(selected, cards))
  BY <1>1, FewerNoDearer
<1> QED  BY <1>3, <1>4, <1>5

(* The cards the planner keeps support every facet as well as all admitted  *)
(* cards did, none that ranks by similarity alone is taken out, and the     *)
(* reads never cost more.                                                   *)
THEOREM NothingIsLost == SelSpec => []NothingLost
<1>1. SelectionInv => NothingLost
  <2> SUFFICES ASSUME SelectionInv, selPhase = "reading" PROVE NothingLost
    BY DEF NothingLost
  <2>1. PlanningInv
    BY DEF SelectionInv
  <2>2. /\ \A f \in Facets, i \in Strong :
              /\ \E j \in selected : supports[j][f].score >= supports[i][f].score
              /\ \A w \in supports[i][f].tokens \cup supports[i][f].kinds :
                    \E j \in selected : w \in supports[j][f].tokens \cup supports[j][f].kinds
        /\ \A i \in Strong \ selected : mode = "hybrid" => i \notin weak
        /\ ~ExecutionLess(MeasurePlanCost(Strong, cards), MeasurePlanCost(selected, cards))
    BY <2>1, PlannedLosesNothing
  <2> QED  BY <2>2, Zenon DEF NothingLost
<1> QED  BY <1>1, SelectionInvariant, PTL

-----------------------------------------------------------------------------
(* The answer: fusion, repeated content, the budget.                       *)

\* A sum does not depend on what its terms are indexed by.
LEMMA SumReindexed ==
    ASSUME NEW S, IsFiniteSet(S), NEW f, \A x \in S : f[x] \in Nat,
           NEW T, NEW g, NEW b \in Bijection(S, T), \A x \in S : g[b[x]] = f[x]
    PROVE  SumFunctionOnSet(g, T) = SumFunctionOnSet(f, S)
<1> DEFINE A == Weighed(f, S)
           B == Weighed(g, T)
           w == [p \in A |-> <<b[p[1]], p[2]>>]
<1>1. /\ b \in [S -> T] /\ (\A x, y \in S : b[x] = b[y] => x = y) /\ \A y \in T : \E x \in S : b[x] = y
  BY DEF Bijection, Injection, Surjection, IsInjective
<1>2. IsFiniteSet(T) /\ \A y \in T : g[y] \in Nat
  <2>1. b \in Surjection(S, T)
    BY DEF Bijection
  <2> QED  BY <1>1, <2>1, FS_Surjection
<1>3. \A p \in A : p[1] \in S /\ p[2] \in 1..f[p[1]] /\ p = <<p[1], p[2]>>
  BY DEF Weighed
<1>4. ASSUME NEW p \in A PROVE w[p] \in B
  BY <1>1, <1>3 DEF Weighed
<1>5. ASSUME NEW p \in A, NEW q \in A, w[p] = w[q] PROVE p = q
  <2>1. b[p[1]] = b[q[1]] /\ p[2] = q[2]
    BY <1>5
  <2>2. p[1] = q[1]
    BY <2>1, <1>1, <1>3
  <2> QED  BY <2>1, <2>2, <1>3
<1>6. ASSUME NEW q \in B PROVE \E p \in A : w[p] = q
  <2>1. q[1] \in T /\ q[2] \in 1..g[q[1]] /\ q = <<q[1], q[2]>> /\ q[2] \in Nat
    BY DEF Weighed
  <2>2. PICK x \in S : b[x] = q[1]
    BY <2>1, <1>1
  <2>3. <<x, q[2]>> \in A
    BY <2>1, <2>2 DEF Weighed
  <2>4. w[<<x, q[2]>>] = q
    BY <2>1, <2>2, <2>3
  <2> QED  BY <2>3, <2>4
<1>7. IsFiniteSet(A)
  BY WeighedFinite
<1>8. Cardinality(B) = Cardinality(A)
  <2>1. DOMAIN w = A /\ w = [p \in A |-> w[p]]
    OBVIOUS
  <2> HIDE DEF w, A, B
  <2> QED  BY <1>4, <1>5, <1>6, <1>7, <2>1, ImageCounted
<1> QED  BY <1>2, <1>8, SumIsCount

LEMMA FirstMember ==
    ASSUME NEW S, IsFiniteSet(S), S # {}, NEW R, StrictOrder(S, R)
    PROVE  \E x \in S : \A y \in S \ {x} : <<x, y>> \in R
<1> DEFINE o == Ordered(S, R)
           n == Cardinality(S)
<1>1. /\ n \in Nat /\ o \in [1..n -> S]
      /\ \A j, k \in 1..n : j < k => <<o[j], o[k]>> \in R
      /\ \A x \in S : \E k \in 1..n : o[k] = x
  BY OrderedLists
<1> HIDE DEF o, n
<1>2. 1 \in 1..n
  <2>1. PICK x \in S : TRUE
    OBVIOUS
  <2>2. PICK k \in 1..n : o[k] = x
    BY <1>1
  <2> QED  BY <1>1
<1>3. ASSUME NEW y \in S \ {o[1]} PROVE <<o[1], y>> \in R
  <2>1. PICK k \in 1..n : o[k] = y
    BY <1>1
  <2>2. 1 < k
    BY <2>1, <1>1
  <2> QED  BY <2>1, <2>2, <1>1, <1>2
<1> QED  BY <1>1, <1>2, <1>3

\* Candidates: no target returns a revision twice.
Candidates(cs) ==
    /\ IsFiniteSet(cs)
    /\ \A c \in cs : c.target \in Nat /\ c.rank \in Nat /\ c.rev \in Nat /\ c.text \in DOMAIN TextLength
    /\ \A c, d \in cs : c.target = d.target /\ c.rev = d.rev => c = d

\* The candidates of one revision become one, which stands for the best.
LEMMA FusionIs ==
    ASSUME NEW cs, Candidates(cs), NEW r, \E c \in cs : c.rev = r
    PROVE  /\ FuseRevision(cs, r).score \in Nat /\ FuseRevision(cs, r).rev = r
           /\ \E c \in cs : /\ c.rev = r /\ FuseRevision(cs, r).target = c.target
                            /\ FuseRevision(cs, r).text = c.text /\ FuseRevision(cs, r).digest = c.digest
<1> DEFINE group == {c \in cs : c.rev = r}
           better(c, d) == c.rank < d.rank \/ (c.rank = d.rank /\ c.target < d.target)
           best == CHOOSE c \in group : \A d \in group \ {c} : better(c, d)
           score == [c \in group |-> ReciprocalRank(c.rank)]
           R == {p \in group \X group : better(p[1], p[2])}
<1>1. FuseRevision(cs, r) = [score |-> SumFunction(score), target |-> best.target, rev |-> r,
                             text |-> best.text, digest |-> best.digest]
  BY DEF FuseRevision
<1>2. IsFiniteSet(group) /\ group # {}
  BY FS_Subset DEF Candidates
<1>3. \A c \in group : c.rank \in Nat /\ c.target \in Nat
  BY DEF Candidates
<1>4. \A c, d \in group : c.target = d.target => c = d
  BY DEF Candidates
<1>5. StrictOrder(group, R)
  <2>1. \A c, d \in group : <<c, d>> \in R <=> better(c, d)
    OBVIOUS
  <2> HIDE DEF R, group
  <2> QED  BY <1>3, <1>4, <2>1 DEF StrictOrder
<1>6. \E c \in group : \A d \in group \ {c} : better(c, d)
  <2>1. \A c, d \in group : <<c, d>> \in R => better(c, d)
    OBVIOUS
  <2> HIDE DEF R, group
  <2>2. PICK c \in group : \A d \in group \ {c} : <<c, d>> \in R
    BY <1>2, <1>5, FirstMember
  <2>3. \A d \in group \ {c} : better(c, d)
    BY <2>1, <2>2
  <2> QED  BY <2>3
<1>7. best \in group
  <2> HIDE DEF group, better
  <2> QED  BY <1>6
<1>8. SumFunction(score) \in Nat
  <2>1. \A c \in group : score[c] \in Nat
    <3>1. ASSUME NEW n \in Nat PROVE ReciprocalRank(n) \in Nat
      BY DEF ReciprocalRank
    <3> QED  BY <1>3, <3>1
  <2>2. SumFunction(score) = SumFunctionOnSet(score, group)
    BY DEF SumFunction
  <2> HIDE DEF score, group
  <2> QED  BY <1>2, <2>1, <2>2, SumType
<1> HIDE DEF score, best
<1> QED  BY <1>1, <1>7, <1>8

LEMMA FusedLists ==
    ASSUME NEW cs, Candidates(cs)
    PROVE  LET n == Cardinality(FusedSet(cs))
           IN /\ n \in Nat /\ DOMAIN Fused(cs) = 1..n
              /\ \A k \in 1..n : \E c \in cs : Fused(cs)[k] = FuseRevision(cs, c.rev) /\ Fused(cs)[k].rev = c.rev
              /\ \A c \in cs : \E k \in 1..n : Fused(cs)[k] = FuseRevision(cs, c.rev) /\ Fused(cs)[k].rev = c.rev
              /\ \A j, k \in 1..n : Fused(cs)[j].rev = Fused(cs)[k].rev => j = k
<1> DEFINE all == FusedSet(cs)
           n == Cardinality(all)
           higher(a, b) == a.score > b.score \/ (a.score = b.score /\ a.rev < b.rev)
           R == {p \in all \X all : higher(p[1], p[2])}
           fuse == [c \in cs |-> FuseRevision(cs, c.rev)]
<1>1. all = {FuseRevision(cs, c.rev) : c \in cs}
  BY DEF FusedSet
<1>2. ASSUME NEW a \in all PROVE \E c \in cs : a = FuseRevision(cs, c.rev) /\ a.rev = c.rev /\ a.score \in Nat /\ a.rev \in Nat
  <2>1. PICK c \in cs : a = FuseRevision(cs, c.rev)
    BY <1>1
  <2>2. a.score \in Nat /\ a.rev = c.rev
    BY <2>1, FusionIs
  <2> QED  BY <2>1, <2>2 DEF Candidates
<1>3. IsFiniteSet(all)
  <2>1. fuse \in Surjection(cs, all)
    <3>1. fuse \in [cs -> all] /\ \A a \in all : \E c \in cs : fuse[c] = a
      BY <1>1
    <3> QED  BY <3>1 DEF Surjection
  <2> QED  BY <2>1, FS_Surjection DEF Candidates
<1>4. \A a, b \in all : a.rev = b.rev => a = b
  BY <1>2
<1>5. Fused(cs) = Ordered(all, R)
  BY DEF Fused
<1> HIDE DEF all, fuse
<1>6. StrictOrder(all, R)
  <2>1. \A a, b \in all : <<a, b>> \in R <=> higher(a, b)
    OBVIOUS
  <2>2. \A a \in all : a.score \in Nat /\ a.rev \in Nat
    BY <1>2
  <2> HIDE DEF R
  <2> QED  BY <1>4, <2>1, <2>2 DEF StrictOrder
<1> HIDE DEF R
<1>7. /\ n \in Nat /\ Fused(cs) \in [1..n -> all]
      /\ \A x \in all : \E k \in 1..n : Fused(cs)[k] = x
      /\ \A j, k \in 1..n : Fused(cs)[j] = Fused(cs)[k] => j = k
  BY <1>3, <1>5, <1>6, OrderedLists
<1> HIDE DEF n
<1>8. ASSUME NEW k \in 1..n
      PROVE  \E c \in cs : Fused(cs)[k] = FuseRevision(cs, c.rev) /\ Fused(cs)[k].rev = c.rev
  BY <1>2, <1>7
<1>9. ASSUME NEW c \in cs
      PROVE  \E k \in 1..n : Fused(cs)[k] = FuseRevision(cs, c.rev) /\ Fused(cs)[k].rev = c.rev
  <2>1. FuseRevision(cs, c.rev) \in all /\ FuseRevision(cs, c.rev).rev = c.rev
    BY <1>1, FusionIs
  <2> QED  BY <2>1, <1>7
<1>10. \A j, k \in 1..n : Fused(cs)[j].rev = Fused(cs)[k].rev => j = k
  BY <1>4, <1>7
<1> QED  BY <1>7, <1>8, <1>9, <1>10 DEF n, all

\* The first of each content, in their order.
LEMMA DistinctLists ==
    ASSUME NEW n \in Nat, NEW fs, DOMAIN fs = 1..n,
           NEW first, first = FirstPlaces(fs), NEW m, m = Cardinality(first), NEW o, o = Increasing(first),
           NEW ds, ds = Distinct(fs)
    PROVE  /\ m \in Nat /\ o \in [1..m -> first] /\ first \subseteq 1..n
           /\ \A j, k \in 1..m : j < k => o[j] < o[k]
           /\ \A x \in first : \E k \in 1..m : o[k] = x
           /\ DOMAIN ds = 1..m /\ Len(ds) = m /\ ds = [k \in 1..m |-> fs[o[k]]]
           /\ \A j, k \in 1..m : ds[j].digest = ds[k].digest => j = k
<1> DEFINE R == {p \in first \X first : p[1] < p[2]}
<1>1. first \subseteq 1..n
  BY DEF FirstPlaces
<1>2. IsFiniteSet(first)
  <2>1. IsFiniteSet(1..n)
    BY FS_Interval
  <2> QED  BY <1>1, <2>1, FS_Subset
<1>3. o = Ordered(first, R)
  BY DEF Increasing
<1>4. \A x, y \in first : <<x, y>> \in R <=> x < y
  OBVIOUS
<1>5. ds = [k \in DOMAIN o |-> fs[o[k]]]
  BY DEF Distinct
<1>6. \A j, k \in first : j < k => fs[j].digest # fs[k].digest
  BY <1>1 DEF FirstPlaces
<1> HIDE DEF R
<1>7. StrictOrder(first, R)
  BY <1>1, <1>4 DEF StrictOrder
<1>8. /\ m \in Nat /\ o \in [1..m -> first]
      /\ \A j, k \in 1..m : j < k => <<o[j], o[k]>> \in R
      /\ \A x \in first : \E k \in 1..m : o[k] = x
  BY <1>2, <1>3, <1>7, OrderedLists
<1>9. \A j, k \in 1..m : j < k => o[j] < o[k]
  BY <1>4, <1>8
<1>10. ds = [k \in 1..m |-> fs[o[k]]] /\ DOMAIN ds = 1..m
  BY <1>5, <1>8
<1>11. Len(ds) = m
  <2>1. ds = [k \in 1..m |-> ds[k]]
    BY <1>10
  <2>2. ds \in Seq({ds[k] : k \in 1..m})
    BY <1>8, <2>1
  <2> QED  BY <1>8, <1>10, <2>2
<1>12. ASSUME NEW j \in 1..m, NEW k \in 1..m, ds[j].digest = ds[k].digest PROVE j = k
  <2>1. ds[j] = fs[o[j]] /\ ds[k] = fs[o[k]] /\ o[j] \in first /\ o[k] \in first
    BY <1>8, <1>10
  <2>2. ~(o[j] < o[k]) /\ ~(o[k] < o[j])
    BY <1>6, <1>12, <2>1
  <2>3. ~(j < k) /\ ~(k < j)
    BY <1>9, <2>2
  <2> QED  BY <2>3, <1>8
<1> QED  BY <1>1, <1>8, <1>9, <1>10, <1>11, <1>12

Affordable(chunks, characters) == CharactersOf(chunks) <= characters

\* What the budget admits: a start of the list, within both limits.
LEMMA BudgetFits ==
    ASSUME NEW m \in Nat, NEW ds, DOMAIN ds = 1..m, Len(ds) = m,
           \A k \in 1..m : ds[k].text \in DOMAIN TextLength, NEW characters, characters \in Nat,
           NEW ad, ad = AppliedBudget(ds, characters)
    PROVE  \E n \in 0..m : /\ DOMAIN ad = 1..n /\ Len(ad) = n /\ \A k \in 1..n : ad[k] = ds[k]
                           /\ n <= MaxChunks /\ Affordable(ad, characters)
<1> DEFINE fitting == {n \in 0..m : WithinBudget(ds, n, characters)}
           n == Max(fitting)
<1>1. ad = SubSeq(ds, 1, n)
  BY DEF AppliedBudget
<1>2. 0 \in fitting
  <2> DEFINE e == SubSeq(ds, 1, 0)
  <2>1. DOMAIN e = {}
    <3>1. DOMAIN e = 1..(1 + 0 - 1)
      BY DEF SubSeq
    <3> QED  BY <3>1
  <2> HIDE DEF e
  <2>2. CharactersOf(e) = 0
    <3> DEFINE f == [k \in DOMAIN e |-> TextLength[e[k].text]]
    <3>1. CharactersOf(e) = SumFunctionOnSet(f, {})
      BY <2>1 DEF CharactersOf, SumFunction
    <3>2. \A k \in {} : f[k] = 0
      OBVIOUS
    <3> HIDE DEF f
    <3>3. SumFunctionOnSet(f, {}) = 0
      BY <3>2, FS_EmptySet, SumOfZeros
    <3> QED  BY <3>1, <3>3
  <2>3. 0 <= MaxChunks /\ 0 <= characters
    BY AssemblyAssumption
  <2> QED  BY <2>2, <2>3 DEF WithinBudget, e
<1>3. n \in fitting
  <2>1. fitting \in SUBSET Int /\ (\A y \in fitting : y <= m) /\ m \in Int
    OBVIOUS
  <2> HIDE DEF fitting
  <2> QED  BY <1>2, <2>1, GreatestOf
<1>4. n \in 0..m /\ n <= MaxChunks /\ CharactersOf(SubSeq(ds, 1, n)) <= characters
  BY <1>3 DEF WithinBudget
<1> HIDE DEF n
<1>5. DOMAIN ad = 1..n /\ Len(ad) = n /\ \A k \in 1..n : ad[k] = ds[k]
  <2>1. ad = [k \in 1..n |-> ds[k]]
    BY <1>1, <1>4
  <2>2. ad \in Seq({ds[k] : k \in 1..n})
    BY <2>1, <1>4
  <2> QED  BY <2>1, <2>2, <1>4
<1> QED  BY <1>1, <1>4, <1>5 DEF Affordable

\* What a read brings.
ChunksRead(chunks) ==
    /\ Len(chunks) \in Nat /\ DOMAIN chunks = 1..Len(chunks)
    /\ \A k \in DOMAIN chunks :
          chunks[k].rank \in Nat /\ chunks[k].rev \in Nat /\ chunks[k].text \in DOMAIN TextLength

ReadsFor(reads, targets) ==
    /\ IsFiniteSet(targets) /\ targets \subseteq Nat
    /\ ReadsIndexable(reads, targets)
    /\ \A k \in DOMAIN reads : ChunksRead(reads[k].chunks)

ReadVerdicts(targets, reads, limit) == [t \in targets |-> JudgeOutcome(t, reads, limit)]

\* A fulfilled verdict is about the one read of its target, which holds together.
LEMMA VerdictIs ==
    ASSUME NEW targets, NEW reads, ReadsFor(reads, targets), NEW limit, NEW t \in targets,
           JudgeOutcome(t, reads, limit).kind # "failed"
    PROVE  \E k \in DOMAIN reads : /\ reads[k].target = t
                                   /\ JudgeOutcome(t, reads, limit).kind = "fulfilled"
                                   /\ JudgeOutcome(t, reads, limit).chunks = reads[k].chunks
                                   /\ OutcomeHoldsTogether(reads[k].chunks, limit)
<1> DEFINE own == {k \in DOMAIN reads : reads[k].target = t}
           read == reads[CHOOSE k \in own : TRUE]
           failed(stage) == [kind |-> "failed", stage |-> stage, chunks |-> << >>]
           v == JudgeOutcome(t, reads, limit)
<1>1. v = IF own = {} THEN failed("assembly")
          ELSE CASE read.status # "fulfilled" -> failed(read.status)
                 [] read.status = "fulfilled" /\ ~OutcomeHoldsTogether(read.chunks, limit) -> failed("assembly")
                 [] OTHER -> [kind |-> "fulfilled", stage |-> "none", chunks |-> read.chunks]
  BY DEF JudgeOutcome
<1>2. \A stage : failed(stage).kind = "failed"
  OBVIOUS
<1>3. own # {} => \E k \in DOMAIN reads : reads[k].target = t /\ read = reads[k]
  OBVIOUS
<1> HIDE DEF v, own, read, failed
<1>4. own # {} /\ read.status = "fulfilled" /\ OutcomeHoldsTogether(read.chunks, limit)
  BY <1>1, <1>2 DEF v
<1>5. v = [kind |-> "fulfilled", stage |-> "none", chunks |-> read.chunks]
  BY <1>1, <1>4
<1>6. PICK k \in DOMAIN reads : reads[k].target = t /\ read = reads[k]
  BY <1>3, <1>4
<1>7. v.kind = "fulfilled" /\ v.chunks = reads[k].chunks /\ OutcomeHoldsTogether(reads[k].chunks, limit)
  BY <1>4, <1>5, <1>6
<1> QED  BY <1>6, <1>7 DEF v

LEMMA CandidatesAre ==
    ASSUME NEW targets, NEW reads, ReadsFor(reads, targets), NEW limit,
           NEW vs, vs = ReadVerdicts(targets, reads, limit)
    PROVE  /\ Candidates(CandidatesOf(vs))
           /\ \A c \in CandidatesOf(vs) : c.target \in targets /\ vs[c.target].kind = "fulfilled"
           /\ \A k \in DOMAIN reads : vs[reads[k].target].kind # "failed" =>
                 /\ \A j \in DOMAIN reads[k].chunks : Candidate(reads[k].target, reads[k].chunks[j]) \in CandidatesOf(vs)
                 /\ \A c \in CandidatesOf(vs) : c.target = reads[k].target =>
                       \E j \in DOMAIN reads[k].chunks : c = Candidate(reads[k].target, reads[k].chunks[j])
                 /\ \A i, j \in DOMAIN reads[k].chunks : reads[k].chunks[i].rev = reads[k].chunks[j].rev => i = j
<1> DEFINE good == {t \in targets : vs[t].kind = "fulfilled"}
           bundle(t) == {Candidate(t, vs[t].chunks[k]) : k \in DOMAIN vs[t].chunks}
           cs == CandidatesOf(vs)
<1>1. cs = UNION {bundle(t) : t \in good}
  BY DEF CandidatesOf, ReadVerdicts
<1>2. ASSUME NEW t \in targets, vs[t].kind # "failed"
      PROVE  /\ vs[t].kind = "fulfilled"
             /\ \E k \in DOMAIN reads : /\ reads[k].target = t /\ vs[t].chunks = reads[k].chunks
                                        /\ OutcomeHoldsTogether(reads[k].chunks, limit)
                                        /\ ChunksRead(reads[k].chunks)
  <2>1. vs[t] = JudgeOutcome(t, reads, limit)
    BY DEF ReadVerdicts
  <2>2. PICK k \in DOMAIN reads : /\ reads[k].target = t
                                  /\ JudgeOutcome(t, reads, limit).kind = "fulfilled"
                                  /\ JudgeOutcome(t, reads, limit).chunks = reads[k].chunks
                                  /\ OutcomeHoldsTogether(reads[k].chunks, limit)
    BY <1>2, <2>1, VerdictIs
  <2>3. ChunksRead(reads[k].chunks)
    BY DEF ReadsFor
  <2> QED  BY <2>1, <2>2, <2>3
<1>3. \A j, k \in DOMAIN reads : reads[j].target = reads[k].target => j = k
  BY DEF ReadsFor, ReadsIndexable
<1>4. \A k \in DOMAIN reads : reads[k].target \in targets
  BY DEF ReadsFor, ReadsIndexable
<1>5. ASSUME NEW t \in good
      PROVE  /\ ChunksRead(vs[t].chunks)
             /\ \A i, j \in DOMAIN vs[t].chunks : vs[t].chunks[i].rev = vs[t].chunks[j].rev => i = j
  <2>1. PICK k \in DOMAIN reads : /\ vs[t].chunks = reads[k].chunks
                                  /\ OutcomeHoldsTogether(reads[k].chunks, limit)
                                  /\ ChunksRead(reads[k].chunks)
    BY <1>2
  <2> QED  BY <2>1 DEF OutcomeHoldsTogether
<1>6. IsFiniteSet(good)
  BY FS_Subset DEF ReadsFor
<1>7. ASSUME NEW t \in good PROVE IsFiniteSet(bundle(t))
  <2> DEFINE D == DOMAIN vs[t].chunks
             f == [k \in D |-> Candidate(t, vs[t].chunks[k])]
  <2>1. IsFiniteSet(D)
    <3>1. D = 1..Len(vs[t].chunks) /\ Len(vs[t].chunks) \in Nat
      BY <1>5 DEF ChunksRead
    <3> QED  BY <3>1, FS_Interval
  <2>2. f \in Surjection(D, bundle(t))
    BY DEF Surjection
  <2> HIDE DEF D, f
  <2> QED  BY <2>1, <2>2, FS_Surjection
<1> HIDE DEF cs
<1>8. IsFiniteSet(cs)
  <2> DEFINE all == {bundle(t) : t \in good}
             f == [t \in good |-> bundle(t)]
  <2>1. f \in Surjection(good, all)
    BY DEF Surjection
  <2>2. IsFiniteSet(all)
    BY <1>6, <2>1, FS_Surjection
  <2>3. \A X \in all : IsFiniteSet(X)
    BY <1>7
  <2> HIDE DEF all, good
  <2>4. IsFiniteSet(UNION all)
    BY <2>2, <2>3, FS_UNION
  <2> QED  BY <2>4, <1>1 DEF all
<1>9. \A c \in cs : \E t \in good : \E j \in DOMAIN vs[t].chunks : c = Candidate(t, vs[t].chunks[j])
  BY <1>1
<1>10. \A t \in good : \A j \in DOMAIN vs[t].chunks : Candidate(t, vs[t].chunks[j]) \in cs
  BY <1>1
<1>11. ASSUME NEW t, NEW c
       PROVE  /\ Candidate(t, c).target = t /\ Candidate(t, c).rank = c.rank /\ Candidate(t, c).rev = c.rev
              /\ Candidate(t, c).text = c.text
  BY DEF Candidate
<1> HIDE DEF bundle, good
<1>12. ASSUME NEW c \in cs
       PROVE  /\ c.target \in good /\ c.rank \in Nat /\ c.rev \in Nat /\ c.text \in DOMAIN TextLength
              /\ \E j \in DOMAIN vs[c.target].chunks :
                    c = Candidate(c.target, vs[c.target].chunks[j]) /\ c.rev = vs[c.target].chunks[j].rev
  <2>0. PICK t \in good : \E j \in DOMAIN vs[t].chunks : c = Candidate(t, vs[t].chunks[j])
    BY <1>9
  <2>1. PICK j \in DOMAIN vs[t].chunks : c = Candidate(t, vs[t].chunks[j])
    BY <2>0
  <2>2. ChunksRead(vs[t].chunks)
    BY <1>5
  <2>3. /\ c.target = t /\ c.rank = vs[t].chunks[j].rank /\ c.rev = vs[t].chunks[j].rev
        /\ c.text = vs[t].chunks[j].text
    BY <1>11, <2>1
  <2> QED  BY <2>1, <2>2, <2>3 DEF ChunksRead
<1>13. Candidates(cs)
  <2>1. ASSUME NEW c \in cs, NEW d \in cs, c.target = d.target, c.rev = d.rev PROVE c = d
    <3> DEFINE own == vs[c.target].chunks
    <3>1. \E i \in DOMAIN own : c = Candidate(c.target, own[i]) /\ c.rev = own[i].rev
      BY <1>12
    <3>2. \E j \in DOMAIN own : d = Candidate(c.target, own[j]) /\ d.rev = own[j].rev
      <4>1. \E j \in DOMAIN vs[d.target].chunks :
               d = Candidate(d.target, vs[d.target].chunks[j]) /\ d.rev = vs[d.target].chunks[j].rev
        BY <1>12
      <4>2. d.target = c.target
        BY <2>1
      <4> QED  BY <4>1, <4>2
    <3>3. \A i, j \in DOMAIN own : own[i].rev = own[j].rev => i = j
      BY <1>5, <1>12
    <3> HIDE DEF own
    <3> QED  BY <2>1, <3>1, <3>2, <3>3
  <2>2. \A c \in cs : c.target \in Nat
    BY <1>12 DEF good, ReadsFor
  <2> QED  BY <1>8, <1>12, <2>1, <2>2 DEF Candidates
<1>14. ASSUME NEW k \in DOMAIN reads, vs[reads[k].target].kind # "failed"
       PROVE  /\ reads[k].target \in good /\ vs[reads[k].target].chunks = reads[k].chunks
  <2>1. reads[k].target \in targets
    BY <1>4
  <2>2. PICK j \in DOMAIN reads : reads[j].target = reads[k].target /\ vs[reads[k].target].chunks = reads[j].chunks
    BY <1>2, <1>14, <2>1
  <2>3. j = k
    BY <1>3, <2>2
  <2> QED  BY <1>2, <1>14, <2>1, <2>2, <2>3 DEF good
<1>15. ASSUME NEW k \in DOMAIN reads, vs[reads[k].target].kind # "failed"
       PROVE  /\ \A j \in DOMAIN reads[k].chunks : Candidate(reads[k].target, reads[k].chunks[j]) \in cs
              /\ \A c \in cs : c.target = reads[k].target =>
                    \E j \in DOMAIN reads[k].chunks : c = Candidate(reads[k].target, reads[k].chunks[j])
              /\ \A i, j \in DOMAIN reads[k].chunks : reads[k].chunks[i].rev = reads[k].chunks[j].rev => i = j
  <2>1. reads[k].target \in good /\ vs[reads[k].target].chunks = reads[k].chunks
    BY <1>14, <1>15
  <2>2. \A c \in cs : c.target = reads[k].target =>
           \E j \in DOMAIN reads[k].chunks : c = Candidate(reads[k].target, reads[k].chunks[j])
    BY <1>12, <2>1
  <2>3. \A j \in DOMAIN reads[k].chunks : Candidate(reads[k].target, reads[k].chunks[j]) \in cs
    BY <1>10, <2>1
  <2>4. \A i, j \in DOMAIN reads[k].chunks : reads[k].chunks[i].rev = reads[k].chunks[j].rev => i = j
    BY <1>5, <2>1
  <2> QED  BY <2>2, <2>3, <2>4
<1>16. \A c \in cs : c.target \in targets /\ vs[c.target].kind = "fulfilled"
  BY <1>12 DEF good
<1> QED  BY <1>13, <1>15, <1>16 DEF cs

\* What the answer says of one target: its chunks, and why the others left.
ChunksAnswered(ad, t) ==
    {[contextRank |-> k, rev |-> ad[k].rev, text |-> ad[k].text, digest |-> ad[k].digest] :
        k \in {n \in DOMAIN ad : ad[n].target = t}}

LeftOut(cs, fs, ds, ad) == FusedAway(cs) \cup Repeated(fs) \cup Exhausted(ds, ad)

\* Every candidate of a target is in the answer or accounted for, and once.
LEMMA Accounted ==
    ASSUME NEW cs, Candidates(cs), NEW t, NEW characters, characters \in Nat,
           NEW fs, fs = Fused(cs), NEW ds, ds = Distinct(fs), NEW ad, ad = AppliedBudget(ds, characters)
    PROVE  Cardinality(ChunksAnswered(ad, t)) + Cardinality({o \in LeftOut(cs, fs, ds, ad) : o.target = t})
             = Cardinality({c \in cs : c.target = t})
<1> DEFINE n == Cardinality(FusedSet(cs))
           first == FirstPlaces(fs)
           m == Cardinality(first)
           o == Increasing(first)
           own == {c \in cs : c.target = t}
           place == [c \in cs |-> CHOOSE k \in 1..n : fs[k].rev = c.rev]
           left == {x \in LeftOut(cs, fs, ds, ad) : x.target = t}
<1>1. /\ n \in Nat /\ DOMAIN fs = 1..n
      /\ \A k \in 1..n : \E c \in cs : fs[k] = FuseRevision(cs, c.rev) /\ fs[k].rev = c.rev
      /\ \A c \in cs : \E k \in 1..n : fs[k] = FuseRevision(cs, c.rev) /\ fs[k].rev = c.rev
      /\ \A j, k \in 1..n : fs[j].rev = fs[k].rev => j = k
  BY FusedLists
<1> HIDE DEF n
<1>2. /\ m \in Nat /\ o \in [1..m -> first] /\ first \subseteq 1..n
      /\ \A j, k \in 1..m : j < k => o[j] < o[k]
      /\ \A x \in first : \E k \in 1..m : o[k] = x
      /\ DOMAIN ds = 1..m /\ Len(ds) = m /\ ds = [k \in 1..m |-> fs[o[k]]]
  <2>1. n \in Nat /\ DOMAIN fs = 1..n
    BY <1>1
  <2>2. first = FirstPlaces(fs) /\ m = Cardinality(first) /\ o = Increasing(first)
    OBVIOUS
  <2> HIDE DEF first, m, o
  <2> QED  BY <2>1, <2>2, DistinctLists
<1> HIDE DEF first, m, o
<1>3. ASSUME NEW c \in cs
      PROVE  /\ place[c] \in 1..n /\ fs[place[c]] = FuseRevision(cs, c.rev) /\ fs[place[c]].rev = c.rev
             /\ \A k \in 1..n : fs[k].rev = c.rev => place[c] = k
  <2>1. PICK k \in 1..n : fs[k] = FuseRevision(cs, c.rev) /\ fs[k].rev = c.rev
    BY <1>1
  <2>2. place[c] \in 1..n /\ fs[place[c]].rev = c.rev
    BY <2>1
  <2>3. \A j \in 1..n : fs[j].rev = c.rev => place[c] = j
    BY <2>2, <1>1
  <2> HIDE DEF place
  <2>4. place[c] = k
    BY <2>1, <2>3
  <2> QED  BY <2>1, <2>2, <2>3, <2>4
<1> HIDE DEF place
<1>4. ASSUME NEW k \in 1..n, fs[k].target = t PROVE \E c \in own : place[c] = k /\ c.rev = fs[k].rev
  <2>1. PICK d \in cs : fs[k] = FuseRevision(cs, d.rev) /\ fs[k].rev = d.rev
    BY <1>1
  <2>2. PICK c \in cs : c.rev = d.rev /\ FuseRevision(cs, d.rev).target = c.target
    BY FusionIs
  <2>3. c \in own /\ place[c] = k
    BY <1>3, <1>4, <2>1, <2>2
  <2> QED  BY <2>1, <2>2, <2>3
<1>5. \A c, d \in own : place[c] = place[d] => c = d
  <2>1. \A c, d \in own : c.rev = d.rev => c = d
    BY DEF Candidates
  <2> QED  BY <2>1, <1>3
<1>6. \A k \in 1..m : ds[k].text \in DOMAIN TextLength
  <2> SUFFICES ASSUME NEW k \in 1..m PROVE ds[k].text \in DOMAIN TextLength
    OBVIOUS
  <2>1. ds[k] = fs[o[k]] /\ o[k] \in 1..n
    BY <1>2
  <2>2. PICK d \in cs : fs[o[k]] = FuseRevision(cs, d.rev)
    BY <1>1, <2>1
  <2>3. \E c \in cs : FuseRevision(cs, d.rev).text = c.text
    BY FusionIs
  <2> QED  BY <2>1, <2>2, <2>3 DEF Candidates
<1>7. PICK N \in 0..m : DOMAIN ad = 1..N /\ Len(ad) = N /\ \A k \in 1..N : ad[k] = ds[k]
  <2>1. m \in Nat /\ DOMAIN ds = 1..m /\ Len(ds) = m
    BY <1>2
  <2> QED  BY <2>1, <1>6, BudgetFits
<1>8. ASSUME NEW k \in 1..N PROVE ad[k] = fs[o[k]] /\ o[k] \in 1..n /\ k \in 1..m
  <2>1. k \in 1..m /\ ad[k] = ds[k]
    BY <1>2, <1>7
  <2>2. ds[k] = fs[o[k]] /\ o[k] \in first
    BY <1>2, <2>1
  <2> QED  BY <1>2, <2>1, <2>2
<1>9. \A j, k \in 1..m : o[j] = o[k] => j = k
  <2> SUFFICES ASSUME NEW j \in 1..m, NEW k \in 1..m, o[j] = o[k] PROVE j = k
    OBVIOUS
  <2>1. o[j] \in 1..n /\ o[k] \in 1..n
    BY <1>2
  <2>2. ~(j < k) /\ ~(k < j)
    BY <2>1, <1>2
  <2> QED  BY <2>2
<1> DEFINE ranks == {k \in 1..N : ad[k].target = t}
           kept == {c \in own : \E k \in ranks : o[k] = place[c]}
           rankedChunk == [k \in ranks |-> [contextRank |-> k, rev |-> ad[k].rev, text |-> ad[k].text, digest |-> ad[k].digest]]
           mine == ChunksAnswered(ad, t)
<1>10. IsFiniteSet(own) /\ IsFiniteSet(ranks)
  <2>1. IsFiniteSet(1..N) /\ ranks \in SUBSET (1..N) /\ own \in SUBSET cs /\ IsFiniteSet(cs)
    BY FS_Interval DEF Candidates
  <2> HIDE DEF ranks, own
  <2> QED  BY <2>1, FS_Subset
<1>11. Cardinality(mine) = Cardinality(ranks)
  <2>1. mine = {[contextRank |-> k, rev |-> ad[k].rev, text |-> ad[k].text, digest |-> ad[k].digest] : k \in ranks}
    BY <1>7 DEF ChunksAnswered
  <2>2. (\A k \in ranks : rankedChunk[k] \in mine) /\ \A x \in mine : \E k \in ranks : rankedChunk[k] = x
    BY <2>1
  <2>3. \A j, k \in ranks : rankedChunk[j] = rankedChunk[k] => j = k
    <3>1. \A k \in ranks : rankedChunk[k].contextRank = k
      OBVIOUS
    <3> HIDE DEF rankedChunk, ranks
    <3> QED  BY <3>1
  <2>4. DOMAIN rankedChunk = ranks /\ rankedChunk = [k \in ranks |-> rankedChunk[k]]
    OBVIOUS
  <2> HIDE DEF rankedChunk, ranks, mine
  <2> QED  BY <1>10, <2>2, <2>3, <2>4, ImageCounted
<1>12. Cardinality(kept) = Cardinality(ranks)
  <2> DEFINE of == [k \in ranks |-> CHOOSE c \in own : place[c] = o[k]]
  <2>1. ASSUME NEW k \in ranks PROVE of[k] \in own /\ place[of[k]] = o[k]
    <3>1. o[k] \in 1..n /\ fs[o[k]].target = t
      BY <1>8
    <3>2. \E c \in own : place[c] = o[k]
      BY <3>1, <1>4
    <3> HIDE DEF own
    <3> QED  BY <3>2
  <2>2. DOMAIN of = ranks /\ of = [k \in ranks |-> of[k]]
    OBVIOUS
  <2> HIDE DEF of
  <2>3. \A j, k \in ranks : of[j] = of[k] => j = k
    <3>1. \A k \in ranks : k \in 1..m
      BY <1>8
    <3> HIDE DEF ranks
    <3> QED  BY <3>1, <2>1, <1>9
  <2>4. \A k \in ranks : of[k] \in kept
    BY <2>1
  <2>5. ASSUME NEW c \in kept PROVE \E k \in ranks : of[k] = c
    <3>1. PICK k \in ranks : o[k] = place[c]
      OBVIOUS
    <3>2. c \in own
      OBVIOUS
    <3> HIDE DEF ranks, own, kept
    <3> QED  BY <3>1, <3>2, <2>1, <1>5
  <2> HIDE DEF ranks, kept
  <2> QED  BY <1>10, <2>2, <2>3, <2>4, <2>5, ImageCounted
<1> DEFINE why(c) == IF fs[place[c]].target # t THEN "duplicate_chunk_revision"
                     ELSE IF place[c] \notin first THEN "duplicate_content" ELSE "budget_exhausted"
           gone == own \ kept
           note == [c \in gone |-> [target |-> t, rev |-> c.rev, reason |-> why(c)]]
<1>13. ASSUME NEW c \in gone PROVE note[c] \in left
  <2>1. c \in own /\ c \in cs /\ c.target = t /\ c \notin kept
    OBVIOUS
  <2>2. place[c] \in 1..n /\ fs[place[c]] = FuseRevision(cs, c.rev) /\ fs[place[c]].rev = c.rev
    BY <2>1, <1>3
  <2>3. note[c] = [target |-> t, rev |-> c.rev, reason |-> why(c)]
    OBVIOUS
  <2> HIDE DEF note, gone, own
  <2>4. CASE fs[place[c]].target # t
    <3>1. note[c] = [target |-> c.target, rev |-> c.rev, reason |-> "duplicate_chunk_revision"]
      BY <2>1, <2>3, <2>4
    <3>2. note[c] \in FusedAway(cs)
      BY <2>1, <2>2, <2>4, <3>1 DEF FusedAway
    <3> QED  BY <2>3, <3>2 DEF LeftOut
  <2>5. CASE fs[place[c]].target = t /\ place[c] \notin first
    <3>1. note[c] = [target |-> fs[place[c]].target, rev |-> fs[place[c]].rev, reason |-> "duplicate_content"]
      BY <2>2, <2>3, <2>5
    <3>2. note[c] \in Repeated(fs)
      BY <1>1, <2>2, <2>5, <3>1 DEF Repeated, first
    <3> QED  BY <2>3, <3>2 DEF LeftOut
  <2>6. CASE fs[place[c]].target = t /\ place[c] \in first
    <3>1. PICK k \in 1..m : o[k] = place[c]
      BY <2>6, <1>2
    <3>2. ds[k] = fs[place[c]]
      BY <3>1, <1>2
    <3>3. k \notin 1..N
      <4> SUFFICES ASSUME k \in 1..N PROVE FALSE
        OBVIOUS
      <4>1. k \in ranks
        BY <1>8, <2>6, <3>1
      <4>2. c \in kept
        BY <2>1, <3>1, <4>1
      <4> QED  BY <2>1, <4>2
    <3>4. k \in Len(ad) + 1..Len(ds)
      BY <1>2, <1>7, <3>1, <3>3
    <3>5. note[c] = [target |-> ds[k].target, rev |-> ds[k].rev, reason |-> "budget_exhausted"]
      BY <2>2, <2>3, <2>6, <3>2
    <3>6. note[c] \in Exhausted(ds, ad)
      BY <3>4, <3>5 DEF Exhausted
    <3> QED  BY <2>3, <3>6 DEF LeftOut
  <2> QED  BY <2>4, <2>5, <2>6
<1>14. ASSUME NEW x \in left PROVE \E c \in gone : note[c] = x
  <2>1. x.target = t /\ (x \in FusedAway(cs) \/ x \in Repeated(fs) \/ x \in Exhausted(ds, ad))
    BY DEF LeftOut
  <2>2. \A c \in gone : note[c] = [target |-> t, rev |-> c.rev, reason |-> why(c)]
    OBVIOUS
  <2>3. \A c \in own : (\A k \in ranks : o[k] # place[c]) => c \in gone
    OBVIOUS
  <2> HIDE DEF note
  <2>4. CASE x \in FusedAway(cs)
    <3>1. PICK c \in cs : /\ c.target # FuseRevision(cs, c.rev).target
                          /\ x = [target |-> c.target, rev |-> c.rev, reason |-> "duplicate_chunk_revision"]
      BY <2>4 DEF FusedAway
    <3>2. c.target = t /\ c \in own
      BY <2>1, <3>1
    <3>3. fs[place[c]].target # t
      BY <1>3, <3>1, <3>2
    <3>4. \A k \in ranks : o[k] # place[c]
      BY <1>8, <3>3
    <3>5. c \in gone
      BY <2>3, <3>2, <3>4
    <3> HIDE DEF gone, own
    <3> QED  BY <2>2, <3>1, <3>2, <3>3, <3>5
  <2>5. CASE x \in Repeated(fs)
    <3>1. PICK k \in 1..n : /\ k \notin first
                            /\ x = [target |-> fs[k].target, rev |-> fs[k].rev, reason |-> "duplicate_content"]
      BY <1>1, <2>5 DEF Repeated, first
    <3>2. fs[k].target = t
      BY <2>1, <3>1
    <3>3. PICK c \in own : place[c] = k /\ c.rev = fs[k].rev
      BY <3>2, <1>4
    <3>4. \A j \in ranks : o[j] # place[c]
      <4>1. ASSUME NEW j \in ranks PROVE o[j] \in first
        <5>1. j \in 1..m
          BY <1>8
        <5> QED  BY <5>1, <1>2
      <4> QED  BY <4>1, <3>1, <3>3
    <3>5. c \in gone
      BY <2>3, <3>4
    <3> HIDE DEF gone, own
    <3> QED  BY <2>2, <3>1, <3>2, <3>3, <3>5
  <2>6. CASE x \in Exhausted(ds, ad)
    <3>1. PICK k \in Len(ad) + 1..Len(ds) :
             x = [target |-> ds[k].target, rev |-> ds[k].rev, reason |-> "budget_exhausted"]
      BY <2>6 DEF Exhausted
    <3>2. k \in 1..m /\ k \notin 1..N /\ ds[k] = fs[o[k]] /\ o[k] \in first /\ o[k] \in 1..n
      <4>1. m \in Nat /\ N \in Nat /\ Len(ad) = N /\ Len(ds) = m
        BY <1>2, <1>7
      <4>2. k \in 1..m /\ k \notin 1..N
        BY <4>1, <3>1
      <4>3. ds[k] = fs[o[k]] /\ o[k] \in first
        BY <1>2, <4>2
      <4> QED  BY <1>2, <4>2, <4>3
    <3>3. fs[o[k]].target = t
      BY <2>1, <3>1, <3>2
    <3>4. PICK c \in own : place[c] = o[k] /\ c.rev = fs[o[k]].rev
      BY <3>2, <3>3, <1>4
    <3>5. \A j \in ranks : o[j] # place[c]
      BY <1>8, <1>9, <3>2, <3>4
    <3>6. c \in gone
      BY <2>3, <3>5
    <3> HIDE DEF gone, own
    <3> QED  BY <2>2, <3>1, <3>2, <3>3, <3>4, <3>6
  <2> QED  BY <2>1, <2>4, <2>5, <2>6
<1>15. \A c, d \in gone : note[c] = note[d] => c = d
  <2>1. \A c \in gone : note[c].rev = c.rev /\ c \in own
    OBVIOUS
  <2>2. \A c, d \in own : c.rev = d.rev => c = d
    BY DEF Candidates
  <2> HIDE DEF note, gone, own
  <2> QED  BY <2>1, <2>2
<1>16. kept \in SUBSET own
  OBVIOUS
<1>17. DOMAIN note = gone /\ note = [c \in gone |-> note[c]]
  OBVIOUS
<1> HIDE DEF own, kept, note, left, mine, ranks
<1>18. /\ IsFiniteSet(gone) /\ Cardinality(own) = Cardinality(kept) + Cardinality(gone)
       /\ Cardinality(kept) \in Nat /\ Cardinality(gone) \in Nat
  BY <1>10, <1>16, CardSplit
<1> HIDE DEF gone
<1>19. Cardinality(left) = Cardinality(gone)
  BY <1>13, <1>14, <1>15, <1>17, <1>18, ImageCounted
<1> QED  BY <1>11, <1>12, <1>18, <1>19 DEF mine, left, own

Believed(cs, bad) == {c \in cs : c.target \notin bad}

\* The answer, from its parts.
LEMMA AnswerFrom ==
    ASSUME NEW targets, NEW reads, NEW limit, NEW characters,
           NEW vs, vs = ReadVerdicts(targets, reads, limit),
           NEW cs, cs = CandidatesOf(vs), NEW bad, bad = QuarantinedTargets(cs),
           NEW sound, sound = Believed(cs, bad),
           NEW fs, fs = Fused(sound), NEW ds, ds = Distinct(fs), NEW ad, ad = AppliedBudget(ds, characters),
           NEW an, an = AssembleContext(targets, reads, limit, characters)
    PROVE  /\ DOMAIN an = targets
           /\ \A t \in targets :
                 IF vs[t].kind = "failed" \/ t \in bad
                 THEN an[t].status = "failed" /\ an[t].chunks = {}
                 ELSE /\ an[t].status = "fulfilled"
                      /\ an[t].chunks = ChunksAnswered(ad, t)
                      /\ an[t].omitted = {o \in LeftOut(sound, fs, ds, ad) : o.target = t}
<1> DEFINE Vs == ReadVerdicts(targets, reads, limit)
           Cs == CandidatesOf(Vs)
           Bad == QuarantinedTargets(Cs)
           Sound == Believed(Cs, Bad)
           Fs == Fused(Sound)
           Ds == Distinct(Fs)
           Ad == AppliedBudget(Ds, characters)
           failed(t) == [status |-> "failed",
                         stage |-> IF t \in Bad THEN "assembly" ELSE Vs[t].stage,
                         chunks |-> {}, omitted |-> {}]
           said(t) == [status |-> "fulfilled", stage |-> "none",
                       chunks |-> ChunksAnswered(Ad, t),
                       omitted |-> {o \in LeftOut(Sound, Fs, Ds, Ad) : o.target = t}]
<1>1. an = [t \in targets |-> IF Vs[t].kind = "failed" \/ t \in Bad THEN failed(t) ELSE said(t)]
  BY Zenon DEF AssembleContext, ChunksAnswered, LeftOut, ReadVerdicts, Believed
<1>2. /\ Vs = vs /\ Cs = cs /\ Bad = bad /\ Sound = sound /\ Fs = fs /\ Ds = ds /\ Ad = ad
  OBVIOUS
<1> HIDE DEF Vs, Cs, Bad, Sound, Fs, Ds, Ad
<1>3. DOMAIN an = targets
  BY <1>1
<1>4. ASSUME NEW t \in targets, vs[t].kind = "failed" \/ t \in bad
      PROVE  an[t].status = "failed" /\ an[t].chunks = {}
  <2>1. an[t] = failed(t)
    BY <1>1, <1>2, <1>4, Zenon
  <2> QED  BY <2>1
<1>5. ASSUME NEW t \in targets, ~(vs[t].kind = "failed" \/ t \in bad)
      PROVE  /\ an[t].status = "fulfilled"
             /\ an[t].chunks = ChunksAnswered(ad, t)
             /\ an[t].omitted = {o \in LeftOut(sound, fs, ds, ad) : o.target = t}
  <2>1. an[t] = said(t)
    <3>1. ~(Vs[t].kind = "failed" \/ t \in Bad)
      BY ONLY <1>2, <1>5
    <3> HIDE DEF said, failed
    <3> QED  BY ONLY <1>1, <1>5, <3>1
  <2>2. said(t).status = "fulfilled" /\ said(t).chunks = ChunksAnswered(Ad, t)
        /\ said(t).omitted = {o \in LeftOut(Sound, Fs, Ds, Ad) : o.target = t}
    BY Zenon
  <2> HIDE DEF said
  <2> QED  BY <1>2, <2>1, <2>2, Zenon
<1> QED  BY <1>3, <1>4, <1>5

\* What is left of the candidates once conflicts are put aside.
LEMMA SoundCandidates ==
    ASSUME NEW targets, NEW reads, ReadsFor(reads, targets), NEW limit,
           NEW vs, vs = ReadVerdicts(targets, reads, limit),
           NEW cs, cs = CandidatesOf(vs), NEW bad, bad = QuarantinedTargets(cs),
           NEW sound, sound = Believed(cs, bad)
    PROVE  /\ Candidates(sound)
           /\ \A c \in sound : c.target \in targets /\ vs[c.target].kind # "failed" /\ c.target \notin bad
<1>1. Candidates(cs) /\ \A c \in cs : c.target \in targets /\ vs[c.target].kind = "fulfilled"
  BY CandidatesAre
<1>2. sound \subseteq cs /\ \A c \in sound : c.target \notin bad
  BY DEF Believed
<1>3. IsFiniteSet(sound)
  BY <1>1, <1>2, FS_Subset DEF Candidates
<1> QED  BY <1>1, <1>2, <1>3 DEF Candidates

\* The chunks the budget admits: each of a believed target, no revision and no
\* content twice, within both limits.
LEMMA AdmittedChunks ==
    ASSUME NEW sound, Candidates(sound), NEW characters, characters \in Nat,
           NEW fs, fs = Fused(sound), NEW ds, ds = Distinct(fs), NEW ad, ad = AppliedBudget(ds, characters)
    PROVE  \E N \in Nat :
              /\ DOMAIN ad = 1..N /\ N <= MaxChunks /\ Affordable(ad, characters)
              /\ \A k \in 1..N : /\ ad[k].text \in DOMAIN TextLength
                                 /\ \E c \in sound : ad[k].target = c.target
              /\ \A j, k \in 1..N : ad[j].rev = ad[k].rev \/ ad[j].digest = ad[k].digest => j = k
<1> DEFINE n == Cardinality(FusedSet(sound))
           first == FirstPlaces(fs)
           m == Cardinality(first)
           o == Increasing(first)
<1>1. /\ n \in Nat /\ DOMAIN fs = 1..n
      /\ \A k \in 1..n : \E c \in sound : fs[k] = FuseRevision(sound, c.rev)
      /\ \A j, k \in 1..n : fs[j].rev = fs[k].rev => j = k
  BY FusedLists
<1> HIDE DEF n
<1>2. /\ m \in Nat /\ o \in [1..m -> first] /\ first \subseteq 1..n
      /\ \A j, k \in 1..m : j < k => o[j] < o[k]
      /\ DOMAIN ds = 1..m /\ Len(ds) = m /\ ds = [k \in 1..m |-> fs[o[k]]]
      /\ \A j, k \in 1..m : ds[j].digest = ds[k].digest => j = k
  <2>1. n \in Nat /\ DOMAIN fs = 1..n
    BY <1>1
  <2>2. first = FirstPlaces(fs) /\ m = Cardinality(first) /\ o = Increasing(first)
    OBVIOUS
  <2> HIDE DEF first, m, o
  <2> QED  BY <2>1, <2>2, DistinctLists
<1> HIDE DEF first, m, o
<1>3. ASSUME NEW k \in 1..m
      PROVE  /\ ds[k] = fs[o[k]] /\ o[k] \in 1..n /\ ds[k].text \in DOMAIN TextLength
             /\ \E c \in sound : ds[k].target = c.target
  <2>1. ds[k] = fs[o[k]] /\ o[k] \in 1..n
    BY <1>2
  <2>2. PICK d \in sound : fs[o[k]] = FuseRevision(sound, d.rev)
    BY <1>1, <2>1
  <2>3. PICK c \in sound : FuseRevision(sound, d.rev).target = c.target /\ FuseRevision(sound, d.rev).text = c.text
    BY FusionIs
  <2>4. c.text \in DOMAIN TextLength
    BY DEF Candidates
  <2> QED  BY <2>1, <2>2, <2>3, <2>4
<1>4. ASSUME NEW j \in 1..m, NEW k \in 1..m, ds[j].rev = ds[k].rev PROVE j = k
  <2>1. o[j] = o[k] /\ o[j] \in 1..n
    BY <1>1, <1>3, <1>4
  <2>2. ~(j < k) /\ ~(k < j)
    BY <2>1, <1>2
  <2> QED  BY <2>2
<1>5. PICK N \in 0..m : /\ DOMAIN ad = 1..N /\ \A k \in 1..N : ad[k] = ds[k]
                        /\ N <= MaxChunks /\ Affordable(ad, characters)
  <2>1. m \in Nat /\ DOMAIN ds = 1..m /\ Len(ds) = m /\ \A k \in 1..m : ds[k].text \in DOMAIN TextLength
    BY <1>2, <1>3
  <2>2. \E N \in 0..m : /\ DOMAIN ad = 1..N /\ Len(ad) = N /\ \A k \in 1..N : ad[k] = ds[k]
                        /\ N <= MaxChunks /\ Affordable(ad, characters)
    BY <2>1, BudgetFits
  <2> QED  BY <2>2, Zenon
<1>6. N \in Nat /\ \A k \in 1..N : k \in 1..m /\ ad[k] = ds[k]
  BY <1>2, <1>5
<1>7. ASSUME NEW j \in 1..N, NEW k \in 1..N, ad[j].rev = ad[k].rev \/ ad[j].digest = ad[k].digest PROVE j = k
  BY <1>2, <1>4, <1>6, <1>7
<1>8. ASSUME NEW k \in 1..N PROVE ad[k].text \in DOMAIN TextLength /\ \E c \in sound : ad[k].target = c.target
  BY <1>3, <1>6
<1> QED  BY <1>5, <1>6, <1>7, <1>8

\* AnswerIsOneContext, of any answer and the reads it is made from.
OneContext(an, reads, characters) ==
    LET all == UNION {an[t].chunks : t \in DOMAIN an}
    IN /\ \A c, d \in all : c.rev = d.rev \/ c.digest = d.digest \/ c.contextRank = d.contextRank => c = d
       /\ {c.contextRank : c \in all} = 1..Cardinality(all)
       /\ Cardinality(all) <= MaxChunks
       /\ SumFunction([c \in all |-> TextLength[c.text]]) <= characters
       /\ \A k \in DOMAIN reads :
             LET item == an[reads[k].target]
             IN item.status = "fulfilled" =>
                   Cardinality(item.chunks) + Cardinality(item.omitted) = Len(reads[k].chunks)
       /\ \A t \in DOMAIN an : an[t].status = "fulfilled" => \A u \in DOMAIN an :
             an[u].status = "fulfilled" =>
                \A j, k \in DOMAIN reads :
                   reads[j].target = t /\ reads[k].target = u =>
                      \A a \in ToSet(reads[j].chunks), b \in ToSet(reads[k].chunks) :
                         a.digest = b.digest => a.text = b.text

\* Two believed targets agree on the text of a digest.
LEMMA BelievedAgree ==
    ASSUME NEW targets, NEW reads, ReadsFor(reads, targets), NEW limit,
           NEW vs, vs = ReadVerdicts(targets, reads, limit),
           NEW cs, cs = CandidatesOf(vs), NEW bad, bad = QuarantinedTargets(cs),
           NEW j \in DOMAIN reads, NEW k \in DOMAIN reads,
           vs[reads[j].target].kind # "failed", vs[reads[k].target].kind # "failed",
           reads[j].target \notin bad,
           NEW x \in DOMAIN reads[j].chunks, NEW y \in DOMAIN reads[k].chunks,
           reads[j].chunks[x].digest = reads[k].chunks[y].digest
    PROVE  reads[j].chunks[x].text = reads[k].chunks[y].text
<1> DEFINE a == Candidate(reads[j].target, reads[j].chunks[x])
           b == Candidate(reads[k].target, reads[k].chunks[y])
<1>1. a \in cs /\ b \in cs
  BY CandidatesAre
<1>2. /\ a.target = reads[j].target /\ a.text = reads[j].chunks[x].text /\ a.digest = reads[j].chunks[x].digest
      /\ b.text = reads[k].chunks[y].text /\ b.digest = reads[k].chunks[y].digest
  BY DEF Candidate
<1>3. a.target \notin FindConflictingTargets(cs)
  BY <1>2 DEF QuarantinedTargets
<1> HIDE DEF a, b
<1> SUFFICES ASSUME a.text # b.text PROVE FALSE
  BY <1>2
<1>4. b.digest = a.digest /\ ~SameContent(a, b)
  BY <1>2 DEF SameContent
<1>5. a.target \in FindConflictingTargets(cs)
  BY <1>1, <1>4 DEF FindConflictingTargets
<1> QED  BY <1>3, <1>5

\* Every chunk of a believed read is in the answer or in what it leaves out.
LEMMA ReadAccounted ==
    ASSUME NEW targets, NEW reads, ReadsFor(reads, targets), NEW limit, NEW characters, characters \in Nat,
           NEW vs, vs = ReadVerdicts(targets, reads, limit),
           NEW cs, cs = CandidatesOf(vs), NEW bad, bad = QuarantinedTargets(cs),
           NEW sound, sound = Believed(cs, bad),
           NEW fs, fs = Fused(sound), NEW ds, ds = Distinct(fs), NEW ad, ad = AppliedBudget(ds, characters),
           NEW k \in DOMAIN reads, vs[reads[k].target].kind # "failed", reads[k].target \notin bad
    PROVE  Cardinality(ChunksAnswered(ad, reads[k].target))
             + Cardinality({o \in LeftOut(sound, fs, ds, ad) : o.target = reads[k].target})
             = Len(reads[k].chunks)
<1> DEFINE t == reads[k].target
           chunks == reads[k].chunks
           D == DOMAIN chunks
           own == {c \in sound : c.target = t}
           f == [j \in D |-> Candidate(t, chunks[j])]
<1>1. /\ \A j \in D : Candidate(t, chunks[j]) \in cs
      /\ \A c \in cs : c.target = t => \E j \in D : c = Candidate(t, chunks[j])
      /\ \A i, j \in D : chunks[i].rev = chunks[j].rev => i = j
  BY CandidatesAre
<1>2. Len(chunks) \in Nat /\ D = 1..Len(chunks)
  BY DEF ReadsFor, ChunksRead
<1>3. \A j \in D : f[j] \in own
  BY <1>1 DEF Candidate, Believed
<1>4. \A c \in own : \E j \in D : f[j] = c
  BY <1>1 DEF Believed
<1>5. \A i, j \in D : f[i] = f[j] => i = j
  <2>1. \A j \in D : f[j].rev = chunks[j].rev
    BY DEF Candidate
  <2> HIDE DEF f, D, chunks
  <2> QED  BY <2>1, <1>1
<1>6. IsFiniteSet(D) /\ Cardinality(D) = Len(chunks)
  <2> HIDE DEF D, chunks
  <2>1. ASSUME NEW n \in Nat PROVE IsFiniteSet(1..n) /\ Cardinality(1..n) = n
    BY FS_Interval
  <2> QED  BY <1>2, <2>1
<1>7. DOMAIN f = D /\ f = [j \in D |-> f[j]]
  OBVIOUS
<1> HIDE DEF own, f
<1>8. Cardinality(own) = Len(chunks)
  <2> HIDE DEF D, chunks
  <2> QED  BY <1>3, <1>4, <1>5, <1>6, <1>7, ImageCounted
<1>9. Candidates(sound)
  BY SoundCandidates
<1>10. Cardinality(ChunksAnswered(ad, t)) + Cardinality({o \in LeftOut(sound, fs, ds, ad) : o.target = t})
         = Cardinality({c \in sound : c.target = t})
  BY <1>9, Accounted
<1> QED  BY <1>8, <1>10 DEF own

LEMMA AssembledIsOne ==
    ASSUME NEW targets, NEW reads, ReadsFor(reads, targets), NEW limit, NEW characters, characters \in Nat,
           NEW an, an = AssembleContext(targets, reads, limit, characters)
    PROVE  OneContext(an, reads, characters)
<1> DEFINE vs == ReadVerdicts(targets, reads, limit)
           cs == CandidatesOf(vs)
           bad == QuarantinedTargets(cs)
           sound == Believed(cs, bad)
           fs == Fused(sound)
           ds == Distinct(fs)
           ad == AppliedBudget(ds, characters)
           all == UNION {an[t].chunks : t \in DOMAIN an}
           believed(t) == vs[t].kind # "failed" /\ t \notin bad
<1>0. /\ vs = ReadVerdicts(targets, reads, limit) /\ cs = CandidatesOf(vs) /\ bad = QuarantinedTargets(cs)
      /\ sound = Believed(cs, bad)
      /\ fs = Fused(sound) /\ ds = Distinct(fs) /\ ad = AppliedBudget(ds, characters)
  OBVIOUS
<1> HIDE DEF vs, cs, bad, sound, fs, ds, ad
<1>1. /\ DOMAIN an = targets
      /\ \A t \in targets :
            IF vs[t].kind = "failed" \/ t \in bad
            THEN an[t].status = "failed" /\ an[t].chunks = {}
            ELSE /\ an[t].status = "fulfilled"
                 /\ an[t].chunks = ChunksAnswered(ad, t)
                 /\ an[t].omitted = {o \in LeftOut(sound, fs, ds, ad) : o.target = t}
  BY <1>0, AnswerFrom
<1>2. /\ Candidates(sound)
      /\ \A c \in sound : c.target \in targets /\ believed(c.target)
  <2>1. /\ Candidates(sound)
        /\ \A c \in sound : c.target \in targets /\ vs[c.target].kind # "failed" /\ c.target \notin bad
    BY <1>0, SoundCandidates
  <2> QED  BY <2>1
<1>3. PICK N \in Nat :
              /\ DOMAIN ad = 1..N /\ N <= MaxChunks /\ Affordable(ad, characters)
              /\ \A k \in 1..N : /\ ad[k].text \in DOMAIN TextLength
                                 /\ \E c \in sound : ad[k].target = c.target
              /\ \A j, k \in 1..N : ad[j].rev = ad[k].rev \/ ad[j].digest = ad[k].digest => j = k
  BY <1>0, <1>2, AdmittedChunks
<1>4. \A t \in targets : /\ believed(t) => /\ an[t].status = "fulfilled"
                                           /\ an[t].chunks = ChunksAnswered(ad, t)
                                           /\ an[t].omitted = {o \in LeftOut(sound, fs, ds, ad) : o.target = t}
                         /\ ~believed(t) => an[t].status # "fulfilled" /\ an[t].chunks = {}
  <2> QED  BY <1>1
<1>5. ASSUME NEW k \in DOMAIN reads, believed(reads[k].target)
      PROVE  Cardinality(ChunksAnswered(ad, reads[k].target))
               + Cardinality({o \in LeftOut(sound, fs, ds, ad) : o.target = reads[k].target})
               = Len(reads[k].chunks)
  <2>1. vs[reads[k].target].kind # "failed" /\ reads[k].target \notin bad
    BY <1>5
  <2> QED  BY <1>0, <2>1, ReadAccounted
<1>6. ASSUME NEW j \in DOMAIN reads, NEW k \in DOMAIN reads,
             believed(reads[j].target), believed(reads[k].target),
             NEW x \in DOMAIN reads[j].chunks, NEW y \in DOMAIN reads[k].chunks,
             reads[j].chunks[x].digest = reads[k].chunks[y].digest
      PROVE  reads[j].chunks[x].text = reads[k].chunks[y].text
  <2>1. /\ vs[reads[j].target].kind # "failed" /\ vs[reads[k].target].kind # "failed"
        /\ reads[j].target \notin bad
    BY <1>6
  <2> QED  BY <1>0, <1>6, <2>1, BelievedAgree
<1> HIDE DEF believed
<1> DEFINE rec == [k \in 1..N |-> [contextRank |-> k, rev |-> ad[k].rev, text |-> ad[k].text, digest |-> ad[k].digest]]
<1>7. \A k \in 1..N : /\ rec[k].contextRank = k /\ rec[k].rev = ad[k].rev
                      /\ rec[k].text = ad[k].text /\ rec[k].digest = ad[k].digest
  OBVIOUS
<1>8. ASSUME NEW t PROVE ChunksAnswered(ad, t) = {rec[k] : k \in {n \in 1..N : ad[n].target = t}}
  BY <1>3 DEF ChunksAnswered
<1>9. DOMAIN rec = 1..N /\ rec = [k \in 1..N |-> rec[k]]
  OBVIOUS
<1> HIDE DEF rec
<1>10. ASSUME NEW k \in 1..N PROVE rec[k] \in all
  <2>1. ad[k].target \in targets /\ believed(ad[k].target)
    BY <1>2, <1>3
  <2>2. rec[k] \in ChunksAnswered(ad, ad[k].target)
    BY <1>8
  <2>3. rec[k] \in an[ad[k].target].chunks
    BY <1>4, <2>1, <2>2
  <2> QED  BY <1>1, <2>1, <2>3
<1>11. ASSUME NEW x \in all PROVE \E k \in 1..N : rec[k] = x
  <2>1. PICK t \in targets : x \in an[t].chunks
    BY <1>1
  <2>2. x \in ChunksAnswered(ad, t)
    BY <1>4, <2>1
  <2> QED  BY <1>8, <2>2
<1>12. \A j, k \in 1..N : rec[j] = rec[k] => j = k
  BY <1>7
<1> HIDE DEF all
<1>13. IsFiniteSet(all) /\ Cardinality(all) = N
  <2>1. IsFiniteSet(1..N) /\ Cardinality(1..N) = N
    BY FS_Interval
  <2> QED  BY <1>9, <1>10, <1>11, <1>12, <2>1, ImageCounted
<1>14. ASSUME NEW c \in all, NEW d \in all, c.rev = d.rev \/ c.digest = d.digest \/ c.contextRank = d.contextRank
       PROVE  c = d
  <2>1. PICK j \in 1..N : rec[j] = c
    BY <1>11
  <2>2. PICK k \in 1..N : rec[k] = d
    BY <1>11
  <2>3. j = k
    BY <1>3, <1>7, <1>14, <2>1, <2>2
  <2> QED  BY <2>1, <2>2, <2>3
<1>15. {c.contextRank : c \in all} = 1..Cardinality(all)
  <2>1. \A c \in all : c.contextRank \in 1..N
    BY <1>7, <1>11
  <2>2. \A k \in 1..N : \E c \in all : c.contextRank = k
    BY <1>7, <1>10
  <2> QED  BY <1>13, <2>1, <2>2
<1>16. SumFunction([c \in all |-> TextLength[c.text]]) <= characters
  <2> DEFINE f == [k \in 1..N |-> TextLength[ad[k].text]]
             g == [c \in all |-> TextLength[c.text]]
  <2>1. rec \in Bijection(1..N, all)
    <3>1. rec \in [1..N -> all]
      BY <1>9, <1>10
    <3> QED  BY <3>1, <1>11, <1>12 DEF Bijection, Injection, Surjection, IsInjective
  <2>2. \A k \in 1..N : f[k] \in Nat
    BY <1>3, AssemblyAssumption
  <2>3. \A k \in 1..N : g[rec[k]] = f[k]
    BY <1>7, <1>10
  <2>4. CharactersOf(ad) = SumFunctionOnSet(f, 1..N)
    <3>1. CharactersOf(ad) = SumFunction([k \in DOMAIN ad |-> TextLength[ad[k].text]])
      BY DEF CharactersOf
    <3>2. CharactersOf(ad) = SumFunction(f)
      BY <3>1, <1>3
    <3> QED  BY <3>2 DEF SumFunction
  <2>5. SumFunction(g) = SumFunctionOnSet(g, all)
    BY DEF SumFunction
  <2> HIDE DEF f, g
  <2>6. SumFunctionOnSet(g, all) = SumFunctionOnSet(f, 1..N)
    <3>1. IsFiniteSet(1..N)
      BY FS_Interval
    <3> QED  BY <3>1, <2>1, <2>2, <2>3, SumReindexed
  <2>7. CharactersOf(ad) <= characters
    BY <1>3 DEF Affordable
  <2>8. SumFunction(g) <= characters
    BY <2>4, <2>5, <2>6, <2>7
  <2> QED  BY <2>8 DEF g
<1>17. ASSUME NEW k \in DOMAIN reads, an[reads[k].target].status = "fulfilled"
       PROVE  Cardinality(an[reads[k].target].chunks) + Cardinality(an[reads[k].target].omitted) = Len(reads[k].chunks)
  <2>1. reads[k].target \in targets
    BY DEF ReadsFor, ReadsIndexable
  <2>2. believed(reads[k].target)
    BY <1>4, <1>17, <2>1
  <2> QED  BY <1>4, <1>5, <2>1, <2>2
<1>18. ASSUME NEW j \in DOMAIN reads, NEW k \in DOMAIN reads,
              an[reads[j].target].status = "fulfilled", an[reads[k].target].status = "fulfilled",
              NEW a \in ToSet(reads[j].chunks), NEW b \in ToSet(reads[k].chunks), a.digest = b.digest
       PROVE  a.text = b.text
  <2>1. reads[j].target \in targets /\ reads[k].target \in targets
    BY DEF ReadsFor, ReadsIndexable
  <2>2. believed(reads[j].target) /\ believed(reads[k].target)
    BY <1>4, <1>18, <2>1
  <2>3. PICK x \in DOMAIN reads[j].chunks : a = reads[j].chunks[x]
    BY DEF ToSet
  <2>4. PICK y \in DOMAIN reads[k].chunks : b = reads[k].chunks[y]
    BY DEF ToSet
  <2> QED  BY <1>6, <1>18, <2>2, <2>3, <2>4
<1>19. Cardinality(all) <= MaxChunks
  BY <1>3, <1>13
<1>20. \A t \in DOMAIN an : an[t].status = "fulfilled" => \A u \in DOMAIN an :
          an[u].status = "fulfilled" =>
             \A j, k \in DOMAIN reads :
                reads[j].target = t /\ reads[k].target = u =>
                   \A a \in ToSet(reads[j].chunks), b \in ToSet(reads[k].chunks) :
                      a.digest = b.digest => a.text = b.text
  BY <1>18
<1>21. \A c, d \in all : c.rev = d.rev \/ c.digest = d.digest \/ c.contextRank = d.contextRank => c = d
  BY <1>14
<1>22. \A k \in DOMAIN reads :
          an[reads[k].target].status = "fulfilled" =>
             Cardinality(an[reads[k].target].chunks) + Cardinality(an[reads[k].target].omitted) = Len(reads[k].chunks)
  BY <1>17
<1> QED  BY <1>15, <1>16, <1>19, <1>20, <1>21, <1>22, Zenon DEF OneContext, all

-----------------------------------------------------------------------------
(* From the plan to the answer.                                            *)

\* What a read may bring is what the assembly expects of it.
LEMMA ReadsBring ==
    ASSUME NEW targets, IsFiniteSet(targets), targets \subseteq Nat,
           NEW reads \in ReadSets(targets), NEW dropped \in {0, 1}, dropped <= Len(reads),
           NEW given, given = SubSeq(reads, 1, Len(reads) - dropped), ReadsIndexable(given, targets)
    PROVE  ReadsFor(given, targets)
<1> DEFINE order == Increasing(targets)
           n == Cardinality(targets)
           R == {p \in targets \X targets : p[1] < p[2]}
<1>1. StrictOrder(targets, R)
  <2>1. \A x, y \in targets : <<x, y>> \in R <=> x < y
    OBVIOUS
  <2> HIDE DEF R
  <2> QED  BY <2>1 DEF StrictOrder
<1>2. n \in Nat /\ order \in [1..n -> targets]
  <2>1. order = Ordered(targets, R)
    BY DEF Increasing
  <2> HIDE DEF order, R
  <2> QED  BY <1>1, <2>1, OrderedLists
<1> HIDE DEF n
<1>3. PICK r \in [DOMAIN order -> Reads] :
         reads = [i \in DOMAIN order |-> [target |-> order[i], status |-> r[i].status, chunks |-> r[i].chunks]]
  BY DEF ReadSets
<1> HIDE DEF order
<1>4. DOMAIN reads = 1..n /\ \A i \in 1..n : reads[i].chunks = r[i].chunks /\ r[i] \in Reads
  BY <1>2, <1>3
<1>5. Len(reads) = n
  <2>1. reads = [i \in 1..n |-> reads[i]]
    BY <1>3, <1>4
  <2>2. reads \in Seq({reads[i] : i \in 1..n})
    BY <1>2, <2>1
  <2> QED  BY <1>2, <1>4, <2>2
<1>6. given = [k \in 1..n - dropped |-> reads[k]] /\ n - dropped \in 0..n
  <2>1. n - dropped \in 0..n
    BY <1>2, <1>5
  <2>2. given = [k \in 1..(n - dropped) - 1 + 1 |-> reads[k + 1 - 1]]
    BY <1>5 DEF SubSeq
  <2>3. \A k \in 1..n - dropped : k + 1 - 1 = k
    BY <2>1
  <2> QED  BY <2>1, <2>2, <2>3
<1>7. ASSUME NEW k \in DOMAIN given PROVE ChunksRead(given[k].chunks)
  <2>1. k \in 1..n /\ given[k] = reads[k]
    BY <1>2, <1>6
  <2>2. given[k].chunks = r[k].chunks /\ r[k] \in Reads
    BY <1>4, <2>1
  <2> QED  BY <2>2, ReadsAssumption DEF ChunksRead
<1> QED  BY <1>7 DEF ReadsFor

\* The targets are finite in number and numbered, and the answer is one context.
AnsweringInv ==
    /\ selPhase = "reading" => IsFiniteSet(plan.targets) /\ \A t \in plan.targets : t.ref \in Nat
    /\ selPhase = "handed" => IsFiniteSet(plan.targets) /\ plan.targets \subseteq Nat
    /\ selPhase = "answered" => OneContext(answer, plan.reads, plan.characters)

LEMMA PlanReadable ==
    ASSUME ListedInv, JudgedInv, PlanningInv, FinishPlan, selPhase' = "reading"
    PROVE  IsFiniteSet(plan'.targets) /\ \A t \in plan'.targets : t.ref \in Nat
<1> DEFINE S == ScopesOf(selected, cards)
           T == PlanTargets(S)
           read == [s \in Managed(S) |-> [ref |-> s.ref, limit |-> ChunkLimit]]
<1>1. plan'.targets = T
  <2>1. plan' = PlanOf
    BY DEF FinishPlan
  <2>2. PlanOf.targets = PlanTargets(DOMAIN PlanItems(selected, cards))
    BY DEF PlanOf
  <2>3. DOMAIN PlanItems(selected, cards) = S
    BY DEF PlanItems
  <2> QED  BY <2>1, <2>2, <2>3
<1>2. selected \subseteq Strong /\ Plannable(selected, cards)
  <2>1. selected \subseteq Strong /\ Plannable(Strong, cards)
    BY DEF PlanningInv
  <2> QED  BY <2>1, FewerPlannable
<1>3. IsFiniteSet(Managed(S))
  <2>1. Managed(S) \subseteq S
    BY DEF Managed
  <2> QED  BY <1>2, <2>1, PlanScopesFinite, FS_Subset
<1>4. T = {[ref |-> s.ref, limit |-> ChunkLimit] : s \in Managed(S)}
  BY DEF PlanTargets
<1>5. IsFiniteSet(T)
  <2>1. read \in Surjection(Managed(S), T)
    BY <1>4 DEF Surjection
  <2> QED  BY <1>3, <2>1, FS_Surjection
<1>6. \A s \in S : s.ref \in Nat
  <2>1. cards \in Catalogs /\ \A i \in selected : i \in DOMAIN cards
    BY <1>2, StrongAdmitted DEF ListedInv
  <2>2. \A s \in S : \E i \in selected : s \in cards[i].scopes
    BY DEF ScopesOf
  <2> QED  BY <2>1, <2>2, CatalogAssumption
<1>7. \A t \in T : t.ref \in Nat
  BY <1>4, <1>6 DEF Managed
<1> QED  BY <1>1, <1>5, <1>7

LEMMA HandedReadable ==
    ASSUME HandOver, IsFiniteSet(plan.targets), \A t \in plan.targets : t.ref \in Nat
    PROVE  IsFiniteSet(plan'.targets) /\ plan'.targets \subseteq Nat
<1> DEFINE T == {t.ref : t \in plan.targets}
           f == [t \in plan.targets |-> t.ref]
<1>1. plan'.targets = T
  BY DEF HandOver
<1>2. f \in Surjection(plan.targets, T)
  BY DEF Surjection
<1>3. IsFiniteSet(T)
  BY <1>2, FS_Surjection
<1> QED  BY <1>1, <1>3

LEMMA AnswerHolds ==
    ASSUME Assemble, IsFiniteSet(plan.targets), plan.targets \subseteq Nat
    PROVE  OneContext(answer', plan'.reads, plan'.characters)
<1>1. PICK reads \in ReadSets(plan.targets), dropped \in {0, 1}, requested \in {1, MaxCharacters} :
         LET given == SubSeq(reads, 1, Len(reads) - dropped)
         IN /\ dropped <= Len(reads)
            /\ ReadsIndexable(given, plan.targets)
            /\ plan' = [targets |-> plan.targets, reads |-> given, characters |-> requested]
            /\ answer' = AssembleContext(plan.targets, given, ChunkLimit, requested)
  BY DEF Assemble
<1> DEFINE given == SubSeq(reads, 1, Len(reads) - dropped)
<1>2. /\ dropped <= Len(reads)
      /\ ReadsIndexable(given, plan.targets)
      /\ plan' = [targets |-> plan.targets, reads |-> given, characters |-> requested]
      /\ answer' = AssembleContext(plan.targets, given, ChunkLimit, requested)
  BY <1>1
<1>3. given = SubSeq(reads, 1, Len(reads) - dropped)
  OBVIOUS
<1> HIDE DEF given
<1>4. ReadsFor(given, plan.targets)
  BY <1>2, <1>3, ReadsBring
<1>5. requested \in Nat
  BY AssemblyAssumption
<1>6. OneContext(answer', given, requested)
  BY <1>2, <1>4, <1>5, AssembledIsOne
<1> QED  BY <1>2, <1>6

(* The answer is one context, however many reads it came from: no revision  *)
(* and no content twice, ranks without gaps, nothing beyond the budget, and *)
(* every chunk of a believed read in it or accounted for.                   *)
THEOREM AnswerIsWhole == SelSpec => []AnswerIsOneContext
<1>1. SelInit => AnsweringInv
  BY DEF SelInit, AnsweringInv
<1>2. SelectionInv /\ AnsweringInv /\ [SelNext]_selVars => AnsweringInv'
  <2> SUFFICES ASSUME SelectionInv, AnsweringInv, [SelNext]_selVars PROVE AnsweringInv'
    OBVIOUS
  <2>1. CASE FinishPlan
    <3>1. selPhase = "planning" /\ selPhase' \in {"refused", "reading", "broken"}
      BY <2>1 DEF FinishPlan
    <3>2. ListedInv /\ JudgedInv /\ PlanningInv
      BY <3>1 DEF SelectionInv
    <3>3. selPhase' = "reading" => IsFiniteSet(plan'.targets) /\ \A t \in plan'.targets : t.ref \in Nat
      BY <2>1, <3>2, PlanReadable
    <3> QED  BY <3>1, <3>3 DEF AnsweringInv
  <2>2. CASE HandOver
    <3>1. selPhase = "reading" /\ selPhase' = "handed"
      BY <2>2 DEF HandOver
    <3>2. IsFiniteSet(plan'.targets) /\ plan'.targets \subseteq Nat
      BY <2>2, <3>1, HandedReadable DEF AnsweringInv
    <3> QED  BY <3>1, <3>2 DEF AnsweringInv
  <2>3. CASE Assemble
    <3>1. selPhase = "handed" /\ selPhase' = "answered"
      BY <2>3 DEF Assemble
    <3>2. OneContext(answer', plan'.reads, plan'.characters)
      BY <2>3, <3>1, AnswerHolds DEF AnsweringInv
    <3> QED  BY <3>1, <3>2 DEF AnsweringInv
  <2>4. CASE \/ RefuseEmpty \/ ListCards \/ ScoreLexically \/ ScoreDegraded \/ ScoreRefused \/ ScoreHybrid
             \/ BeginSetPlan \/ RemoveCard
    <3>1. selPhase' \notin {"reading", "handed", "answered"}
      BY <2>4 DEF RefuseEmpty, ListCards, ScoreLexically, ScoreDegraded, ScoreRefused, ScoreHybrid,
                  BeginSetPlan, RemoveCard, Judge, Fail
    <3> QED  BY <3>1 DEF AnsweringInv
  <2>5. CASE UNCHANGED selVars
    BY <2>5 DEF selVars, AnsweringInv
  <2> QED  BY <2>1, <2>2, <2>3, <2>4, <2>5 DEF SelNext
<1>3. AnsweringInv => AnswerIsOneContext
  <2> SUFFICES ASSUME selPhase = "answered", OneContext(answer, plan.reads, plan.characters)
               PROVE  AnswerIsOneContext
    BY DEF AnsweringInv, AnswerIsOneContext
  <2> QED  BY Zenon DEF AnswerIsOneContext, OneContext, AnsweredChunks, Returned
<1> QED  BY <1>1, <1>2, <1>3, SelectionInvariant, PTL DEF SelSpec

=============================================================================
