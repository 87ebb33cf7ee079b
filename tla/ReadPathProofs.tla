--------------------------- MODULE ReadPathProofs ---------------------------
(***************************************************************************)
(* Theorems of ReadPath: whatever is committed between the statements of a *)
(* request, its answer is of one book, with honest lineage, complete risk  *)
(* and shocks that move marks only; for any symbols, prices and batches.   *)
(***************************************************************************)
EXTENDS ReadPath, FiniteSetTheorems, SequenceTheorems, WellFoundedInduction, TLAPS

-----------------------------------------------------------------------------
(* Naturals.                                                               *)

\* A set of naturals that is not empty has a least element.
LEMMA LeastNatural ==
  ASSUME NEW T, T \subseteq Nat, T # {}
  PROVE  \E x \in T : \A y \in T : x <= y
<1>1. \E x \in T : \A y \in T : ~ (<<y, x>> \in OpToRel(<, Nat))
  BY NatLessThanWellFounded, WFMin
<1>2. \A x, y \in T : x <= y \/ <<y, x>> \in OpToRel(<, Nat)
  <2>1. \A x, y \in T : <<y, x>> \in Nat \X Nat /\ (x <= y \/ y < x)
    OBVIOUS
  <2> QED
    BY <2>1 DEF OpToRel
<1> QED
  BY <1>1, <1>2

\* Induction up to a bound, for a set instead of a predicate.
LEMMA UpTo ==
  ASSUME NEW h \in Nat, NEW T, 0 \in T,
         \A n \in 0..h : n \in T /\ n < h => n + 1 \in T
  PROVE  \A n \in 0..h : n \in T
<1> DEFINE S == {n \in 0..h : n \notin T}
<1> SUFFICES ASSUME S # {} PROVE FALSE
  OBVIOUS
<1>1. PICK n \in S : \A m \in S : n <= m
  <2>1. S \subseteq Nat
    OBVIOUS
  <2> HIDE DEF S
  <2> QED
    BY <2>1, LeastNatural
<1>2. n \in 0..h /\ n # 0 /\ n \notin T
  BY <1>1
<1>3. n - 1 \in 0..h /\ n - 1 < h /\ ~(n <= n - 1) /\ (n - 1) + 1 = n
  BY <1>2
<1>4. n - 1 \in T
  BY <1>1, <1>3
<1> QED
  BY <1>2, <1>3, <1>4

\* A finite set of naturals that is not empty has a greatest element.
LEMMA MaxOfNaturals ==
  ASSUME NEW S, S \subseteq Nat, S # {}, IsFiniteSet(S)
  PROVE  Max(S) \in S /\ \A y \in S : Max(S) >= y
<1>1. PICK f \in [1..Cardinality(S) -> S] : \A y \in S : \E i \in 1..Cardinality(S) : f[i] = y
  BY FS_CardinalityType DEF ExistsBijection, Bijection, Surjection
<1> PICK c : c = Cardinality(S)
  OBVIOUS
<1>2. c \in Nat
  BY FS_CardinalityType
<1> DEFINE T == {n \in 0..c : n = 0 \/ \E x \in S : \A i \in 1..n : f[i] <= x}
<1>3. \A n \in 0..c : n \in T
  <2>1. 0 \in T
    BY <1>2
  <2>2. ASSUME NEW n \in 0..c, n \in T, n < c PROVE n + 1 \in T
    <3>1. n + 1 \in 1..c /\ f[n + 1] \in S
      BY <1>1, <1>2, <2>2
    <3>2. PICK x \in S : \A i \in 1..n : f[i] <= x
      <4>1. CASE n = 0
        <5>1. \A i \in 1..n : FALSE
          BY <4>1
        <5> QED
          BY <5>1
      <4>2. CASE n # 0
        BY <2>2, <4>2
      <4> QED
        BY <4>1, <4>2
    <3>3. x \in Nat /\ f[n + 1] \in Nat /\ \A i \in 1..n : f[i] \in Nat
      <4>1. \A i \in 1..n : i \in 1..c
        BY <1>2, <2>2
      <4> QED
        BY <1>1, <3>1, <3>2, <4>1
    <3>4. \A i \in 1..n + 1 : i \in 1..n \/ i = n + 1
      BY <2>2
    <3> n + 1 \in 0..c
      BY <1>2, <3>1
    <3>5. CASE f[n + 1] <= x
      <4>1. \A i \in 1..n + 1 : f[i] <= x
        BY <3>2, <3>4, <3>5
      <4> QED
        BY <4>1
    <3>6. CASE x <= f[n + 1]
      <4>1. \A i \in 1..n : f[i] <= f[n + 1]
        BY <3>2, <3>3, <3>6
      <4>2. f[n + 1] <= f[n + 1]
        BY <3>3
      <4>3. \A i \in 1..n + 1 : f[i] <= f[n + 1]
        BY <3>4, <4>1, <4>2
      <4> QED
        BY <3>1, <4>3
    <3> QED
      BY <3>3, <3>5, <3>6
  <2> HIDE DEF T
  <2> QED
    BY <1>2, <2>1, <2>2, UpTo
<1>4. c # 0
  BY FS_EmptySet
<1>5. PICK x \in S : \A i \in 1..c : f[i] <= x
  BY <1>2, <1>3, <1>4
<1>6. \A y \in S : x >= y
  BY <1>1, <1>5
<1> QED
  BY <1>6 DEF Max

-----------------------------------------------------------------------------
(* Ranks: a page of an ordered table, the top of a list.                   *)

\* How many elements are before one, of a strict order given by its pairs.
Rank(S, R, s) == Cardinality({t \in S : <<t, s>> \in R})

\* The elements at these places.
OfRanks(S, R, A) == {s \in S : Rank(S, R, s) \in A}

IsOrder(S, R) ==
  /\ \A s \in S : <<s, s>> \notin R
  /\ \A s, t \in S : s = t \/ <<s, t>> \in R \/ <<t, s>> \in R
  /\ \A s, t, u \in S : <<s, t>> \in R /\ <<t, u>> \in R => <<s, u>> \in R

\* Ranks are numbers below the size of the set, in its order.
LEMMA RankFacts ==
  ASSUME NEW S, IsFiniteSet(S), NEW R, IsOrder(S, R)
  PROVE  /\ \A s \in S : Rank(S, R, s) \in 0..Cardinality(S) - 1
         /\ \A s, t \in S : <<s, t>> \in R => Rank(S, R, s) < Rank(S, R, t)
<1> PICK n : n = Cardinality(S)
  OBVIOUS
<1>0. n \in Nat
  BY FS_CardinalityType
<1>1. ASSUME NEW s \in S
      PROVE  Rank(S, R, s) \in 0..n - 1
  <2> DEFINE D == {t \in S : <<t, s>> \in R}
  <2>1. D \subseteq S \ {s}
    BY DEF IsOrder
  <2>2. IsFiniteSet(S \ {s}) /\ Cardinality(S \ {s}) = n - 1
    BY FS_RemoveElement
  <2> HIDE DEF D
  <2>3. IsFiniteSet(D) /\ Cardinality(D) <= n - 1
    BY <2>1, <2>2, FS_Subset
  <2>4. Cardinality(D) \in Nat
    BY <2>3, FS_CardinalityType
  <2> QED
    BY <1>0, <2>3, <2>4 DEF Rank, D
<1>2. ASSUME NEW s \in S, NEW t \in S, <<s, t>> \in R
      PROVE  Rank(S, R, s) < Rank(S, R, t)
  <2> DEFINE D == {u \in S : <<u, s>> \in R}
             E == {u \in S : <<u, t>> \in R}
  <2>1. D \subseteq S /\ E \subseteq S /\ s \notin D /\ D \cup {s} \subseteq E
    BY <1>2 DEF IsOrder
  <2> HIDE DEF D, E
  <2>2. IsFiniteSet(D) /\ IsFiniteSet(E)
    BY <2>1, FS_Subset
  <2>3. Cardinality(D \cup {s}) = Cardinality(D) + 1
    BY <2>1, <2>2, FS_AddElement
  <2>4. Cardinality(D \cup {s}) <= Cardinality(E)
    BY <2>1, <2>2, FS_Subset
  <2>5. Cardinality(D) \in Nat /\ Cardinality(E) \in Nat
    BY <2>2, FS_CardinalityType
  <2> QED
    BY <2>3, <2>4, <2>5 DEF Rank, D, E
<1> QED
  BY <1>1, <1>2

\* Each number below the size of a finite set is the rank of one element.
LEMMA RanksCount ==
  ASSUME NEW S, IsFiniteSet(S), NEW R, IsOrder(S, R), NEW A, A \subseteq 0..Cardinality(S) - 1
  PROVE  Cardinality(OfRanks(S, R, A)) = Cardinality(A)
<1> PICK n : n = Cardinality(S)
  OBVIOUS
<1>0. n \in Nat /\ IsFiniteSet(0..n - 1) /\ Cardinality(0..n - 1) = n
  <2>1. n \in Nat
    BY FS_CardinalityType
  <2>2. n - 1 \in Int /\ 0 \in Int /\ (0 > n - 1 => n = 0) /\ (n - 1) - 0 + 1 = n
    BY <2>1
  <2> QED
    BY <2>1, <2>2, FS_Interval
<1> DEFINE f == [s \in S |-> Rank(S, R, s)]
<1>1. \A s \in S : Rank(S, R, s) \in 0..n - 1
  BY RankFacts
<1>2. \A s, t \in S : <<s, t>> \in R => Rank(S, R, s) < Rank(S, R, t)
  BY RankFacts
<1>3. \A s, t \in S : Rank(S, R, s) = Rank(S, R, t) => s = t
  <2> SUFFICES ASSUME NEW s \in S, NEW t \in S, Rank(S, R, s) = Rank(S, R, t), s # t
               PROVE  FALSE
    OBVIOUS
  <2>1. Rank(S, R, s) < Rank(S, R, t) \/ Rank(S, R, t) < Rank(S, R, s)
    BY <1>2 DEF IsOrder
  <2>2. Rank(S, R, s) \in 0..n - 1 /\ Rank(S, R, t) \in 0..n - 1
    BY <1>1
  <2> QED
    BY <1>0, <2>1, <2>2
<1>4. f \in Injection(S, 0..n - 1)
  BY <1>1, <1>3 DEF Injection, IsInjective
<1>5. f \in Surjection(S, 0..n - 1)
  <2> HIDE DEF f
  <2> QED
    BY <1>0, <1>4, FS_Injection
<1> DEFINE T == {s \in S : Rank(S, R, s) \in A}
           g == [s \in T |-> Rank(S, R, s)]
<1>6. IsFiniteSet(T)
  <2>1. T \subseteq S
    OBVIOUS
  <2> HIDE DEF T
  <2> QED
    BY <2>1, FS_Subset
<1>7. g \in Bijection(T, A)
  <2>1. g \in Injection(T, A)
    BY <1>3 DEF Injection, IsInjective
  <2>2. ASSUME NEW a \in A PROVE \E s \in T : g[s] = a
    <3>1. a \in 0..n - 1
      OBVIOUS
    <3>2. PICK s \in S : f[s] = a
      BY <1>5, <3>1 DEF Surjection
    <3> QED
      BY <3>2
  <2>3. g \in Surjection(T, A)
    BY <2>1, <2>2 DEF Injection, Surjection
  <2> QED
    BY <2>1, <2>3 DEF Bijection
<1>8. ExistsBijection(T, A)
  BY <1>7 DEF ExistsBijection
<1> HIDE DEF T
<1>9. Cardinality(T) = Cardinality(A)
  BY <1>6, <1>8, FS_Bijection
<1> QED
  BY <1>9 DEF T, OfRanks

-----------------------------------------------------------------------------
(* Sums over symbols.                                                      *)

\* What a symbol adds to a sum.
Part(f, s) == IF s \in DOMAIN f THEN f[s] ELSE 0

IsAmounts(f) == DOMAIN f \subseteq Symbols /\ \A s \in DOMAIN f : f[s] \in Int

LEMMA HighestFacts == Highest \in Nat /\ Symbols \subseteq 1..Highest
<1>1. Symbols \subseteq Nat \ {0} /\ IsFiniteSet(Symbols)
  BY ValuationAssumption
<1> DEFINE S == Symbols \cup {0}
<1>2. S \subseteq Nat /\ S # {} /\ IsFiniteSet(S)
  BY <1>1, FS_AddElement
<1> HIDE DEF S
<1>3. Max(S) \in S /\ \A y \in S : Max(S) >= y
  BY <1>2, MaxOfNaturals
<1>4. Highest \in Nat /\ \A s \in Symbols : s <= Highest
  BY <1>2, <1>3 DEF S, Highest
<1> QED
  BY <1>1, <1>4

\* The recursive function behind a sum exists, by induction on its domain.
LEMMA SumSteps ==
  ASSUME NEW f
  PROVE  /\ SumOf(f) = Upto(f)[Highest]
         /\ Upto(f)[0] = 0
         /\ \A n \in 1..Highest : Upto(f)[n] = Upto(f)[n - 1] + Part(f, n)
<1> DEFINE IsSum(g, h) ==
      g = [n \in 0..h |-> IF n = 0 THEN 0 ELSE g[n - 1] + (IF n \in DOMAIN f THEN f[n] ELSE 0)]
           T == {h \in 0..Highest : \E g : IsSum(g, h)}
<1>0. Highest \in Nat
  BY HighestFacts
<1>1. 0 \in T
  <2>1. IsSum([n \in 0..0 |-> 0], 0)
    OBVIOUS
  <2>2. \E g : IsSum(g, 0)
    BY <2>1
  <2> HIDE DEF IsSum
  <2> QED
    BY <1>0, <2>2
<1>2. ASSUME NEW h \in 0..Highest, h \in T, h < Highest PROVE h + 1 \in T
  <2>1. PICK g : IsSum(g, h)
    BY <1>2
  <2> DEFINE next == g[h] + (IF h + 1 \in DOMAIN f THEN f[h + 1] ELSE 0)
             k == [n \in 0..h + 1 |-> IF n = h + 1 THEN next ELSE g[n]]
  <2>2. ASSUME NEW n \in 0..h + 1
        PROVE  k[n] = IF n = 0 THEN 0
                      ELSE k[n - 1] + (IF n \in DOMAIN f THEN f[n] ELSE 0)
    <3>1. CASE n = 0
      <4>1. k[0] = g[0] /\ 0 \in 0..h
        BY <1>2
      <4> QED
        BY <2>1, <3>1, <4>1
    <3>2. CASE n \in 1..h
      <4>1. n # h + 1 /\ n - 1 # h + 1 /\ n - 1 \in 0..h + 1 /\ n \in 0..h /\ n # 0
        BY <1>2, <3>2
      <4> QED
        BY <2>1, <4>1
    <3>3. CASE n = h + 1
      <4>1. h \in 0..h + 1 /\ h # h + 1 /\ h + 1 # 0 /\ (h + 1) - 1 = h
        BY <1>2
      <4>2. k[h] = g[h] /\ k[n] = next
        BY <3>3, <4>1
      <4> QED
        BY <3>3, <4>1, <4>2
    <3> QED
      BY <1>2, <3>1, <3>2, <3>3
  <2> HIDE DEF next
  <2>3. IsSum(k, h + 1)
    BY <2>2
  <2>4. h + 1 \in 0..Highest
    BY <1>0, <1>2
  <2> QED
    BY <2>3, <2>4
<1>3. \E g : IsSum(g, Highest)
  <2> HIDE DEF T
  <2>1. \A h \in 0..Highest : h \in T
    BY <1>0, <1>1, <1>2, UpTo
  <2>2. Highest \in T
    BY <1>0, <2>1
  <2> QED
    BY <2>2 DEF T
<1>4. Upto(f) = CHOOSE g : IsSum(g, Highest)
  BY DEF Upto
<1>5. SumOf(f) = Upto(f)[Highest]
  BY DEF SumOf
<1>6. IsSum(Upto(f), Highest)
  <2> HIDE DEF IsSum
  <2> QED
    BY <1>3, <1>4
<1> HIDE DEF T
<1>7. 0 \in 0..Highest /\ \A n \in 1..Highest : n \in 0..Highest /\ n # 0
  BY <1>0
<1> QED
  BY <1>5, <1>6, <1>7 DEF Part

LEMMA PartIsInt ==
  ASSUME NEW f, IsAmounts(f), NEW n
  PROVE  Part(f, n) \in Int
BY DEF IsAmounts, Part

\* Sums of integers are integers.
LEMMA UptoIsInt ==
  ASSUME NEW f, IsAmounts(f)
  PROVE  /\ \A n \in 0..Highest : Upto(f)[n] \in Int
         /\ SumOf(f) \in Int
<1> DEFINE T == {n \in 0..Highest : Upto(f)[n] \in Int}
<1>0. Highest \in Nat
  BY HighestFacts
<1>1. 0 \in T
  BY <1>0, SumSteps
<1>2. ASSUME NEW n \in 0..Highest, n \in T, n < Highest PROVE n + 1 \in T
  <2>1. n + 1 \in 1..Highest /\ n + 1 \in 0..Highest /\ (n + 1) - 1 = n
    BY <1>0, <1>2
  <2>2. Upto(f)[n + 1] = Upto(f)[n] + Part(f, n + 1)
    BY <2>1, SumSteps
  <2> QED
    BY <1>2, <2>1, <2>2, PartIsInt
<1> HIDE DEF T
<1>3. \A n \in 0..Highest : n \in T
  BY <1>0, <1>1, <1>2, UpTo
<1>4. Highest \in 0..Highest
  BY <1>0
<1> QED
  BY <1>3, <1>4, SumSteps DEF T

\* Sums add up.
LEMMA SumsAdd ==
  ASSUME NEW f, NEW g, NEW h, IsAmounts(f), IsAmounts(g), IsAmounts(h),
         \A s \in Symbols : Part(h, s) = Part(f, s) + Part(g, s)
  PROVE  SumOf(h) = SumOf(f) + SumOf(g)
<1> DEFINE T == {n \in 0..Highest : Upto(h)[n] = Upto(f)[n] + Upto(g)[n]}
<1>0. Highest \in Nat
  BY HighestFacts
<1>1. 0 \in T
  BY <1>0, SumSteps
<1>2. ASSUME NEW n \in 0..Highest, n \in T, n < Highest PROVE n + 1 \in T
  <2>1. n + 1 \in 1..Highest /\ n + 1 \in 0..Highest /\ (n + 1) - 1 = n
    BY <1>0, <1>2
  <2>2. /\ Upto(f)[n + 1] = Upto(f)[n] + Part(f, n + 1)
        /\ Upto(g)[n + 1] = Upto(g)[n] + Part(g, n + 1)
        /\ Upto(h)[n + 1] = Upto(h)[n] + Part(h, n + 1)
    BY <2>1, SumSteps
  <2>3. Part(h, n + 1) = Part(f, n + 1) + Part(g, n + 1)
    BY DEF IsAmounts, Part
  <2>4. /\ Part(f, n + 1) \in Int /\ Part(g, n + 1) \in Int
        /\ Upto(f)[n] \in Int /\ Upto(g)[n] \in Int
    BY <1>2, PartIsInt, UptoIsInt
  <2>5. Upto(h)[n] = Upto(f)[n] + Upto(g)[n]
    BY <1>2
  <2> QED
    BY <2>1, <2>2, <2>3, <2>4, <2>5
<1> HIDE DEF T
<1>3. \A n \in 0..Highest : n \in T
  BY <1>0, <1>1, <1>2, UpTo
<1>4. Highest \in 0..Highest
  BY <1>0
<1> QED
  BY <1>3, <1>4, SumSteps DEF T

\* A factor can be taken out of a sum.
LEMMA SumsScale ==
  ASSUME NEW f, NEW g, IsAmounts(f), IsAmounts(g), NEW k \in Int,
         \A s \in Symbols : Part(g, s) = k * Part(f, s)
  PROVE  SumOf(g) = k * SumOf(f)
<1> DEFINE T == {n \in 0..Highest : Upto(g)[n] = k * Upto(f)[n]}
<1>0. Highest \in Nat
  BY HighestFacts
<1>1. 0 \in T
  BY <1>0, SumSteps
<1>2. ASSUME NEW n \in 0..Highest, n \in T, n < Highest PROVE n + 1 \in T
  <2>1. n + 1 \in 1..Highest /\ n + 1 \in 0..Highest /\ (n + 1) - 1 = n
    BY <1>0, <1>2
  <2>2. /\ Upto(f)[n + 1] = Upto(f)[n] + Part(f, n + 1)
        /\ Upto(g)[n + 1] = Upto(g)[n] + Part(g, n + 1)
    BY <2>1, SumSteps
  <2>3. Part(g, n + 1) = k * Part(f, n + 1)
    BY DEF IsAmounts, Part
  <2>4. Part(f, n + 1) \in Int /\ Upto(f)[n] \in Int
    BY <1>2, PartIsInt, UptoIsInt
  <2>5. Upto(g)[n] = k * Upto(f)[n]
    BY <1>2
  <2>6. \A x, y \in Int : k * (x + y) = k * x + k * y
    OBVIOUS
  <2> QED
    BY <2>1, <2>2, <2>3, <2>4, <2>5, <2>6
<1> HIDE DEF T
<1>3. \A n \in 0..Highest : n \in T
  BY <1>0, <1>1, <1>2, UpTo
<1>4. Highest \in 0..Highest
  BY <1>0
<1> QED
  BY <1>3, <1>4, SumSteps DEF T

\* Sums compare as their parts do.
LEMMA SumsCompare ==
  ASSUME NEW f, NEW g, IsAmounts(f), IsAmounts(g),
         \A s \in Symbols : Part(f, s) <= Part(g, s)
  PROVE  SumOf(f) <= SumOf(g)
<1> DEFINE T == {n \in 0..Highest : Upto(f)[n] <= Upto(g)[n]}
<1>0. Highest \in Nat
  BY HighestFacts
<1>1. 0 \in T
  BY <1>0, SumSteps
<1>2. ASSUME NEW n \in 0..Highest, n \in T, n < Highest PROVE n + 1 \in T
  <2>1. n + 1 \in 1..Highest /\ n + 1 \in 0..Highest /\ (n + 1) - 1 = n
    BY <1>0, <1>2
  <2>2. /\ Upto(f)[n + 1] = Upto(f)[n] + Part(f, n + 1)
        /\ Upto(g)[n + 1] = Upto(g)[n] + Part(g, n + 1)
    BY <2>1, SumSteps
  <2>3. Part(f, n + 1) <= Part(g, n + 1)
    BY DEF IsAmounts, Part
  <2>4. /\ Part(f, n + 1) \in Int /\ Part(g, n + 1) \in Int
        /\ Upto(f)[n] \in Int /\ Upto(g)[n] \in Int
    BY <1>2, PartIsInt, UptoIsInt
  <2>5. Upto(f)[n] <= Upto(g)[n]
    BY <1>2
  <2> QED
    BY <2>1, <2>2, <2>3, <2>4, <2>5
<1> HIDE DEF T
<1>3. \A n \in 0..Highest : n \in T
  BY <1>0, <1>1, <1>2, UpTo
<1>4. Highest \in 0..Highest
  BY <1>0
<1> QED
  BY <1>3, <1>4, SumSteps DEF T

\* Symbols that add nothing do not matter.
LEMMA SumsAgree ==
  ASSUME NEW f, NEW g, IsAmounts(f), IsAmounts(g),
         \A s \in Symbols : Part(f, s) = Part(g, s)
  PROVE  SumOf(f) = SumOf(g)
<1>1. Part(f, 0) \in Int /\ \A s \in Symbols : Part(f, s) \in Int /\ Part(g, s) \in Int
  BY PartIsInt
<1>2. SumOf(f) <= SumOf(g) /\ SumOf(g) <= SumOf(f)
  BY <1>1, SumsCompare
<1> QED
  BY <1>2, UptoIsInt

\* The sum of ones counts.
LEMMA SumOfOnes ==
  ASSUME NEW D, D \subseteq Symbols
  PROVE  /\ Cardinality(D) \in Nat
         /\ SumOf([s \in D |-> 1]) = Cardinality(D)
<1> DEFINE f == [s \in D |-> 1]
           E(n) == {s \in D : s <= n}
           T == {n \in 0..Highest : IsFiniteSet(E(n)) /\ Upto(f)[n] = Cardinality(E(n))}
<1>0. Highest \in Nat /\ D \subseteq 1..Highest
  BY HighestFacts
<1>1. 0 \in T
  <2>0. \A s \in D : ~(s <= 0)
    BY <1>0
  <2>1. E(0) = {}
    BY <2>0
  <2> HIDE DEF E, f
  <2> QED
    BY <1>0, <2>1, SumSteps, FS_EmptySet
<1>2. ASSUME NEW n \in 0..Highest, n \in T, n < Highest PROVE n + 1 \in T
  <2>1. n + 1 \in 1..Highest /\ n + 1 \in 0..Highest /\ (n + 1) - 1 = n
    BY <1>0, <1>2
  <2>2. Upto(f)[n + 1] = Upto(f)[n] + Part(f, n + 1)
    <3> HIDE DEF f
    <3> QED
      BY <2>1, SumSteps
  <2>3. Part(f, n + 1) = IF n + 1 \in D THEN 1 ELSE 0
    BY DEF Part
  <2>4. E(n + 1) = IF n + 1 \in D THEN E(n) \cup {n + 1} ELSE E(n)
    <3>1. \A s \in D : s <= n + 1 <=> s <= n \/ s = n + 1
      BY <1>0, <1>2
    <3>2. n + 1 <= n + 1
      BY <1>2
    <3> QED
      BY <3>1, <3>2
  <2>5. n + 1 \notin E(n)
    BY <1>2
  <2> HIDE DEF E, f
  <2>6. IsFiniteSet(E(n)) /\ Cardinality(E(n)) \in Nat /\ Upto(f)[n] = Cardinality(E(n))
    BY <1>2, FS_CardinalityType
  <2>7. /\ IsFiniteSet(E(n) \cup {n + 1})
        /\ Cardinality(E(n) \cup {n + 1}) = Cardinality(E(n)) + 1
    BY <2>5, <2>6, FS_AddElement
  <2> QED
    BY <2>1, <2>2, <2>3, <2>4, <2>6, <2>7
<1>3. E(Highest) = D
  <2>1. \A s \in D : s <= Highest
    BY <1>0
  <2> QED
    BY <2>1
<1> HIDE DEF T, E, f
<1>4. \A n \in 0..Highest : n \in T
  BY <1>0, <1>1, <1>2, UpTo
<1>5. Highest \in T
  BY <1>0, <1>4
<1>6. IsFiniteSet(D) /\ Upto(f)[Highest] = Cardinality(D)
  BY <1>3, <1>5 DEF T
<1>7. SumOf(f) = Cardinality(D) /\ Cardinality(D) \in Nat
  BY <1>6, SumSteps, FS_CardinalityType
<1> QED
  BY <1>7 DEF f

-----------------------------------------------------------------------------
(* What a request has read, and the view of it.                            *)

Books      == UNION {[D -> Rows] : D \in SUBSET Symbols}
MarkTables == UNION {[D -> [price : Prices, event : Nat]] : D \in SUBSET Symbols}
Inputs     == [rows : Books, marks : MarkTables, cursor : Nat]

\* Marks as an applied price event left them.
AreQuoted(m) ==
  \A s \in DOMAIN m : /\ m[s].event \in DOMAIN quoted
                      /\ quoted[m[s].event] = [symbol |-> s, price |-> m[s].price]

\* Rows as a trade batch left them, with a cursor up to this one.
IsBook(rows, c) == rows = None \/ \E e \in DOMAIN books : e <= c /\ books[e] = rows

\* What the statements have read is a book of the cursor and quoted prices of it.
IsRead(in, c) ==
  /\ in \in Inputs
  /\ IsBook(in.rows, c)
  /\ AreQuoted(in.marks) /\ DOMAIN in.marks \subseteq Open(in.rows)

LEMMA NoneIsEmpty ==
  /\ None \in Books /\ None \in MarkTables /\ DOMAIN None = {}
  /\ \A f \in Books \cup MarkTables : DOMAIN f = {} => f = None
<1>1. DOMAIN None = {} /\ \A S : None \in [{} -> S]
  BY DEF None
<1>2. \A f, g : \A S : f \in [{} -> S] /\ g \in [{} -> S] => f = g
  OBVIOUS
<1>3. None \in Books /\ None \in MarkTables
  BY <1>1 DEF Books, MarkTables
<1>4. ASSUME NEW f \in Books \cup MarkTables, DOMAIN f = {} PROVE f = None
  <2>1. PICK S : f \in [{} -> S]
    BY <1>4 DEF Books, MarkTables
  <2> QED
    BY <1>1, <1>2, <2>1
<1> QED
  BY <1>1, <1>3, <1>4

LEMMA BookFacts ==
  ASSUME NEW b \in Books
  PROVE  /\ DOMAIN b \subseteq Symbols /\ b \in [DOMAIN b -> Rows]
         /\ \A s \in DOMAIN b : /\ b[s] \in Rows
                                /\ b[s].qty \in Nat /\ b[s].cost \in Nat /\ b[s].realized \in Int
<1>1. PICK D \in SUBSET Symbols : b \in [D -> Rows]
  BY DEF Books
<1>2. \A r \in Rows : r.qty \in Nat /\ r.cost \in Nat /\ r.realized \in Int
  BY ReadAssumption
<1> QED
  BY <1>1, <1>2

LEMMA MarkFacts ==
  ASSUME NEW m \in MarkTables
  PROVE  /\ DOMAIN m \subseteq Symbols
         /\ m \in [DOMAIN m -> [price : Prices, event : Nat]]
         /\ \A s \in DOMAIN m : m[s].price \in Prices /\ m[s].price \in Nat /\ m[s].event \in Nat
<1>1. PICK D \in SUBSET Symbols : m \in [D -> [price : Prices, event : Nat]]
  BY DEF MarkTables
<1>2. Prices \subseteq Nat
  BY ReadAssumption
<1> QED
  BY <1>1, <1>2

\* The parts of the sums in a view.
LEMMA ViewParts ==
  ASSUME NEW in, in.rows \in Books, DOMAIN in.marks \subseteq Symbols,
         \A s \in DOMAIN in.marks : in.marks[s].price \in Int
  PROVE  LET live == {s \in Open(in.rows) : HasPrice(in, s)}
             mtm  == AssemblePortfolioView(in).positions
         IN  /\ DOMAIN mtm = DOMAIN in.rows /\ live \subseteq Symbols
             /\ \A s \in DOMAIN in.rows :
                  /\ mtm[s].row = in.rows[s]
                  /\ mtm[s].last = (IF HasPrice(in, s) THEN in.marks[s].price ELSE 0)
                  /\ mtm[s].value = (IF s \in live THEN in.marks[s].price * in.rows[s].qty ELSE 0)
                  /\ mtm[s].gain = (IF s \in live
                                    THEN (in.marks[s].price - in.rows[s].cost) * in.rows[s].qty
                                    ELSE 0)
                  /\ mtm[s].value \in Int /\ mtm[s].gain \in Int
<1> DEFINE live == {s \in Open(in.rows) : HasPrice(in, s)}
           mtm  == AssemblePortfolioView(in).positions
<1>1. mtm = [s \in DOMAIN in.rows |-> MarkToMarket(in, s)]
  BY DEF AssemblePortfolioView
<1>2. DOMAIN in.rows \subseteq Symbols /\ live \subseteq Symbols
  BY BookFacts DEF Open
<1>3. ASSUME NEW s \in DOMAIN in.rows
      PROVE  /\ mtm[s].row = in.rows[s]
             /\ mtm[s].last = (IF HasPrice(in, s) THEN in.marks[s].price ELSE 0)
             /\ mtm[s].value = (IF s \in live THEN in.marks[s].price * in.rows[s].qty ELSE 0)
             /\ mtm[s].gain = (IF s \in live
                               THEN (in.marks[s].price - in.rows[s].cost) * in.rows[s].qty
                               ELSE 0)
  <2>1. s \in live <=> HasPrice(in, s) /\ in.rows[s].qty # 0
    BY DEF Open
  <2>2. mtm[s] = MarkToMarket(in, s)
    BY <1>1
  <2> HIDE DEF live, mtm
  <2> QED
    BY <2>1, <2>2 DEF MarkToMarket
<1>4. ASSUME NEW s \in DOMAIN in.rows PROVE mtm[s].value \in Int /\ mtm[s].gain \in Int
  <2>1. in.rows[s].qty \in Int /\ in.rows[s].cost \in Int
    BY BookFacts
  <2>2. s \in live => in.marks[s].price \in Int
    BY DEF HasPrice
  <2>3. \A p, c, q \in Int : p * q \in Int /\ (p - c) * q \in Int
    OBVIOUS
  <2> HIDE DEF live, mtm
  <2> QED
    BY <1>3, <2>1, <2>2, <2>3
<1>5. DOMAIN mtm = DOMAIN in.rows
  BY <1>1
<1> QED
  BY <1>2, <1>3, <1>4, <1>5

\* The view is the arithmetic of the rows that were read.
LEMMA ViewIsOfItsBook ==
  ASSUME NEW in, NEW c, IsRead(in, c)
  PROVE  IsValueOf(AssemblePortfolioView(in), in.rows)
<1> DEFINE v == AssemblePortfolioView(in)
           book == in.rows
           live == {s \in Open(in.rows) : HasPrice(in, s)}
           held == {s \in DOMAIN book : book[s].qty # 0 /\ PriceOf(v, s) # 0}
           mtm == v.positions
           values == [s \in DOMAIN mtm |-> mtm[s].value]
           gains == [s \in DOMAIN mtm |-> mtm[s].gain]
           heldValues == [s \in held |-> PriceOf(v, s) * book[s].qty]
           heldCosts == [s \in held |-> book[s].cost * book[s].qty]
<1>0. /\ book \in Books /\ in.marks \in MarkTables /\ AreQuoted(in.marks)
      /\ DOMAIN in.marks \subseteq Symbols
      /\ \A s \in DOMAIN in.marks : in.marks[s].price \in Nat
      /\ DOMAIN book \subseteq Symbols
      /\ \A s \in DOMAIN book : book[s].qty \in Nat /\ book[s].cost \in Nat
  <2>1. book \in Books /\ in.marks \in MarkTables /\ AreQuoted(in.marks)
    BY DEF IsRead, Inputs
  <2> HIDE DEF book
  <2> QED
    BY <2>1, BookFacts, MarkFacts
<1>1. /\ DOMAIN mtm = DOMAIN book
      /\ \A s \in DOMAIN book :
           /\ mtm[s].row = book[s]
           /\ mtm[s].value = (IF s \in live THEN in.marks[s].price * book[s].qty ELSE 0)
           /\ mtm[s].gain = (IF s \in live
                             THEN (in.marks[s].price - book[s].cost) * book[s].qty ELSE 0)
           /\ mtm[s].value \in Int /\ mtm[s].gain \in Int
  BY <1>0, ViewParts
<1>2. \A s : PriceOf(v, s) = IF s \in DOMAIN in.marks THEN in.marks[s].price ELSE 0
  <2>1. v.asOfPrices = [s \in DOMAIN in.marks |-> in.marks[s].event]
    BY DEF AssemblePortfolioView, MarkEvents
  <2>2. ASSUME NEW s \in DOMAIN in.marks
        PROVE  quoted[in.marks[s].event].price = in.marks[s].price
    <3>1. quoted[in.marks[s].event] = [symbol |-> s, price |-> in.marks[s].price]
      BY <1>0 DEF AreQuoted
    <3> QED
      BY <3>1
  <2> HIDE DEF v
  <2> QED
    BY <2>1, <2>2 DEF PriceOf
<1>3. held = live
  BY <1>2 DEF HasPrice, Open
<1>4. v.unpriced = {s \in DOMAIN book : book[s].qty # 0 /\ PriceOf(v, s) = 0}
  <2>1. v.unpriced = {s \in Open(in.rows) : ~HasPrice(in, s)}
    BY DEF AssemblePortfolioView
  <2> HIDE DEF v
  <2> QED
    BY <1>2, <2>1 DEF HasPrice, Open
<1>5. /\ v.totals.value = SumOf(values) /\ v.totals.gain = SumOf(gains)
      /\ v.totals.realized = SumOf([s \in DOMAIN mtm |-> mtm[s].row.realized])
  BY DEF AssemblePortfolioView, SumTotals
<1> HIDE DEF v
<1>6. /\ IsAmounts(values) /\ IsAmounts(gains)
      /\ IsAmounts(heldValues) /\ IsAmounts(heldCosts)
  <2>1. IsAmounts(values) /\ IsAmounts(gains)
    BY <1>0, <1>1 DEF IsAmounts
  <2>2. \A s \in held : /\ PriceOf(v, s) \in Int /\ book[s].qty \in Int /\ book[s].cost \in Int
                        /\ s \in Symbols
    BY <1>0, <1>2
  <2>3. \A p, q \in Int : p * q \in Int
    OBVIOUS
  <2> HIDE DEF held, book
  <2>4. IsAmounts(heldValues)
    BY <2>2, <2>3 DEF IsAmounts
  <2>5. IsAmounts(heldCosts)
    BY <2>2, <2>3 DEF IsAmounts
  <2> QED
    BY <2>1, <2>4, <2>5
<1>7. \A s \in Symbols : /\ Part(values, s) = Part(heldValues, s)
                         /\ Part(values, s) = Part(gains, s) + Part(heldCosts, s)
  <2> SUFFICES ASSUME NEW s \in Symbols
               PROVE  /\ Part(values, s) = Part(heldValues, s)
                      /\ Part(values, s) = Part(gains, s) + Part(heldCosts, s)
    OBVIOUS
  <2>1. CASE s \in live
    <3>1. s \in DOMAIN book /\ s \in held /\ s \in DOMAIN in.marks
          /\ PriceOf(v, s) = in.marks[s].price
      BY <1>2, <1>3, <2>1 DEF Open, HasPrice
    <3>2. /\ mtm[s].value = in.marks[s].price * book[s].qty
          /\ mtm[s].gain = (in.marks[s].price - book[s].cost) * book[s].qty
      BY <1>1, <2>1, <3>1
    <3>3. /\ Part(values, s) = mtm[s].value /\ Part(gains, s) = mtm[s].gain
          /\ Part(heldValues, s) = PriceOf(v, s) * book[s].qty
          /\ Part(heldCosts, s) = book[s].cost * book[s].qty
      BY <1>1, <3>1 DEF Part
    <3>4. \A p, k, q \in Nat : p * q = (p - k) * q + k * q
      OBVIOUS
    <3>5. in.marks[s].price \in Nat /\ book[s].cost \in Nat /\ book[s].qty \in Nat
      BY <1>0, <3>1
    <3> HIDE DEF book, values, gains, heldValues, heldCosts, mtm, held, live
    <3> QED
      BY <3>1, <3>2, <3>3, <3>4, <3>5
  <2>2. CASE s \notin live
    <3>1. s \notin held
      BY <1>3, <2>2
    <3>2. Part(values, s) = 0 /\ Part(gains, s) = 0
      BY <1>1, <2>2 DEF Part
    <3>3. Part(heldValues, s) = 0 /\ Part(heldCosts, s) = 0
      BY <3>1 DEF Part
    <3> HIDE DEF book, values, gains, heldValues, heldCosts, mtm, held, live
    <3> QED
      BY <3>2, <3>3
  <2> HIDE DEF book, values, gains, heldValues, heldCosts, mtm, held, live
  <2> QED
    BY <2>1, <2>2
<1>8. [s \in DOMAIN mtm |-> mtm[s].row.realized] = [s \in DOMAIN book |-> book[s].realized]
  BY <1>1
<1>9. /\ SumOf(values) = SumOf(heldValues)
      /\ SumOf(values) = SumOf(gains) + SumOf(heldCosts)
      /\ SumOf(gains) \in Int /\ SumOf(heldCosts) \in Int
  <2> HIDE DEF values, gains, heldValues, heldCosts
  <2> QED
    BY <1>6, <1>7, SumsAgree, SumsAdd, UptoIsInt
<1>10. v.totals.value - v.totals.gain = SumOf(heldCosts)
  <2> HIDE DEF values, gains, heldCosts
  <2> QED
    BY <1>5, <1>9
<1>11. v.totals.value = SumOf(heldValues)
  <2> HIDE DEF values, heldValues
  <2> QED
    BY <1>5, <1>9
<1> QED
  BY <1>1, <1>4, <1>5, <1>8, <1>10, <1>11 DEF IsValueOf, v

\* A view names a single event only where no number depends on another one.
LEMMA ViewLineage ==
  ASSUME NEW in, IsRead(in, in.cursor), DOMAIN books \subseteq Nat \ {0}
  PROVE  LET v == AssemblePortfolioView(in)
         IN  /\ v.asOf # NoEvent => /\ v.driving = {v.asOf}
                                    /\ \A s \in DOMAIN v.positions : v.positions[s].last = 0
             /\ v.driving = (Range(v.asOfPrices) \cup {v.asOfPos}) \ {NoEvent}
             /\ \A s \in DOMAIN v.asOfPrices : quoted[v.asOfPrices[s]].symbol = s
<1> DEFINE v == AssemblePortfolioView(in)
<1>0. /\ v.asOf = AsOf(in) /\ v.driving = Driving(in) /\ v.asOfPos = in.cursor
      /\ v.asOfPrices = MarkEvents(in)
      /\ v.positions = [s \in DOMAIN in.rows |-> MarkToMarket(in, s)]
  BY DEF AssemblePortfolioView
<1>1. /\ in.rows \in Books /\ in.marks \in MarkTables /\ in.cursor \in Nat
      /\ IsBook(in.rows, in.cursor) /\ AreQuoted(in.marks)
      /\ DOMAIN in.marks \subseteq Open(in.rows)
  BY DEF IsRead, Inputs
<1> HIDE DEF v
<1>2. ASSUME NEW s \in DOMAIN v.asOfPrices PROVE quoted[v.asOfPrices[s]].symbol = s
  <2>1. s \in DOMAIN in.marks /\ v.asOfPrices[s] = in.marks[s].event
    BY <1>0, <1>2 DEF MarkEvents
  <2>2. quoted[in.marks[s].event] = [symbol |-> s, price |-> in.marks[s].price]
    BY <1>1, <2>1 DEF AreQuoted
  <2> QED
    BY <2>1, <2>2
<1>3. ASSUME v.asOf # NoEvent
      PROVE  /\ v.driving = {v.asOf}
             /\ \A s \in DOMAIN v.positions : v.positions[s].last = 0
  <2>1. CASE in.cursor = NoEvent
    <3>1. in.rows = None
      BY <1>1, <2>1 DEF IsBook, NoEvent
    <3>2. DOMAIN in.marks = {}
      BY <1>1, <3>1, NoneIsEmpty DEF Open
    <3>3. in.marks = None
      BY <1>1, <3>2, NoneIsEmpty
    <3> QED
      BY <1>0, <1>3, <2>1, <3>3 DEF AsOf
  <2>2. CASE in.cursor # NoEvent
    <3>1. in.marks = None /\ v.asOf = in.cursor
      BY <1>0, <1>3, <2>2 DEF AsOf
    <3>2. DOMAIN in.marks = {}
      BY <3>1, NoneIsEmpty
    <3>3. Range(MarkEvents(in)) = {}
      BY <3>2 DEF Range, MarkEvents
    <3>4. v.driving = {v.asOf}
      BY <1>0, <2>2, <3>1, <3>3 DEF Driving
    <3>5. \A s \in DOMAIN in.rows : MarkToMarket(in, s).last = 0
      BY <3>2 DEF MarkToMarket, HasPrice
    <3> QED
      BY <1>0, <3>4, <3>5
  <2> QED
    BY <2>1, <2>2
<1>4. v.driving = (Range(v.asOfPrices) \cup {v.asOfPos}) \ {NoEvent}
  BY <1>0 DEF Driving
<1> QED
  BY <1>2, <1>3, <1>4 DEF v

-----------------------------------------------------------------------------
(* Shocks.                                                                 *)

ShockLists == Seq([symbol : Symbols \cup {0}, value : Int])

\* The recursive function behind Shocked exists, by induction on its domain.
LEMMA ShockSteps ==
  ASSUME NEW m, NEW shocks, Len(shocks) \in Nat
  PROVE  /\ AfterShocks(m, shocks)[0] = m
         /\ \A n \in 1..Len(shocks) :
              AfterShocks(m, shocks)[n] = ShockMark(AfterShocks(m, shocks)[n - 1], shocks[n])
<1> DEFINE IsAfter(g, h) ==
      g = [n \in 0..h |-> IF n = 0 THEN m ELSE ShockMark(g[n - 1], shocks[n])]
           T == {h \in 0..Len(shocks) : \E g : IsAfter(g, h)}
<1> PICK len : len = Len(shocks)
  OBVIOUS
<1>1. 0 \in T
  <2>1. IsAfter([n \in 0..0 |-> m], 0)
    OBVIOUS
  <2>2. \E g : IsAfter(g, 0)
    BY <2>1
  <2> HIDE DEF IsAfter
  <2> QED
    BY <2>2
<1>2. ASSUME NEW h \in 0..len, h \in T, h < len PROVE h + 1 \in T
  <2>1. PICK g : IsAfter(g, h)
    BY <1>2
  <2> DEFINE next == ShockMark(g[h], shocks[h + 1])
             k == [n \in 0..h + 1 |-> IF n = h + 1 THEN next ELSE g[n]]
  <2>2. ASSUME NEW n \in 0..h + 1
        PROVE  k[n] = IF n = 0 THEN m ELSE ShockMark(k[n - 1], shocks[n])
    <3>1. CASE n = 0
      <4>1. k[0] = g[0] /\ 0 \in 0..h
        BY <1>2
      <4> QED
        BY <2>1, <3>1, <4>1
    <3>2. CASE n \in 1..h
      <4>1. n # h + 1 /\ n - 1 # h + 1 /\ n - 1 \in 0..h + 1 /\ n \in 0..h /\ n # 0
        BY <1>2, <3>2
      <4>2. k[n] = g[n] /\ k[n - 1] = g[n - 1]
        BY <4>1
      <4>3. g[n] = ShockMark(g[n - 1], shocks[n])
        BY <2>1, <4>1
      <4> HIDE DEF k, next
      <4> QED
        BY <4>1, <4>2, <4>3
    <3>3. CASE n = h + 1
      <4>1. h \in 0..h + 1 /\ h # h + 1 /\ h + 1 # 0 /\ (h + 1) - 1 = h
        BY <1>2
      <4>2. k[h] = g[h] /\ k[n] = next
        BY <3>3, <4>1
      <4> HIDE DEF k
      <4> QED
        BY <3>3, <4>1, <4>2
    <3> QED
      BY <1>2, <3>1, <3>2, <3>3
  <2> HIDE DEF next
  <2>3. IsAfter(k, h + 1)
    BY <2>2
  <2>4. h + 1 \in 0..len
    BY <1>2
  <2> QED
    BY <2>3, <2>4
<1>3. \E g : IsAfter(g, len)
  <2> HIDE DEF T
  <2>1. \A h \in 0..len : h \in T
    BY <1>1, <1>2, UpTo
  <2>2. len \in T
    BY <2>1
  <2> QED
    BY <2>2 DEF T
<1>4. AfterShocks(m, shocks) = CHOOSE g : IsAfter(g, len)
  BY DEF AfterShocks
<1>5. IsAfter(AfterShocks(m, shocks), len)
  <2> HIDE DEF IsAfter
  <2> QED
    BY <1>3, <1>4
<1> HIDE DEF T
<1>6. 0 \in 0..len /\ \A n \in 1..len : n \in 0..len /\ n # 0
  OBVIOUS
<1> QED
  BY <1>5, <1>6

LEMMA ShockFacts ==
  ASSUME NEW shocks, shocks \in ShockLists
  PROVE  /\ Len(shocks) \in Nat /\ DOMAIN shocks = 1..Len(shocks)
         /\ \A i \in DOMAIN shocks : shocks[i] \in [symbol : Symbols \cup {0}, value : Int]
<1>1. shocks \in Seq([symbol : Symbols \cup {0}, value : Int])
  BY DEF ShockLists
<1>2. Len(shocks) \in Nat /\ DOMAIN shocks = 1..Len(shocks)
  BY <1>1, LenProperties
<1> QED
  BY <1>1, <1>2, ElementOfSeq

\* The unit of prices is one in which a shock is exact.
LEMMA ShockIsExact ==
  ASSUME NEW p \in Prices, NEW w \in Int
  PROVE  /\ (p * w) \div Parts \in Int
         /\ Parts * ((p * w) \div Parts) = p * w
<1>1. p \in Nat /\ p % Parts = 0 /\ Parts \in Nat \ {0}
  BY ReadAssumption, ValuationAssumption
<1>2. p \div Parts \in Int /\ p = Parts * (p \div Parts)
  BY <1>1, SMT
<1> PICK k \in Int : k = p \div Parts
  BY <1>2
<1>3. p * w = Parts * (k * w) /\ k * w \in Int
  <2>1. \A a, b, c \in Int : (a * b) * c = a * (b * c) /\ b * c \in Int
    OBVIOUS
  <2> QED
    BY <1>1, <1>2, <2>1
<1> PICK j \in Int : j = k * w
  BY <1>3
<1>4. p * w = Parts * j /\ p * w \in Int
  BY <1>1, <1>3
<1> PICK y \in Int : y = p * w
  BY <1>4
<1>5. y \div Parts \in Int /\ Parts * (y \div Parts) <= y /\ y < Parts * (y \div Parts) + Parts
  BY <1>1, SMT
<1> PICK q \in Int : q = y \div Parts
  BY <1>5
<1>6. Parts * q <= Parts * j /\ Parts * j < Parts * q + Parts
  BY <1>4, <1>5
<1>7. q = j
  <2>1. Parts * (j - q) = Parts * j - Parts * q
    BY <1>1
  <2>2. 0 <= Parts * (j - q) /\ Parts * (j - q) < Parts
    <3>1. Parts * j \in Int /\ Parts * q \in Int /\ Parts * (j - q) \in Int
      BY <1>1
    <3> QED
      BY <1>1, <1>6, <2>1, <3>1
  <2>3. \A a \in Nat \ {0} : \A d \in Int : 0 <= a * d /\ a * d < a => d = 0
    OBVIOUS
  <2>4. j - q = 0
    BY <1>1, <2>2, <2>3
  <2> QED
    BY <2>4
<1> QED
  BY <1>4, <1>7

\* One price set in a table of marks leaves the event of the mark and all other
\* marks as they were.
LEMMA OnePriceSet ==
  ASSUME NEW D, NEW marked \in [D -> [price : Int, event : Nat]], NEW t \in D, NEW p \in Int,
         NEW x, x = [marked EXCEPT ![t].price = p]
  PROVE  /\ x \in [D -> [price : Int, event : Nat]]
         /\ x[t].price = p /\ x[t].event = marked[t].event
         /\ \A s \in D : s # t => x[s] = marked[s]
OBVIOUS

LEMMA MarksAreNumbers ==
  ASSUME NEW m \in MarkTables
  PROVE  m \in [DOMAIN m -> [price : Int, event : Nat]]
<1> DEFINE R == [price : Int, event : Nat]
<1>1. m \in [DOMAIN m -> [price : Prices, event : Nat]] /\ Prices \subseteq Int
  BY MarkFacts, ReadAssumption
<1>2. \A s \in DOMAIN m : m[s] \in R
  BY <1>1
<1>3. m = [s \in DOMAIN m |-> m[s]]
  BY <1>1
<1> HIDE DEF R
<1>4. m \in [DOMAIN m -> R]
  BY <1>2, <1>3
<1> QED
  BY <1>4 DEF R

\* What shocks make of marks: each named mark has its share more, and nothing
\* else has changed.
LEMMA ShockedMarks ==
  ASSUME NEW m, m \in MarkTables, NEW shocks, shocks \in ShockLists, ValidShocks(shocks),
         \A i \in DOMAIN shocks : shocks[i].symbol \in DOMAIN m
  PROVE  LET x == AfterShocks(m, shocks)[Len(shocks)]
         IN  /\ x \in [DOMAIN m -> [price : Int, event : Nat]]
             /\ \A s \in DOMAIN m : /\ x[s].event = m[s].event
                                    /\ (\A i \in DOMAIN shocks : shocks[i].symbol # s) => x[s] = m[s]
             /\ \A i \in DOMAIN shocks :
                  Parts * x[shocks[i].symbol].price
                    = m[shocks[i].symbol].price * (Parts + shocks[i].value)
<1> PICK len : len = Len(shocks)
  OBVIOUS
<1> DEFINE a == AfterShocks(m, shocks)
           Price(i) == (m[shocks[i].symbol].price * (Parts + shocks[i].value)) \div Parts
           Good(n) ==
             /\ a[n] \in [DOMAIN m -> [price : Int, event : Nat]]
             /\ \A s \in DOMAIN m : /\ a[n][s].event = m[s].event
                                    /\ (\A i \in 1..n : shocks[i].symbol # s) => a[n][s] = m[s]
             /\ \A i \in 1..n : a[n][shocks[i].symbol].price = Price(i)
           T == {n \in 0..len : Good(n)}
<1>0. /\ len \in Nat /\ DOMAIN shocks = 1..len
      /\ \A i \in 1..len : shocks[i].symbol \in DOMAIN m /\ shocks[i].value \in Int
      /\ \A i, j \in 1..len : shocks[i].symbol = shocks[j].symbol => i = j
      /\ Parts \in Nat \ {0}
  <2>2. len \in Nat /\ DOMAIN shocks = 1..len
    BY ShockFacts
  <2>3. \A i \in 1..len : shocks[i] \in [symbol : Symbols \cup {0}, value : Int]
    BY <2>2, ShockFacts
  <2>4. Parts \in Nat \ {0}
    BY ValuationAssumption
  <2> QED
    BY <2>2, <2>3, <2>4 DEF ValidShocks
<1>1. /\ m \in [DOMAIN m -> [price : Int, event : Nat]]
      /\ \A s \in DOMAIN m : m[s].price \in Prices
  BY MarkFacts, MarksAreNumbers
<1>2. a[0] = m /\ \A n \in 1..len : a[n] = ShockMark(a[n - 1], shocks[n])
  BY <1>0, ShockSteps
<1> HIDE DEF a
<1>3. \A i \in 1..len : Price(i) \in Int
  BY <1>0, <1>1, ShockIsExact
<1> HIDE DEF Price
<1>4. 0 \in T
  <2>1. \A i \in 1..0 : FALSE
    OBVIOUS
  <2>2. Good(0)
    BY <1>1, <1>2, <2>1
  <2> HIDE DEF Good
  <2> QED
    BY <1>0, <2>2
<1>5. ASSUME NEW n \in 0..len, n \in T, n < len PROVE n + 1 \in T
  <2>1. /\ n + 1 \in 1..len /\ (n + 1) - 1 = n /\ n + 1 \in 0..len
        /\ \A i \in 1..n + 1 : i \in 1..n \/ i = n + 1
        /\ \A i \in 1..n : i \in 1..n + 1 /\ i \in 1..len /\ i # n + 1
    BY <1>0, <1>5
  <2>2. PICK t : t = shocks[n + 1].symbol
    OBVIOUS
  <2>3. PICK p : p = (a[n][t].price * (Parts + shocks[n + 1].value)) \div Parts
    OBVIOUS
  <2>4. Good(n)
    BY <1>5
  <2>5. t \in DOMAIN m /\ \A i \in 1..n : shocks[i].symbol # t
    BY <1>0, <2>1, <2>2
  <2>6. a[n][t] = m[t]
    BY <2>4, <2>5
  <2>7. p = Price(n + 1) /\ p \in Int
    BY <1>3, <2>1, <2>2, <2>3, <2>6 DEF Price
  <2>8. a[n + 1] = [a[n] EXCEPT ![t].price = p]
    <3>1. a[n + 1] = ShockMark(a[n], shocks[n + 1])
      BY <1>2, <2>1
    <3>2. PICK marked, shock : marked = a[n] /\ shock = shocks[n + 1]
      OBVIOUS
    <3>3. t = shock.symbol /\ p = (marked[t].price * (Parts + shock.value)) \div Parts
      BY <2>2, <2>3, <3>2
    <3> HIDE DEF Good, T
    <3>4. ShockMark(marked, shock) = [marked EXCEPT ![t].price = p]
      BY <3>3 DEF ShockMark
    <3> QED
      BY <3>1, <3>2, <3>4
  <2>9. a[n] \in [DOMAIN m -> [price : Int, event : Nat]]
    BY <2>4
  <2>10. /\ a[n + 1] \in [DOMAIN m -> [price : Int, event : Nat]]
         /\ a[n + 1][t].price = p /\ a[n + 1][t].event = a[n][t].event
         /\ \A s \in DOMAIN m : s # t => a[n + 1][s] = a[n][s]
    <3>1. t \in DOMAIN m /\ p \in Int
      BY <2>5, <2>7
    <3>2. PICK marked, x, D : marked = a[n] /\ x = a[n + 1] /\ D = DOMAIN m
      OBVIOUS
    <3>3. /\ marked \in [D -> [price : Int, event : Nat]] /\ t \in D
          /\ x = [marked EXCEPT ![t].price = p]
      BY <2>8, <2>9, <3>1, <3>2
    <3> HIDE DEF Good, T
    <3>4. /\ x \in [D -> [price : Int, event : Nat]]
          /\ x[t].price = p /\ x[t].event = marked[t].event
          /\ \A s \in D : s # t => x[s] = marked[s]
      BY <3>1, <3>3, OnePriceSet
    <3> QED
      BY <3>2, <3>4
  <2>11. \A s \in DOMAIN m : /\ a[n + 1][s].event = m[s].event
                             /\ (\A i \in 1..n + 1 : shocks[i].symbol # s) => a[n + 1][s] = m[s]
    <3>1. a[n + 1][t].event = m[t].event
      BY <2>6, <2>10
    <3>2. \A s \in DOMAIN m : a[n][s].event = m[s].event
      BY <2>4
    <3>3. \A s \in DOMAIN m : (\A i \in 1..n : shocks[i].symbol # s) => a[n][s] = m[s]
      BY <2>4
    <3>4. n + 1 \in 1..n + 1 /\ \A i \in 1..n : i \in 1..n + 1
      BY <1>0, <1>5, <2>1
    <3> HIDE DEF Good
    <3> QED
      BY <2>2, <2>10, <3>1, <3>2, <3>3, <3>4
  <2>12. \A i \in 1..n + 1 : a[n + 1][shocks[i].symbol].price = Price(i)
    <3>1. ASSUME NEW i \in 1..n PROVE a[n + 1][shocks[i].symbol].price = Price(i)
      <4>1. shocks[i].symbol \in DOMAIN m /\ shocks[i].symbol # t
        BY <1>0, <2>1, <2>5
      <4>2. a[n][shocks[i].symbol].price = Price(i)
        BY <2>4
      <4> QED
        BY <2>10, <4>1, <4>2
    <3> QED
      BY <2>1, <2>2, <2>7, <2>10, <3>1
  <2>13. Good(n + 1)
    BY <2>10, <2>11, <2>12
  <2> HIDE DEF Good
  <2> QED
    BY <2>1, <2>13
<1>6. Good(len)
  <2> HIDE DEF T
  <2>1. \A n \in 0..len : n \in T
    BY <1>0, <1>4, <1>5, UpTo
  <2>2. len \in T
    BY <1>0, <2>1
  <2> HIDE DEF Good
  <2> QED
    BY <2>2 DEF T
<1>7. ASSUME NEW i \in DOMAIN shocks
      PROVE  Parts * a[len][shocks[i].symbol].price
               = m[shocks[i].symbol].price * (Parts + shocks[i].value)
  <2>1. a[len][shocks[i].symbol].price = Price(i)
    BY <1>0, <1>6
  <2>2. m[shocks[i].symbol].price \in Prices /\ Parts + shocks[i].value \in Int
    BY <1>0, <1>1
  <2> QED
    BY <2>1, <2>2, ShockIsExact DEF Price
<1>8. \A s \in DOMAIN m : (\A i \in DOMAIN shocks : shocks[i].symbol # s) => a[len][s] = m[s]
  BY <1>0, <1>6
<1> QED
  BY <1>6, <1>7, <1>8 DEF a

\* The gain of a view is its value but for what was paid for what is open and
\* priced.
LEMMA ViewTotals ==
  ASSUME NEW in, in.rows \in Books, DOMAIN in.marks \subseteq Symbols,
         \A s \in DOMAIN in.marks : in.marks[s].price \in Int
  PROVE  LET live == {s \in Open(in.rows) : HasPrice(in, s)}
             v    == AssemblePortfolioView(in)
         IN  /\ v.totals.value = SumOf([s \in DOMAIN v.positions |-> v.positions[s].value])
             /\ IsAmounts([s \in DOMAIN v.positions |-> v.positions[s].value])
             /\ v.totals.value \in Int /\ v.totals.gain \in Int
             /\ v.totals.realized = SumOf([s \in DOMAIN in.rows |-> in.rows[s].realized])
             /\ v.totals.realized \in Int
             /\ v.totals.value - v.totals.gain
                  = SumOf([s \in live |-> in.rows[s].cost * in.rows[s].qty])
<1> DEFINE live == {s \in Open(in.rows) : HasPrice(in, s)}
           v    == AssemblePortfolioView(in)
           mtm  == v.positions
           values == [s \in DOMAIN mtm |-> mtm[s].value]
           gains == [s \in DOMAIN mtm |-> mtm[s].gain]
           realized == [s \in DOMAIN in.rows |-> in.rows[s].realized]
           costs == [s \in live |-> in.rows[s].cost * in.rows[s].qty]
<1>1. /\ DOMAIN mtm = DOMAIN in.rows /\ live \subseteq Symbols
      /\ \A s \in DOMAIN in.rows :
           /\ mtm[s].row = in.rows[s]
           /\ mtm[s].value = (IF s \in live THEN in.marks[s].price * in.rows[s].qty ELSE 0)
           /\ mtm[s].gain = (IF s \in live
                             THEN (in.marks[s].price - in.rows[s].cost) * in.rows[s].qty
                             ELSE 0)
           /\ mtm[s].value \in Int /\ mtm[s].gain \in Int
  BY ViewParts
<1>2. /\ DOMAIN in.rows \subseteq Symbols
      /\ \A s \in DOMAIN in.rows : /\ in.rows[s].qty \in Int /\ in.rows[s].cost \in Int
                                   /\ in.rows[s].realized \in Int
  BY BookFacts
<1>3. live \subseteq DOMAIN in.rows /\ \A s \in live : in.marks[s].price \in Int
  BY DEF Open, HasPrice
<1>4. /\ v.totals.value = SumOf(values) /\ v.totals.gain = SumOf(gains)
      /\ v.totals.realized = SumOf([s \in DOMAIN mtm |-> mtm[s].row.realized])
  BY DEF AssemblePortfolioView, SumTotals
<1> HIDE DEF mtm, live
<1>5. [s \in DOMAIN mtm |-> mtm[s].row.realized] = realized
  BY <1>1
<1>6. IsAmounts(values) /\ IsAmounts(gains) /\ IsAmounts(realized)
  BY <1>1, <1>2 DEF IsAmounts
<1>7. IsAmounts(costs)
  <2>1. \A p, q \in Int : p * q \in Int
    OBVIOUS
  <2> QED
    BY <1>1, <1>2, <1>3, <2>1 DEF IsAmounts
<1>8. ASSUME NEW s \in Symbols PROVE Part(values, s) = Part(gains, s) + Part(costs, s)
  <2>1. CASE s \in live
    <3>1. /\ Part(values, s) = in.marks[s].price * in.rows[s].qty
          /\ Part(gains, s) = (in.marks[s].price - in.rows[s].cost) * in.rows[s].qty
          /\ Part(costs, s) = in.rows[s].cost * in.rows[s].qty
      BY <1>1, <1>3, <2>1 DEF Part
    <3>2. \A p, k, q \in Int : p * q = (p - k) * q + k * q
      OBVIOUS
    <3>3. in.marks[s].price \in Int /\ in.rows[s].cost \in Int /\ in.rows[s].qty \in Int
      BY <1>2, <1>3, <2>1
    <3> QED
      BY <3>1, <3>2, <3>3
  <2>2. CASE s \notin live
    BY <1>1, <2>2 DEF Part
  <2> QED
    BY <2>1, <2>2
<1> HIDE DEF values, gains, costs, realized, v
<1>9. SumOf(values) = SumOf(gains) + SumOf(costs)
  BY <1>6, <1>7, <1>8, SumsAdd
<1>10. /\ SumOf(values) \in Int /\ SumOf(gains) \in Int /\ SumOf(costs) \in Int
       /\ SumOf(realized) \in Int
  BY <1>6, <1>7, UptoIsInt
<1>11. v.totals.value - v.totals.gain = SumOf(costs)
  BY <1>4, <1>9, <1>10
<1> QED
  BY <1>4, <1>5, <1>6, <1>10, <1>11 DEF mtm, live, values, gains, costs, realized, v

\* A scenario on what a request has read.
LEMMA ScenarioMovesMarks ==
  ASSUME NEW in, NEW c, IsRead(in, c), NEW shocks, shocks \in ShockLists,
         ValidShocks(shocks), MissingMarks(in, shocks) = {}
  PROVE  LET b == AssemblePortfolioView(in)
             x == AssemblePortfolioView(Shocked(in, shocks))
         IN  MovesMarksOnly(b, x, Delta(b, x), shocks)
<1> DEFINE out == Shocked(in, shocks)
           m == in.marks
           n == AfterShocks(m, shocks)[Len(shocks)]
           b == AssemblePortfolioView(in)
           x == AssemblePortfolioView(out)
           d == Delta(b, x)
           Of(s) == CHOOSE i \in DOMAIN shocks : shocks[i].symbol = s
           moved == {shocks[i].symbol : i \in DOMAIN shocks}
           wipedOut == {s \in moved : shocks[Of(s)].value = -Parts}
           liveB == {s \in Open(in.rows) : HasPrice(in, s)}
           liveX == {s \in Open(out.rows) : HasPrice(out, s)}
<1>0. /\ in \in Inputs /\ in.rows \in Books /\ m \in MarkTables
      /\ DOMAIN m \subseteq Open(in.rows)
      /\ Parts \in Nat \ {0}
  BY ValuationAssumption DEF IsRead, Inputs
<1>1. /\ out.rows = in.rows /\ out.cursor = in.cursor /\ out.marks = n
  <2>1. in = [rows |-> in.rows, marks |-> m, cursor |-> in.cursor]
    BY <1>0 DEF Inputs
  <2>2. out = [in EXCEPT !.marks = n]
    BY DEF Shocked
  <2> HIDE DEF n, out
  <2> QED
    BY <2>1, <2>2
<1>2. /\ moved \subseteq DOMAIN m /\ moved \subseteq liveB /\ moved # {}
      /\ \A s \in moved : m[s].price # 0
  <2>1. \A s \in moved : HasPrice(in, s)
    BY DEF MissingMarks
  <2>2. \A s \in moved : s \in DOMAIN m /\ m[s].price # 0 /\ s \in Open(in.rows)
    BY <1>0, <2>1 DEF HasPrice
  <2>3. DOMAIN shocks # {}
    <3>1. shocks \in Seq([symbol : Symbols \cup {0}, value : Int]) /\ shocks # << >>
      <4>1. shocks \in Seq([symbol : Symbols \cup {0}, value : Int])
        BY DEF ShockLists
      <4>2. shocks # << >>
        BY DEF ValidShocks
      <4> QED
        BY <4>1, <4>2
    <3>2. Len(shocks) \in Nat \ {0} /\ DOMAIN shocks = 1..Len(shocks)
      BY <3>1, EmptySeq, LenProperties
    <3>3. 1 \in 1..Len(shocks)
      BY <3>2
    <3> QED
      BY <3>2, <3>3
  <2> QED
    BY <2>1, <2>2, <2>3
<1>3. /\ n \in [DOMAIN m -> [price : Int, event : Nat]]
      /\ \A s \in DOMAIN m : n[s].event = m[s].event /\ (s \notin moved => n[s] = m[s])
      /\ \A i \in DOMAIN shocks :
           Parts * n[shocks[i].symbol].price = m[shocks[i].symbol].price * (Parts + shocks[i].value)
  <2>1. \A i \in DOMAIN shocks : shocks[i].symbol \in DOMAIN m
    BY <1>2
  <2>2. \A s \in DOMAIN m : s \notin moved => \A i \in DOMAIN shocks : shocks[i].symbol # s
    OBVIOUS
  <2>3. /\ n \in [DOMAIN m -> [price : Int, event : Nat]]
        /\ \A s \in DOMAIN m : /\ n[s].event = m[s].event
                               /\ (\A i \in DOMAIN shocks : shocks[i].symbol # s) => n[s] = m[s]
        /\ \A i \in DOMAIN shocks :
             Parts * n[shocks[i].symbol].price
               = m[shocks[i].symbol].price * (Parts + shocks[i].value)
    BY <1>0, <2>1, ShockedMarks
  <2> HIDE DEF n, m, moved
  <2> QED
    BY <2>2, <2>3
<1>4. \A s \in moved : /\ Of(s) \in DOMAIN shocks /\ shocks[Of(s)].symbol = s
                       /\ shocks[Of(s)].value \in Int
  <2>1. \A i \in DOMAIN shocks : shocks[i].value \in Int
    <3>1. \A i \in DOMAIN shocks : shocks[i] \in [symbol : Symbols \cup {0}, value : Int]
      BY ShockFacts
    <3> QED
      BY <3>1
  <2> QED
    BY <2>1
<1>5. \A s \in moved : Parts * n[s].price = m[s].price * (Parts + shocks[Of(s)].value)
  BY <1>3, <1>4
<1>6. /\ \A s \in DOMAIN m : m[s].price \in Nat /\ n[s].price \in Int
      /\ DOMAIN n = DOMAIN m /\ DOMAIN m \subseteq Symbols
  BY <1>0, <1>3, MarkFacts
<1>7. \A s \in moved : n[s].price = 0 <=> shocks[Of(s)].value = -Parts
  <2> SUFFICES ASSUME NEW s \in moved
               PROVE  n[s].price = 0 <=> shocks[Of(s)].value = -Parts
    OBVIOUS
  <2>1. /\ m[s].price \in Nat \ {0} /\ n[s].price \in Int /\ shocks[Of(s)].value \in Int
        /\ Parts * n[s].price = m[s].price * (Parts + shocks[Of(s)].value)
    BY <1>2, <1>4, <1>5, <1>6
  <2>2. \A p, k \in Nat \ {0} : \A q, w \in Int :
          k * q = p * (k + w) => (q = 0 <=> w = -k)
    <3> SUFFICES ASSUME NEW p \in Nat \ {0}, NEW k \in Nat \ {0}, NEW q \in Int, NEW w \in Int,
                        k * q = p * (k + w)
                 PROVE  q = 0 <=> w = -k
      OBVIOUS
    <3>1. \A y \in Nat \ {0} : \A z \in Int : y * z = 0 <=> z = 0
      OBVIOUS
    <3>2. k * q = 0 <=> q = 0
      BY <3>1
    <3>3. p * (k + w) = 0 <=> k + w = 0
      BY <3>1
    <3> QED
      BY <3>2, <3>3
  <2> HIDE DEF n, m, Of, moved
  <2>3. PICK p, q, w : p = m[s].price /\ q = n[s].price /\ w = shocks[Of(s)].value
    OBVIOUS
  <2>4. Parts \in Nat \ {0}
    BY <1>0
  <2>5. p \in Nat \ {0} /\ q \in Int /\ w \in Int /\ Parts * q = p * (Parts + w)
    BY <2>1, <2>3
  <2>6. q = 0 <=> w = -Parts
    BY <2>2, <2>4, <2>5
  <2> QED
    BY <2>3, <2>6
<1>8. /\ liveB = {s \in Open(in.rows) : s \in DOMAIN m /\ m[s].price # 0}
      /\ liveX = {s \in Open(in.rows) : s \in DOMAIN m /\ n[s].price # 0}
  BY <1>1, <1>6 DEF HasPrice
<1>9. liveX = liveB \ wipedOut
  <2>1. ASSUME NEW s \in Open(in.rows)
        PROVE  s \in liveX <=> s \in liveB /\ s \notin wipedOut
    <3>1. CASE s \in moved
      BY <1>2, <1>7, <1>8, <3>1
    <3>2. CASE s \notin moved
      BY <1>3, <1>8, <3>2
    <3> QED
      BY <3>1, <3>2
  <2>2. liveX \subseteq Open(in.rows) /\ liveB \subseteq Open(in.rows)
    BY <1>8
  <2> HIDE DEF liveX, liveB, wipedOut
  <2> QED
    BY <2>1, <2>2
<1> DEFINE bp == b.positions
           xp == x.positions
           bv == [s \in DOMAIN bp |-> bp[s].value]
           xv == [s \in DOMAIN xp |-> xp[s].value]
           mv == [s \in moved |-> bp[s].value * shocks[Of(s)].value]
           costsB == [s \in liveB |-> in.rows[s].cost * in.rows[s].qty]
           costsX == [s \in liveX |-> in.rows[s].cost * in.rows[s].qty]
<1>10. /\ DOMAIN bp = DOMAIN in.rows
       /\ \A s \in DOMAIN in.rows :
            /\ bp[s].row = in.rows[s]
            /\ bp[s].value = (IF s \in liveB THEN m[s].price * in.rows[s].qty ELSE 0)
            /\ bp[s].value \in Int
       /\ b.totals.value = SumOf(bv) /\ IsAmounts(bv)
       /\ b.totals.value \in Int /\ b.totals.gain \in Int
       /\ b.totals.realized = SumOf([s \in DOMAIN in.rows |-> in.rows[s].realized])
       /\ b.totals.realized \in Int
       /\ b.totals.value - b.totals.gain = SumOf(costsB)
  <2>1. \A s \in DOMAIN m : m[s].price \in Int
    BY <1>6
  <2> QED
    BY <1>0, <1>6, <2>1, ViewParts, ViewTotals
<1>11. /\ DOMAIN xp = DOMAIN in.rows
       /\ \A s \in DOMAIN in.rows :
            /\ xp[s].row = in.rows[s]
            /\ xp[s].value = (IF s \in liveX THEN n[s].price * in.rows[s].qty ELSE 0)
            /\ xp[s].value \in Int
       /\ x.totals.value = SumOf(xv) /\ IsAmounts(xv)
       /\ x.totals.value \in Int /\ x.totals.gain \in Int
       /\ x.totals.realized = SumOf([s \in DOMAIN in.rows |-> in.rows[s].realized])
       /\ x.totals.realized \in Int
       /\ x.totals.value - x.totals.gain = SumOf(costsX)
  <2>1. /\ out.rows \in Books /\ DOMAIN out.marks \subseteq Symbols
        /\ \A s \in DOMAIN out.marks : out.marks[s].price \in Int
    BY <1>0, <1>1, <1>6
  <2> HIDE DEF out, n
  <2>2. /\ DOMAIN xp = DOMAIN out.rows
        /\ \A s \in DOMAIN out.rows :
             /\ xp[s].row = out.rows[s]
             /\ xp[s].value = (IF s \in liveX THEN out.marks[s].price * out.rows[s].qty ELSE 0)
             /\ xp[s].value \in Int
    BY <2>1, ViewParts
  <2>3. /\ x.totals.value = SumOf(xv) /\ IsAmounts(xv)
        /\ x.totals.value \in Int /\ x.totals.gain \in Int
        /\ x.totals.realized = SumOf([s \in DOMAIN out.rows |-> out.rows[s].realized])
        /\ x.totals.realized \in Int
        /\ x.totals.value - x.totals.gain
             = SumOf([s \in liveX |-> out.rows[s].cost * out.rows[s].qty])
    BY <2>1, ViewTotals
  <2> HIDE DEF x, liveX
  <2> QED
    BY <1>1, <2>2, <2>3
<1>12. /\ d.value = x.totals.value - b.totals.value
       /\ d.gain = x.totals.gain - b.totals.gain
       /\ d.realized = x.totals.realized - b.totals.realized
  BY DEF Delta
<1>13. /\ b.unpriced = Open(in.rows) \ liveB /\ x.unpriced = Open(in.rows) \ liveX
  <2>1. /\ b.unpriced = {s \in Open(in.rows) : ~HasPrice(in, s)}
        /\ x.unpriced = {s \in Open(out.rows) : ~HasPrice(out, s)}
    BY DEF AssemblePortfolioView
  <2>2. Open(out.rows) = Open(in.rows)
    BY <1>1
  <2> HIDE DEF out, b, x
  <2> QED
    BY <2>1, <2>2
<1>14. ASSUME NEW s \in DOMAIN bp, s \notin moved PROVE xp[s] = bp[s]
  <2>1. bp[s] = MarkToMarket(in, s) /\ xp[s] = MarkToMarket(out, s)
    BY <1>1, <1>10, <1>14 DEF AssemblePortfolioView
  <2>2. (s \in DOMAIN n <=> s \in DOMAIN m) /\ (s \in DOMAIN m => n[s] = m[s])
    BY <1>3, <1>6, <1>14
  <2> HIDE DEF out, n, bp, xp
  <2> QED
    BY <1>1, <2>1, <2>2 DEF MarkToMarket, HasPrice
<1>15. <<x.driving, x.asOfPos, x.asOfPrices, x.asOf>>
         = <<b.driving, b.asOfPos, b.asOfPrices, b.asOf>>
  <2>1. MarkEvents(out) = MarkEvents(in)
    BY <1>1, <1>3, <1>6 DEF MarkEvents
  <2>2. m # None /\ n # None
    BY <1>2, <1>6, NoneIsEmpty
  <2>3. out.cursor = in.cursor /\ out.marks # None /\ in.marks # None
    BY <1>1, <2>2
  <2> HIDE DEF out, n
  <2>4. Driving(out) = Driving(in) /\ AsOf(out) = AsOf(in)
    BY <2>1, <2>3 DEF Driving, AsOf
  <2> QED
    BY <2>1, <2>3, <2>4 DEF AssemblePortfolioView
<1>16. /\ IsAmounts(mv)
       /\ \A s \in Symbols : Parts * Part(xv, s) = Parts * Part(bv, s) + Part(mv, s)
  <2>0. moved \subseteq DOMAIN in.rows /\ DOMAIN in.rows \subseteq Symbols
        /\ \A s \in DOMAIN in.rows : in.rows[s].qty \in Int
    BY <1>0, <1>2, BookFacts DEF Open
  <2>1. IsAmounts(mv)
    <3>1. \A p, q \in Int : p * q \in Int
      OBVIOUS
    <3> HIDE DEF moved, Of, bp
    <3> QED
      BY <1>4, <1>10, <2>0, <3>1 DEF IsAmounts
  <2>2. ASSUME NEW s \in moved
        PROVE  Parts * Part(xv, s) = Parts * Part(bv, s) + Part(mv, s)
    <3>1. bp[s].value = m[s].price * in.rows[s].qty
      BY <1>2, <1>10, <2>0
    <3>2. xp[s].value = n[s].price * in.rows[s].qty
      <4>1. CASE s \in liveX
        BY <1>11, <2>0, <4>1
      <4>2. CASE s \notin liveX
        <5>1. n[s].price = 0
          BY <1>2, <1>7, <1>9, <4>2
        <5>2. xp[s].value = 0
          BY <1>11, <2>0, <4>2
        <5>3. \A q \in Int : 0 * q = 0
          OBVIOUS
        <5> HIDE DEF xp, n, moved
        <5> QED
          BY <2>0, <5>1, <5>2, <5>3
      <4> QED
        BY <4>1, <4>2
    <3>3. /\ Part(xv, s) = xp[s].value /\ Part(bv, s) = bp[s].value
          /\ Part(mv, s) = bp[s].value * shocks[Of(s)].value
      <4> HIDE DEF xp, bp, moved, Of
      <4> QED
        BY <1>10, <1>11, <2>0 DEF Part
    <3>4. \A k, p, q, w, y \in Int : k * y = p * (k + w) => k * (y * q) = k * (p * q) + (p * q) * w
      <4> SUFFICES ASSUME NEW k \in Int, NEW p \in Int, NEW q \in Int, NEW w \in Int,
                          NEW y \in Int, k * y = p * (k + w)
                   PROVE  k * (y * q) = k * (p * q) + (p * q) * w
        OBVIOUS
      <4>1. k * (y * q) = (k * y) * q
        OBVIOUS
      <4>2. (p * (k + w)) * q = k * (p * q) + (p * q) * w
        OBVIOUS
      <4> QED
        BY <4>1, <4>2
    <3>5. /\ Parts \in Int /\ m[s].price \in Int /\ n[s].price \in Int
          /\ in.rows[s].qty \in Int /\ shocks[Of(s)].value \in Int
          /\ Parts * n[s].price = m[s].price * (Parts + shocks[Of(s)].value)
      <4> HIDE DEF n, m, Of, moved
      <4>1. s \in DOMAIN m /\ s \in DOMAIN in.rows
        BY <1>2, <2>0
      <4>2. m[s].price \in Nat /\ n[s].price \in Int /\ in.rows[s].qty \in Int
        BY <1>6, <2>0, <4>1
      <4> QED
        BY <1>0, <1>4, <1>5, <4>2
    <3> HIDE DEF xp, bp, n, m, Of, moved, xv, bv, mv
    <3>6. PICK p, q, w, y : /\ p = m[s].price /\ y = n[s].price
                            /\ q = in.rows[s].qty /\ w = shocks[Of(s)].value
      OBVIOUS
    <3>7. /\ Parts \in Int /\ p \in Int /\ q \in Int /\ w \in Int /\ y \in Int
          /\ Parts * y = p * (Parts + w)
      BY <3>5, <3>6
    <3>8. Parts * (y * q) = Parts * (p * q) + (p * q) * w
      BY <3>4, <3>7
    <3>9. Part(xv, s) = y * q /\ Part(bv, s) = p * q /\ Part(mv, s) = (p * q) * w
      BY <3>1, <3>2, <3>3, <3>6
    <3> QED
      BY <3>8, <3>9
  <2>3. ASSUME NEW s \in Symbols, s \notin moved
        PROVE  Parts * Part(xv, s) = Parts * Part(bv, s) + Part(mv, s)
    <3>1. Part(xv, s) = Part(bv, s)
      <4> HIDE DEF xp, bp
      <4> QED
        BY <1>10, <1>11, <1>14, <2>3 DEF Part
    <3>2. Part(mv, s) = 0
      BY <2>3 DEF Part
    <3>3. Parts * Part(bv, s) \in Int
      BY <1>0, <1>10, PartIsInt
    <3> HIDE DEF xv, bv, mv
    <3> QED
      BY <3>1, <3>2, <3>3
  <2> QED
    BY <2>1, <2>2, <2>3
<1> HIDE DEF bv, xv, mv, costsB, costsX
<1>17. d.value * Parts = SumOf(mv)
  <2> DEFINE bs == [s \in Symbols |-> Parts * Part(bv, s)]
             xs == [s \in Symbols |-> Parts * Part(xv, s)]
  <2>1. \A s \in Symbols : Part(bv, s) \in Int /\ Part(xv, s) \in Int
    BY <1>10, <1>11, PartIsInt
  <2>2. \A p, q \in Int : p * q \in Int
    OBVIOUS
  <2>3. IsAmounts(bs) /\ IsAmounts(xs)
    BY <1>0, <2>1, <2>2 DEF IsAmounts
  <2>4. \A s \in Symbols : /\ Part(bs, s) = Parts * Part(bv, s)
                           /\ Part(xs, s) = Parts * Part(xv, s)
    BY DEF Part
  <2> HIDE DEF bs, xs, bp, xp, b, x, moved, d
  <2>5. SumOf(bs) = Parts * SumOf(bv) /\ SumOf(xs) = Parts * SumOf(xv)
    BY <1>0, <1>10, <1>11, <2>3, <2>4, SumsScale
  <2>6. SumOf(xs) = SumOf(bs) + SumOf(mv)
    BY <1>16, <2>3, <2>4, SumsAdd
  <2>7. SumOf(mv) \in Int /\ SumOf(bv) \in Int /\ SumOf(xv) \in Int
    BY <1>10, <1>11, <1>16, UptoIsInt
  <2>8. \A k, p, q, y \in Int : k * p = k * q + y => (p - q) * k = y
    OBVIOUS
  <2>9. (SumOf(xv) - SumOf(bv)) * Parts = SumOf(mv)
    BY <1>0, <2>5, <2>6, <2>7, <2>8
  <2> QED
    BY <1>10, <1>11, <1>12, <2>9
<1>18. wipedOut = {} => d.gain = d.value
  <2> SUFFICES ASSUME wipedOut = {} PROVE d.gain = d.value
    OBVIOUS
  <2>1. liveX = liveB
    BY <1>9
  <2>2. costsX = costsB
    BY <2>1 DEF costsX, costsB
  <2>3. \A u, v, w, z \in Int : u - v = w - z => v - z = u - w
    OBVIOUS
  <2> HIDE DEF d, b, x
  <2>4. x.totals.value - x.totals.gain = b.totals.value - b.totals.gain
    BY <1>10, <1>11, <2>2
  <2>5. x.totals.gain - b.totals.gain = x.totals.value - b.totals.value
    <3>1. /\ x.totals.value \in Int /\ x.totals.gain \in Int
          /\ b.totals.value \in Int /\ b.totals.gain \in Int
      BY <1>10, <1>11
    <3> QED
      BY <2>3, <2>4, <3>1
  <2> QED
    BY <1>12, <2>5
<1>19. d.realized = 0
  <2> HIDE DEF d, b, x
  <2> QED
    BY <1>10, <1>11, <1>12
<1>20. x.unpriced = b.unpriced \cup wipedOut
  <2>1. wipedOut \subseteq Open(in.rows) /\ wipedOut \subseteq liveB /\ liveB \subseteq Open(in.rows)
    BY <1>2
  <2> HIDE DEF b, x, liveB, liveX, wipedOut
  <2> QED
    BY <1>9, <1>13, <2>1
<1>21. \A s \in DOMAIN bp : xp[s].row = bp[s].row /\ (s \notin moved => xp[s] = bp[s])
  BY <1>10, <1>11, <1>14
<1> HIDE DEF d, b, x, wipedOut, moved, Of
<1> QED
  BY <1>15, <1>17, <1>18, <1>19, <1>20, <1>21
  DEF MovesMarksOnly, d, b, x, wipedOut, moved, Of, mv, bp, xp

-----------------------------------------------------------------------------
(* Risk.                                                                   *)

\* Rounding to a multiple of 1/Scale is off by half of it at most.
LEMMA WeightFacts ==
  ASSUME NEW e \in Nat, NEW total \in Nat, total > 0
  PROVE  /\ Weight(e, total) \in Nat
         /\ (2 * total) * Weight(e, total) <= (2 * Scale) * e + total
         /\ (2 * Scale) * e <= (2 * total) * Weight(e, total) + total
<1>1. Scale \in Nat \ {0}
  BY ValuationAssumption
<1> PICK y : y = 2 * e * Scale + total
  OBVIOUS
<1>2. y \in Nat /\ y = (2 * Scale) * e + total
  BY <1>1
<1> PICK d : d = 2 * total
  OBVIOUS
<1>3. d \in Nat /\ d > 0
  OBVIOUS
<1>4. Weight(e, total) = y \div d
  BY DEF Weight
<1>5. y \div d \in Int /\ d * (y \div d) <= y /\ y < d * (y \div d) + d
  BY <1>2, <1>3, SMT
<1> PICK w : w = y \div d
  OBVIOUS
<1>6. w \in Nat /\ d * w <= y /\ y < d * w + d
  <2>1. w \in Int /\ d * w <= y /\ y < d * w + d
    BY <1>5
  <2>2. \A k \in Nat \ {0} : \A q \in Int : 0 < k * q + k => q >= 0
    <3> SUFFICES ASSUME NEW k \in Nat \ {0}, NEW q \in Int, q < 0 PROVE k * q + k <= 0
      OBVIOUS
    <3>1. k * q + k = k * (q + 1)
      OBVIOUS
    <3>2. \A z \in Int : z <= 0 => k * z <= 0
      OBVIOUS
    <3> QED
      BY <3>1, <3>2
  <2>3. d \in Nat \ {0} /\ 0 < d * w + d
    BY <1>2, <1>3, <2>1
  <2> QED
    BY <2>1, <2>2, <2>3
<1>7. (2 * Scale) * e \in Nat /\ d * w \in Nat
  BY <1>1, <1>3, <1>6
<1>8. (2 * Scale) * e <= d * w + total
  BY <1>2, <1>6, <1>7
<1> QED
  BY <1>2, <1>4, <1>6, <1>8

\* The snapshot of the book that was read.
LEMMA SnapshotCovers ==
  ASSUME NEW in, NEW c, IsRead(in, c),
         \A s \in Open(in.rows) : HasPrice(in, s),
         NEW sigma, DOMAIN sigma = Open(in.rows),
         NEW samples, \A s \in Open(in.rows) : Enough(samples[s])
  PROVE  CoversTheBook(in, AssemblePortfolioView(in), samples, BuildSnapshot(in, sigma))
<1> DEFINE open == Open(in.rows)
           v == AssemblePortfolioView(in)
           exposure == [s \in open |-> in.rows[s].qty * in.marks[s].price]
           total == SumOf(exposure)
           weights == [s \in DOMAIN exposure |-> Weight(exposure[s], total)]
           squares == [s \in DOMAIN weights |-> Square(weights[s])]
           ones == [s \in open |-> 1]
           n == Cardinality(open)
           sum == SumOf(weights)
           top == TopByWeight(weights)
           r == BuildSnapshot(in, sigma)
<1>0. /\ in.rows \in Books /\ in.marks \in MarkTables /\ DOMAIN in.marks \subseteq Symbols
      /\ \A s \in DOMAIN in.marks : in.marks[s].price \in Nat
      /\ open \subseteq Symbols /\ open \subseteq DOMAIN in.rows
      /\ \A s \in open : /\ in.rows[s].qty \in Nat \ {0}
                         /\ s \in DOMAIN in.marks /\ in.marks[s].price \in Nat \ {0}
  <2>1. in.rows \in Books /\ in.marks \in MarkTables
    BY DEF IsRead, Inputs
  <2>2. /\ DOMAIN in.rows \subseteq Symbols /\ DOMAIN in.marks \subseteq Symbols
        /\ \A s \in DOMAIN in.rows : in.rows[s].qty \in Nat
        /\ \A s \in DOMAIN in.marks : in.marks[s].price \in Nat
    BY <2>1, BookFacts, MarkFacts
  <2> QED
    BY <2>1, <2>2 DEF Open, HasPrice
<1>1. /\ r.exposure = exposure /\ r.total = total /\ r.weights = weights /\ r.sigma = sigma
      /\ r.hhi = SumOf(squares) /\ r.top = top
  BY DEF BuildSnapshot
<1> HIDE DEF r
<1>2. \A s \in open : exposure[s] \in Nat \ {0}
  <2>1. \A p, q \in Nat \ {0} : p * q \in Nat \ {0}
    OBVIOUS
  <2> HIDE DEF open
  <2> QED
    BY <1>0, <2>1
<1>3. IsAmounts(exposure) /\ IsAmounts(ones)
  <2>1. \A s \in open : exposure[s] \in Int
    BY <1>2
  <2> HIDE DEF open
  <2> QED
    BY <1>0, <2>1 DEF IsAmounts
<1>4. total = v.totals.value /\ v.unpriced = {}
  <2> DEFINE values == [s \in DOMAIN v.positions |-> v.positions[s].value]
  <2>1. \A s \in DOMAIN in.marks : in.marks[s].price \in Int
    BY <1>0
  <2>2. v.totals.value = SumOf(values) /\ IsAmounts(values)
    BY <1>0, <2>1, ViewTotals
  <2>3. /\ DOMAIN v.positions = DOMAIN in.rows
        /\ \A s \in DOMAIN in.rows :
             v.positions[s].value = IF s \in open THEN in.marks[s].price * in.rows[s].qty ELSE 0
    <3>1. {s \in Open(in.rows) : HasPrice(in, s)} = open
      OBVIOUS
    <3> QED
      BY <1>0, <2>1, <3>1, ViewParts
  <2>4. ASSUME NEW s \in Symbols PROVE Part(values, s) = Part(exposure, s)
    <3>1. \A p, q \in Nat : p * q = q * p
      OBVIOUS
    <3> HIDE DEF open, v
    <3>2. CASE s \in open
      BY <1>0, <2>3, <3>1, <3>2 DEF Part
    <3>3. CASE s \notin open
      BY <1>0, <2>3, <3>3 DEF Part
    <3> QED
      BY <3>2, <3>3
  <2>5. SumOf(values) = total
    <3> HIDE DEF values, exposure
    <3> QED
      BY <1>3, <2>2, <2>4, SumsAgree
  <2>6. v.unpriced = {}
    BY DEF AssemblePortfolioView
  <2> QED
    BY <2>2, <2>5, <2>6
<1>5. n \in Nat /\ SumOf(ones) = n
  <2> HIDE DEF open
  <2> QED
    BY <1>0, SumOfOnes
<1>6. total \in Nat /\ n <= total
  <2>1. ASSUME NEW s \in Symbols PROVE Part(ones, s) <= Part(exposure, s)
    BY <1>2 DEF Part
  <2>2. total \in Int /\ SumOf(ones) <= total
    <3> HIDE DEF ones, exposure
    <3> QED
      BY <1>3, <2>1, SumsCompare, UptoIsInt
  <2> HIDE DEF total, n, ones
  <2> QED
    BY <1>5, <2>2
<1>7. open # {} => total > 0
  <2> SUFFICES ASSUME open # {} PROVE total > 0
    OBVIOUS
  <2>1. IsFiniteSet(open)
    <3>1. IsFiniteSet(Symbols)
      BY ValuationAssumption
    <3> HIDE DEF open
    <3> QED
      BY <1>0, <3>1, FS_Subset
  <2>2. n # 0
    <3> HIDE DEF open
    <3> QED
      BY <2>1, FS_EmptySet
  <2> HIDE DEF n, total, open
  <2> QED
    BY <1>5, <1>6, <2>2
<1>8. ASSUME NEW s \in open
      PROVE  /\ weights[s] \in Nat
             /\ (2 * total) * weights[s] <= (2 * Scale) * exposure[s] + total
             /\ (2 * Scale) * exposure[s] <= (2 * total) * weights[s] + total
  <2>1. weights[s] = Weight(exposure[s], total)
    OBVIOUS
  <2>2. total \in Nat /\ total > 0 /\ exposure[s] \in Nat
    BY <1>2, <1>6, <1>7
  <2> HIDE DEF weights, exposure, total
  <2> QED
    BY <2>1, <2>2, WeightFacts
<1>9. DOMAIN weights = open /\ DOMAIN exposure = open
  OBVIOUS
<1>10. DOMAIN squares = open /\ \A s \in open : squares[s] = weights[s] * weights[s]
  BY <1>9 DEF Square
<1>11. open \subseteq Symbols /\ IsFiniteSet(open)
  <2>1. IsFiniteSet(Symbols)
    BY ValuationAssumption
  <2> HIDE DEF open
  <2> QED
    BY <1>0, <2>1, FS_Subset
<1>12. top = {s \in open : Cardinality({t \in open : Outranks(weights, t, s)}) < TopN}
  BY <1>9 DEF TopByWeight
<1>13. /\ \A s \in open : /\ Part(weights, s) = weights[s] /\ Part(exposure, s) = exposure[s]
                        /\ Part(squares, s) = squares[s] /\ Part(ones, s) = 1
       /\ \A s : s \notin open => /\ Part(weights, s) = 0 /\ Part(exposure, s) = 0
                                /\ Part(squares, s) = 0 /\ Part(ones, s) = 0
  BY <1>9, <1>10 DEF Part
<1> HIDE DEF weights, exposure, squares, ones, total, sum, n, open, v
<1>14. IsAmounts(weights) /\ IsAmounts(squares) /\ sum \in Int
  <2>1. \A s \in open : weights[s] \in Int
    BY <1>8
  <2>2. \A s \in open : squares[s] \in Int
    <3>1. \A p \in Int : p * p \in Int
      OBVIOUS
    <3> QED
      BY <1>10, <2>1, <3>1
  <2>3. IsAmounts(weights) /\ IsAmounts(squares)
    BY <1>9, <1>10, <1>11, <2>1, <2>2 DEF IsAmounts
  <2> QED
    BY <2>3, UptoIsInt DEF sum
<1>15. Scale \in Nat \ {0} /\ TopN \in Nat \ {0}
  BY ValuationAssumption
<1>16. ASSUME open # {} PROVE 2 * sum \in (2 * Scale - n)..(2 * Scale + n)
  <2> DEFINE W == [s \in Symbols |-> (2 * total) * Part(weights, s)]
             E == [s \in Symbols |-> (2 * Scale) * Part(exposure, s)]
             N == [s \in Symbols |-> total * Part(ones, s)]
             EN == [s \in Symbols |-> Part(E, s) + Part(N, s)]
             WN == [s \in Symbols |-> Part(W, s) + Part(N, s)]
  <2>1. /\ \A s \in Symbols : /\ Part(weights, s) \in Int /\ Part(exposure, s) \in Int
                             /\ Part(ones, s) \in Int
        /\ total \in Int /\ 2 * total \in Int /\ 2 * Scale \in Int
    BY <1>3, <1>6, <1>14, <1>15, PartIsInt
  <2>2. /\ \A s \in Symbols : /\ Part(W, s) = (2 * total) * Part(weights, s)
                             /\ Part(E, s) = (2 * Scale) * Part(exposure, s)
                             /\ Part(N, s) = total * Part(ones, s)
    BY DEF Part
  <2>3. IsAmounts(W) /\ IsAmounts(E) /\ IsAmounts(N)
    <3>1. \A p, q \in Int : p * q \in Int
      OBVIOUS
    <3>2. /\ \A s \in Symbols : (2 * total) * Part(weights, s) \in Int
          /\ \A s \in Symbols : (2 * Scale) * Part(exposure, s) \in Int
          /\ \A s \in Symbols : total * Part(ones, s) \in Int
      BY <2>1, <3>1
    <3> QED
      BY <3>2 DEF IsAmounts
  <2> HIDE DEF W, E, N
  <2>4. /\ \A s \in Symbols : Part(EN, s) = Part(E, s) + Part(N, s)
        /\ \A s \in Symbols : Part(WN, s) = Part(W, s) + Part(N, s)
    BY DEF Part
  <2>5. IsAmounts(EN) /\ IsAmounts(WN)
    <3>1. \A s \in Symbols : Part(E, s) + Part(N, s) \in Int /\ Part(W, s) + Part(N, s) \in Int
      BY <2>3, PartIsInt
    <3> QED
      BY <3>1 DEF IsAmounts
  <2> HIDE DEF EN, WN
  <2>6. /\ SumOf(W) = (2 * total) * sum
        /\ SumOf(E) = (2 * Scale) * total
        /\ SumOf(N) = total * n
    <3>1. SumOf(W) = (2 * total) * SumOf(weights)
      BY <1>14, <2>1, <2>2, <2>3, SumsScale
    <3>2. SumOf(E) = (2 * Scale) * SumOf(exposure)
      BY <1>3, <2>1, <2>2, <2>3, SumsScale
    <3>3. SumOf(N) = total * SumOf(ones)
      BY <1>3, <2>1, <2>2, <2>3, SumsScale
    <3> QED
      BY <1>5, <3>1, <3>2, <3>3 DEF sum, total
  <2>7. SumOf(EN) = SumOf(E) + SumOf(N) /\ SumOf(WN) = SumOf(W) + SumOf(N)
    BY <2>3, <2>4, <2>5, SumsAdd
  <2>8. ASSUME NEW s \in Symbols PROVE Part(W, s) <= Part(EN, s) /\ Part(E, s) <= Part(WN, s)
    <3>1. CASE s \in open
      <4>1. /\ Part(W, s) = (2 * total) * weights[s]
            /\ Part(E, s) = (2 * Scale) * exposure[s]
            /\ Part(N, s) = total
        <5>1. total * 1 = total
          BY <2>1
        <5> QED
          BY <1>13, <2>2, <3>1, <5>1
      <4> QED
        BY <1>8, <2>4, <3>1, <4>1
    <3>2. CASE s \notin open
      <4>1. Part(W, s) = 0 /\ Part(E, s) = 0 /\ Part(N, s) = 0
        <5>1. \A p \in Int : p * 0 = 0
          OBVIOUS
        <5>2. /\ Part(W, s) = (2 * total) * 0 /\ Part(E, s) = (2 * Scale) * 0
              /\ Part(N, s) = total * 0
          BY <1>13, <2>2, <3>2
        <5> QED
          BY <2>1, <5>1, <5>2
      <4> QED
        BY <2>4, <4>1
    <3> QED
      BY <3>1, <3>2
  <2>9. SumOf(W) <= SumOf(EN) /\ SumOf(E) <= SumOf(WN)
    BY <2>3, <2>5, <2>8, SumsCompare
  <2>10. /\ (2 * total) * sum <= (2 * Scale) * total + total * n
         /\ (2 * Scale) * total <= (2 * total) * sum + total * n
    BY <2>6, <2>7, <2>9
  <2>11. \A k \in Nat \ {0} : \A w, e, m \in Int :
           /\ (2 * k) * w <= e * k + k * m => 2 * w <= e + m
           /\ e * k <= (2 * k) * w + k * m => e <= 2 * w + m
    <3> SUFFICES ASSUME NEW k \in Nat \ {0}, NEW w \in Int, NEW e \in Int, NEW m \in Int
                 PROVE  /\ (2 * k) * w <= e * k + k * m => 2 * w <= e + m
                        /\ e * k <= (2 * k) * w + k * m => e <= 2 * w + m
      OBVIOUS
    <3>1. /\ (2 * k) * w = k * (2 * w) /\ e * k + k * m = k * (e + m) /\ e * k = k * e
          /\ (2 * k) * w + k * m = k * (2 * w + m)
      OBVIOUS
    <3>2. \A y, z \in Int : k * y <= k * z => y <= z
      OBVIOUS
    <3> QED
      BY <3>1, <3>2
  <2>12. total \in Nat \ {0} /\ n \in Int /\ 2 * Scale \in Int
    BY <1>5, <1>6, <1>7, <1>15, <1>16
  <2>13. 2 * sum <= 2 * Scale + n /\ 2 * Scale <= 2 * sum + n
    BY <1>14, <2>10, <2>11, <2>12
  <2> QED
    BY <1>5, <1>14, <1>15, <2>13
<1>17. SumOf(squares) <= sum * sum
  <2>1. ASSUME NEW s \in open PROVE weights[s] <= sum
    <3> DEFINE f == [t \in {s} |-> 1]
               g == [t \in {s} |-> weights[s]]
    <3>1. weights[s] \in Nat /\ s \in Symbols
      BY <1>8, <1>11
    <3>2. IsAmounts(f) /\ IsAmounts(g) /\ \A t \in Symbols : Part(g, t) = weights[s] * Part(f, t)
      BY <3>1 DEF IsAmounts, Part
    <3>3. SumOf(f) = 1
      <4>1. SumOf([t \in {s} |-> 1]) = Cardinality({s})
        BY <3>1, SumOfOnes
      <4> QED
        BY <4>1, FS_Singleton
    <3>4. ASSUME NEW t \in Symbols PROVE Part(g, t) <= Part(weights, t)
      <4>1. CASE t = s
        <5>1. Part(g, t) = weights[s] /\ Part(weights, t) = weights[s]
          BY <1>13, <4>1 DEF Part
        <5> QED
          BY <3>1, <5>1
      <4>2. CASE t # s
        <5>1. Part(g, t) = 0
          BY <4>2 DEF Part
        <5>2. Part(weights, t) \in Nat
          BY <1>8, <1>13
        <5> QED
          BY <5>1, <5>2
      <4> QED
        BY <4>1, <4>2
    <3> HIDE DEF f, g
    <3>5. SumOf(g) = weights[s] * SumOf(f)
      BY <3>1, <3>2, SumsScale
    <3>6. SumOf(g) <= sum
      BY <1>14, <3>2, <3>4, SumsCompare DEF sum
    <3> QED
      BY <3>1, <3>3, <3>5, <3>6
  <2> DEFINE W == [s \in Symbols |-> sum * Part(weights, s)]
  <2>2. \A s \in Symbols : Part(weights, s) \in Int /\ Part(W, s) = sum * Part(weights, s)
    BY <1>14, PartIsInt DEF Part
  <2>3. IsAmounts(W)
    <3>1. \A p, q \in Int : p * q \in Int
      OBVIOUS
    <3>2. \A s \in Symbols : sum * Part(weights, s) \in Int
      BY <1>14, <2>2, <3>1
    <3> QED
      BY <3>2 DEF IsAmounts
  <2> HIDE DEF W
  <2>4. ASSUME NEW s \in Symbols PROVE Part(squares, s) <= Part(W, s)
    <3>1. CASE s \in open
      <4>1. Part(squares, s) = weights[s] * weights[s] /\ Part(W, s) = sum * weights[s]
        BY <1>10, <1>13, <2>2, <3>1
      <4>2. \A p \in Nat : \A q \in Int : p <= q => p * p <= q * p
        OBVIOUS
      <4> QED
        BY <1>8, <1>14, <2>1, <3>1, <4>1, <4>2
    <3>2. CASE s \notin open
      <4>1. Part(squares, s) = 0 /\ Part(W, s) = sum * 0
        BY <1>13, <2>2, <3>2
      <4> QED
        BY <1>14, <4>1
    <3> QED
      BY <3>1, <3>2
  <2>5. SumOf(W) = sum * sum
    BY <1>14, <2>2, <2>3, SumsScale DEF sum
  <2>6. SumOf(squares) <= SumOf(W)
    BY <1>14, <2>3, <2>4, SumsCompare
  <2> QED
    BY <2>5, <2>6
<1>18. ASSUME NEW s \in open \ top
       PROVE  /\ \A t \in top : weights[s] <= weights[t]
              /\ Cardinality(top) = TopN
  <2> DEFINE R == {p \in open \X open : Outranks(weights, p[1], p[2])}
  <2>1. \A t, u \in open : <<t, u>> \in R <=> Outranks(weights, t, u)
    OBVIOUS
  <2>2. \A t \in open : weights[t] \in Nat /\ t \in Nat
    <3>1. Symbols \subseteq Nat
      BY ValuationAssumption
    <3> QED
      BY <1>8, <1>11, <3>1
  <2>3. IsOrder(open, R)
    <3>1. /\ \A t \in open : ~Outranks(weights, t, t)
          /\ \A t, u \in open : t = u \/ Outranks(weights, t, u) \/ Outranks(weights, u, t)
          /\ \A t, u, z \in open : Outranks(weights, t, u) /\ Outranks(weights, u, z)
                                   => Outranks(weights, t, z)
      BY <2>2 DEF Outranks
    <3> HIDE DEF R
    <3> QED
      BY <2>1, <3>1 DEF IsOrder
  <2> HIDE DEF R
  <2>4. \A t \in open : Cardinality({u \in open : Outranks(weights, u, t)}) = Rank(open, R, t)
    BY <2>1 DEF Rank
  <2>5. top = {t \in open : Rank(open, R, t) < TopN}
    BY <1>12, <2>4
  <2>6. /\ \A t \in open : Rank(open, R, t) \in 0..n - 1
        /\ \A t, u \in open : <<t, u>> \in R => Rank(open, R, t) < Rank(open, R, u)
    BY <1>11, <2>3, RankFacts DEF n
  <2>7. s \in open /\ ~(Rank(open, R, s) < TopN)
    BY <1>18, <2>5
  <2>8. ASSUME NEW t \in top PROVE weights[s] <= weights[t]
    <3>1. t \in open /\ Rank(open, R, t) < TopN
      BY <2>5
    <3>2. ~Outranks(weights, s, t)
      <4>1. Rank(open, R, t) \in Nat /\ Rank(open, R, s) \in Nat
        BY <1>5, <2>6, <2>7, <3>1
      <4>2. ASSUME Outranks(weights, s, t) PROVE Rank(open, R, s) < Rank(open, R, t)
        <5>1. <<s, t>> \in R
          BY <2>1, <2>7, <3>1, <4>2
        <5> QED
          BY <2>6, <2>7, <3>1, <5>1
      <4>3. \A i, j \in Nat : j < TopN /\ ~(i < TopN) => ~(i < j)
        BY <1>15
      <4> QED
        BY <2>7, <3>1, <4>1, <4>2, <4>3
    <3> QED
      BY <2>2, <2>7, <3>1, <3>2 DEF Outranks
  <2> DEFINE A == 0..TopN - 1
  <2>9. TopN <= n - 1
    BY <1>5, <1>15, <2>6, <2>7
  <2>10. A \subseteq 0..n - 1 /\ top = {t \in open : Rank(open, R, t) \in A}
    <3>1. \A t \in open : Rank(open, R, t) < TopN <=> Rank(open, R, t) \in A
      BY <1>5, <1>15, <2>6
    <3>2. A \subseteq 0..n - 1
      BY <1>5, <1>15, <2>9
    <3> HIDE DEF A, top
    <3> QED
      BY <2>5, <3>1, <3>2
  <2>11. Cardinality(A) = TopN
    <3>1. 0 \in Int /\ TopN - 1 \in Int /\ ~(0 > TopN - 1) /\ (TopN - 1) - 0 + 1 = TopN
      BY <1>15
    <3> QED
      BY <3>1, FS_Interval
  <2>12. Cardinality(top) = Cardinality(A)
    <3>1. A \subseteq 0..Cardinality(open) - 1
      BY <2>10 DEF n
    <3> HIDE DEF A, top
    <3>2. Cardinality(OfRanks(open, R, A)) = Cardinality(A)
      BY <1>11, <2>3, <3>1, RanksCount
    <3> QED
      BY <2>10, <3>2 DEF OfRanks
  <2> QED
    BY <2>8, <2>11, <2>12
<1> HIDE DEF top
<1> QED
  BY <1>1, <1>4, <1>9, <1>16, <1>17, <1>18
  DEF CoversTheBook, open, n, sum, top, v, r

-----------------------------------------------------------------------------
(* The inductive invariant.                                                *)

\* The rows are those that the cursor's batch left.
BookInv ==
  /\ catalogued \in BOOLEAN /\ logged \subseteq Symbols
  /\ last \in LastEvent0..LastEvent0 + MaxCommits
  /\ positions \in Books /\ DOMAIN positions \subseteq logged
  /\ cursor \in 0..last /\ DOMAIN books \subseteq 1..last
  /\ IF cursor = NoEvent THEN positions = None
     ELSE cursor \in DOMAIN books /\ books[cursor] = positions

\* The marks say what their events said.
MarkInv ==
  /\ marks \in MarkTables /\ AreQuoted(marks)
  /\ DOMAIN quoted \subseteq 1..last

\* The days of one symbol, if any: only the first has no return.
IsHistory(days) ==
  /\ days \in Seq([event : Nat, ret : SUBSET Changes])
  /\ Len(days) <= Window
  /\ \A i \in DOMAIN days : i # 1 => days[i].ret # {}

\* The newest day is that of the mark.
DaysInv ==
  /\ DOMAIN returns = Symbols
  /\ \A s \in Symbols :
       /\ IsHistory(returns[s])
       /\ returns[s] = << >> <=> s \notin DOMAIN marks
       /\ s \in DOMAIN marks => returns[s][Len(returns[s])].event = marks[s].event

HasTwoReturns(days) ==
  \E i, j \in DOMAIN days : i < j /\ days[i].ret # {} /\ days[j].ret # {}

PortfolioKinds == {"view", "risk", "scenario", "explain"}

\* A request as it was accepted.
IsAsked(r) ==
  /\ r.kind \in PortfolioKinds /\ r.shocks \in ShockLists
  /\ r.kind = "scenario" => ValidShocks(r.shocks)

\* What a request holds at each stage: rows of one book with quoted marks, every
\* open position priced, and later two returns of each, which no commit takes away.
PortfolioInv ==
  /\ req.at \in {"exists", "positions"} =>
       /\ req = [at |-> req.at, kind |-> req.kind, shocks |-> req.shocks]
       /\ IsAsked(req)
  /\ req.at \in {"marks", "cursor"} =>
       /\ req = [at |-> req.at, kind |-> req.kind, shocks |-> req.shocks, in |-> req.in]
       /\ IsAsked(req) /\ IsRead(req.in, cursor)
  /\ req.at \in {"counts", "sigmas", "build"} =>
       /\ req = [at |-> req.at, kind |-> req.kind, in |-> req.in,
                 sigma |-> req.sigma, samples |-> req.samples]
       /\ IsRead(req.in, req.in.cursor)
       /\ \A s \in Open(req.in.rows) : HasPrice(req.in, s)
  /\ req.at = "sigmas" => \A s \in Open(req.in.rows) : HasTwoReturns(returns[s])
  /\ req.at = "build" => /\ DOMAIN req.sigma = Open(req.in.rows)
                         /\ \A s \in Open(req.in.rows) : Enough(req.samples[s])

\* What the price list has counted and the detail has read is still there.
PriceInv ==
  /\ req.at \in {"count", "list"} => req.limit \in Limits /\ req.offset \in Offsets
  /\ req.at = "list" => req.total \in 0..Cardinality(DOMAIN marks)
  /\ req.at = "head" => req.symbol \in Symbols
  /\ req.at = "history" => /\ req.symbol \in DOMAIN marks
                           /\ req.head \in 1..marks[req.symbol].event

ReqInv == req.at \in Stages /\ PortfolioInv /\ PriceInv

IInv == BookInv /\ MarkInv /\ DaysInv /\ ReqInv

-----------------------------------------------------------------------------
(* Histories and their samples.                                            *)

\* A set has two members when it has two different ones.
LEMMA TwoMembers ==
  ASSUME NEW S, IsFiniteSet(S)
  PROVE  Cardinality(S) >= 2 <=> \E x, y \in S : x # y
<1>1. ASSUME NEW x \in S, NEW y \in S, x # y PROVE Cardinality(S) >= 2
  <2>1. IsFiniteSet({x}) /\ Cardinality({x}) = 1
    BY FS_Singleton
  <2>2. IsFiniteSet({x} \cup {y}) /\ Cardinality({x} \cup {y}) = 2
    <3>1. y \notin {x}
      BY <1>1
    <3>2. \A S1, a : IsFiniteSet(S1) /\ a \notin S1 =>
            IsFiniteSet(S1 \cup {a}) /\ Cardinality(S1 \cup {a}) = Cardinality(S1) + 1
      BY FS_AddElement
    <3>3. /\ IsFiniteSet({x} \cup {y})
          /\ Cardinality({x} \cup {y}) = Cardinality({x}) + 1
      BY <2>1, <3>1, <3>2, Zenon
    <3> QED
      BY <2>1, <3>3
  <2>3. Cardinality({x} \cup {y}) <= Cardinality(S)
    BY FS_Subset
  <2> QED
    BY <2>2, <2>3, FS_CardinalityType
<1>2. ASSUME \A x, y \in S : x = y PROVE ~(Cardinality(S) >= 2)
  <2>1. CASE S = {}
    BY <2>1, FS_EmptySet
  <2>2. CASE S # {}
    <3>1. PICK x \in S : S = {x}
      BY <1>2, <2>2
    <3>2. Cardinality(S) = 1
      BY <3>1, FS_Singleton
    <3> QED
      BY <3>2
  <2> QED
    BY <2>1, <2>2
<1> QED
  BY <1>1, <1>2

\* Two samples are enough, and two returns give two samples.
LEMMA EnoughSamples ==
  ASSUME DaysInv, NEW s \in Symbols
  PROVE  Enough(Samples(s)) <=> HasTwoReturns(returns[s])
<1> DEFINE days == returns[s]
           known == {i \in DOMAIN days : days[i].ret # {}}
           newest == {i \in known : Cardinality({j \in known : j > i}) < SigmaWindow}
<1>1. DOMAIN Samples(s) = newest
  BY DEF Samples
<1>2. days \in Seq([event : Nat, ret : SUBSET Changes]) /\ Len(days) \in Nat
      /\ DOMAIN days = 1..Len(days)
  <2>1. IsHistory(days)
    BY DEF DaysInv
  <2>2. days \in Seq([event : Nat, ret : SUBSET Changes])
    BY <2>1 DEF IsHistory
  <2> HIDE DEF days
  <2> QED
    BY <2>2
<1>3. known \subseteq 1..Len(days) /\ newest \subseteq known
  BY <1>2
<1>4. IsFiniteSet(1..Len(days))
  BY <1>2, FS_Interval
<1>5. HasTwoReturns(days) <=> \E i, j \in known : i # j
  <2> HIDE DEF days
  <2>1. \A i, j \in known : i # j => i < j \/ j < i
    BY <1>2
  <2>2. \A i, j \in DOMAIN days : i < j => i # j
    BY <1>2
  <2> QED
    BY <2>1, <2>2 DEF HasTwoReturns
<1> HIDE DEF newest, known
<1>6. IsFiniteSet(known) /\ IsFiniteSet(newest)
  BY <1>3, <1>4, FS_Subset
<1>7. Enough(Samples(s)) <=> Cardinality(newest) >= 2
  BY <1>1 DEF Enough, MinDailyReturnsForVolatility
<1>8. ASSUME NEW i \in newest, NEW j \in newest, i # j PROVE HasTwoReturns(days)
  BY <1>3, <1>5, <1>8
<1>9. ASSUME NEW i \in known, NEW j \in known, i # j PROVE Cardinality(newest) >= 2
  <2> DEFINE R == {p \in known \X known : p[1] > p[2]}
             A == 0..1
  <2>1. \A x, y \in known : <<x, y>> \in R <=> x > y
    OBVIOUS
  <2>2. \A x \in known : x \in Nat
    BY <1>2, <1>3
  <2> HIDE DEF R
  <2>3. IsOrder(known, R)
    BY <2>1, <2>2 DEF IsOrder
  <2>4. Cardinality(known) \in Nat /\ Cardinality(known) >= 2
    BY <1>6, <1>9, TwoMembers, FS_CardinalityType
  <2>5. A \subseteq 0..Cardinality(known) - 1
    BY <2>4
  <2>6. Cardinality(A) = 2
    <3>1. ASSUME NEW k \in Nat PROVE Cardinality(0..k) = k + 1
      <4>1. k \in Int /\ 0 \in Int /\ ~(0 > k) /\ k - 0 + 1 = k + 1
        OBVIOUS
      <4> QED
        BY <4>1, FS_Interval
    <3>2. Cardinality(0..1) = 1 + 1
      BY <3>1
    <3> QED
      BY <3>2
  <2>7. \A k \in A : k < SigmaWindow
    BY ReadAssumption
  <2>8. OfRanks(known, R, A) \subseteq newest
    <3>1. \A k \in known : Cardinality({x \in known : x > k}) = Rank(known, R, k)
      BY <2>1 DEF Rank
    <3> HIDE DEF A
    <3> QED
      BY <2>7, <3>1 DEF OfRanks, newest
  <2> HIDE DEF A
  <2>9. Cardinality(OfRanks(known, R, A)) = 2
    BY <1>6, <2>3, <2>5, <2>6, RanksCount
  <2>10. Cardinality(OfRanks(known, R, A)) <= Cardinality(newest)
    BY <1>6, <2>8, FS_Subset
  <2> QED
    BY <1>6, <2>9, <2>10, FS_CardinalityType
<1>10. Cardinality(newest) >= 2 <=> \E i, j \in newest : i # j
  BY <1>6, TwoMembers
<1> QED
  BY <1>5, <1>7, <1>8, <1>9, <1>10

\* A price leaves a history, whose newest day is that of the price, and two
\* returns where there were two.
LEMMA AfterPriceFacts ==
  ASSUME NEW d, IsHistory(d), NEW e \in Nat, NEW after \in AfterPrice(d, e)
  PROVE  /\ IsHistory(after) /\ after # << >> /\ after[Len(after)].event = e
         /\ HasTwoReturns(d) => HasTwoReturns(after)
<1> DEFINE Row == [event : Nat, ret : SUBSET Changes]
<1>1. /\ d \in Seq(Row) /\ Len(d) \in Nat /\ DOMAIN d = 1..Len(d) /\ Len(d) <= Window
      /\ \A i \in DOMAIN d : d[i] \in Row /\ (i # 1 => d[i].ret # {})
  <2>1. d \in Seq(Row) /\ Len(d) <= Window /\ \A i \in DOMAIN d : i # 1 => d[i].ret # {}
    BY DEF IsHistory
  <2> HIDE DEF Row
  <2> QED
    BY <2>1
<1>2. Window \in Nat /\ Window >= 2
  BY ReadAssumption
<1>3. ASSUME NEW x \in BOOLEAN,
             NEW day \in {[event |-> e, ret |-> r] : r \in IF x THEN {{c} : c \in Changes} ELSE {{}}}
      PROVE  day \in Row /\ day.event = e /\ (x => day.ret # {})
  OBVIOUS
<1> PICK k : k = Len(d)
  OBVIOUS
<1>4. PICK day \in Row :
        /\ day.event = e
        /\ \/ (d # << >> => day.ret # {}) /\ after = Keep(Append(d, day))
           \/ /\ d # << >> /\ after = [d EXCEPT ![k] = day]
              /\ k > 1 => day.ret # {}
  <2> HIDE DEF Row
  <2> DEFINE Day(x) == {[event |-> e, ret |-> r] : r \in IF x THEN {{c} : c \in Changes} ELSE {{}}}
  <2>1. \/ \E day \in Day(d # << >>) : after = Keep(Append(d, day))
        \/ d # << >> /\ \E day \in Day(Len(d) > 1) : after = [d EXCEPT ![Len(d)] = day]
    BY DEF AfterPrice
  <2>2. \A x \in BOOLEAN : \A day \in Day(x) : day \in Row /\ day.event = e /\ (x => day.ret # {})
    BY <1>3
  <2> HIDE DEF Day
  <2>3. (d # << >>) \in BOOLEAN /\ (Len(d) > 1) \in BOOLEAN
    OBVIOUS
  <2> QED
    BY <2>1, <2>2, <2>3
<1> HIDE DEF Row
<1>5. CASE d # << >> /\ after = [d EXCEPT ![k] = day] /\ (k > 1 => day.ret # {})
  <2>1. k \in Nat \ {0} /\ k <= Window /\ 1..k = DOMAIN d
    BY <1>1, <1>5, EmptySeq
  <2>2. /\ after \in Seq(Row) /\ Len(after) = k /\ DOMAIN after = 1..k /\ after[k] = day
        /\ \A i \in 1..k : i # k => after[i] = d[i]
    <3>1. after = [d EXCEPT ![k] = day] /\ k \in 1..Len(d)
      BY <1>5, <2>1
    <3>2. /\ [d EXCEPT ![k] = day] \in Seq(Row)
          /\ Len([d EXCEPT ![k] = day]) = Len(d)
          /\ \A i \in 1..Len(d) : [d EXCEPT ![k] = day][i] = IF i = k THEN day ELSE d[i]
      BY <1>1, <3>1, ExceptSeq
    <3>3. DOMAIN after = 1..Len(after)
      BY <3>1, <3>2, LenProperties
    <3> QED
      BY <3>1, <3>2, <3>3
  <2>3. k > 1 => day.ret # {}
    BY <1>5
  <2>4. \A i \in 1..k : i # 1 => d[i].ret # {}
    BY <1>1, <2>1
  <2>5. ASSUME NEW i \in 1..k, i # 1 PROVE after[i].ret # {}
    <3>1. CASE i = k
      BY <2>1, <2>2, <2>3, <2>5, <3>1
    <3>2. CASE i # k
      BY <2>2, <2>4, <2>5, <3>2
    <3> QED
      BY <3>1, <3>2
  <2>6. ASSUME HasTwoReturns(d) PROVE HasTwoReturns(after)
    <3>1. PICK i, j \in DOMAIN d : i < j /\ d[i].ret # {} /\ d[j].ret # {}
      BY <2>6 DEF HasTwoReturns
    <3>2. i \in 1..k /\ j \in 1..k /\ i # k /\ j # 1
      BY <2>1, <3>1
    <3>3. after[i].ret # {} /\ after[j].ret # {}
      BY <2>2, <2>5, <3>1, <3>2
    <3>4. i \in DOMAIN after /\ j \in DOMAIN after
      BY <2>2, <3>2
    <3> QED
      BY <3>1, <3>3, <3>4 DEF HasTwoReturns
  <2>7. after # << >> /\ after[Len(after)].event = e
    <3>1. Len(after) # 0
      BY <2>1, <2>2
    <3> QED
      BY <1>4, <2>2, <3>1
  <2>8. IsHistory(after)
    BY <2>1, <2>2, <2>5 DEF IsHistory, Row
  <2> QED
    BY <2>6, <2>7, <2>8
<1>6. CASE (d # << >> => day.ret # {}) /\ after = Keep(Append(d, day))
  <2> DEFINE a == Append(d, day)
  <2>1. /\ a \in Seq(Row) /\ Len(a) = Len(d) + 1 /\ DOMAIN a = 1..Len(d) + 1
        /\ a[Len(d) + 1] = day
        /\ \A i \in 1..Len(d) : a[i] = d[i]
    BY <1>1
  <2> HIDE DEF a
  <2>2. ASSUME NEW i \in DOMAIN a, i # 1 PROVE a[i].ret # {}
    <3>1. CASE i = Len(d) + 1
      <4>1. d # << >>
        BY <1>1, <2>2, <3>1
      <4> QED
        BY <1>6, <2>1, <3>1, <4>1
    <3>2. CASE i # Len(d) + 1
      <4>1. i \in 1..Len(d)
        BY <1>1, <2>1, <2>2, <3>2
      <4> QED
        BY <1>1, <2>1, <2>2, <4>1
    <3> QED
      BY <3>1, <3>2
  <2>3. CASE Len(a) <= Window
    <3>1. after = a
      <4>1. Len(a) \in Int /\ Window \in Int
        BY <1>1, <1>2, <2>1
      <4>2. ~(Len(a) > Window)
        BY <2>3, <4>1
      <4> QED
        BY <1>6, <4>2 DEF Keep, a
    <3>2. ASSUME HasTwoReturns(d) PROVE HasTwoReturns(after)
      <4>1. PICK i, j \in 1..Len(d) : i < j /\ d[i].ret # {} /\ d[j].ret # {}
        BY <1>1, <3>2 DEF HasTwoReturns
      <4>2. i \in DOMAIN a /\ j \in DOMAIN a
        BY <1>1, <2>1
      <4> QED
        BY <2>1, <3>1, <4>1, <4>2 DEF HasTwoReturns
    <3>3. after # << >>
      BY <1>1, <2>1, <3>1
    <3>4. IsHistory(after)
      BY <2>1, <2>2, <2>3, <3>1 DEF IsHistory, Row
    <3> QED
      BY <1>4, <2>1, <3>1, <3>2, <3>3, <3>4
  <2>4. CASE ~(Len(a) <= Window)
    <3>1. Len(d) = Window /\ Len(a) = Window + 1
      <4>1. \A m, n \in Nat : m <= n /\ ~(m + 1 <= n) => m = n
        OBVIOUS
      <4>2. Len(d) \in Nat /\ Len(d) <= Window /\ Len(a) = Len(d) + 1
        BY <1>1, <2>1
      <4> QED
        BY <1>2, <2>4, <4>1, <4>2
    <3>2. after = Tail(a)
      BY <1>2, <1>6, <3>1 DEF Keep, a
    <3>3. a # << >>
      BY <1>2, <2>1, <3>1
    <3>4. /\ after \in Seq(Row) /\ Len(after) = Window /\ DOMAIN after = 1..Window
          /\ \A i \in 1..Window : after[i] = a[i + 1]
      BY <1>2, <2>1, <3>1, <3>2, <3>3
    <3>5. \A i \in 1..Window : after[i].ret # {}
      <4>1. \A i \in 1..Window : i + 1 \in DOMAIN a /\ i + 1 # 1
        BY <1>2, <2>1, <3>1
      <4> QED
        BY <2>2, <3>4, <4>1
    <3>6. HasTwoReturns(after)
      <4>1. 1 \in DOMAIN after /\ 2 \in DOMAIN after /\ 1 < 2
        BY <1>2, <3>4
      <4> QED
        BY <3>4, <3>5, <4>1 DEF HasTwoReturns
    <3>7. IsHistory(after)
      <4>1. Len(after) <= Window
        BY <1>2, <3>4
      <4>2. \A i \in DOMAIN after : i # 1 => after[i].ret # {}
        BY <3>4, <3>5
      <4> QED
        BY <3>4, <4>1, <4>2 DEF IsHistory, Row
    <3>8. after[Len(after)] = day /\ after # << >>
      BY <1>2, <2>1, <3>1, <3>4
    <3> QED
      BY <1>4, <3>6, <3>7, <3>8
  <2> QED
    BY <1>1, <1>2, <2>1, <2>3, <2>4
<1> QED
  BY <1>4, <1>5, <1>6

-----------------------------------------------------------------------------
(* The invariant holds at the start.                                       *)

\* The events at the start are those of one symbol and day each.
LEMMA EventFacts ==
  ASSUME NEW s \in Symbols, NEW i \in 1..Window
  PROVE  /\ EventOf(s, i) \in 1..LastEvent0
         /\ \A t \in Symbols : \A j \in 1..Window : EventOf(s, i) = EventOf(t, j) => s = t
<1> DEFINE R == {p \in Symbols \X Symbols : p[1] < p[2]}
           Place(t) == Cardinality({u \in Symbols : u < t})
<1> PICK n : n = Cardinality(Symbols)
  OBVIOUS
<1>1. IsFiniteSet(Symbols) /\ Symbols \subseteq Nat /\ n \in Nat
  BY ValuationAssumption, FS_CardinalityType
<1>2. \A t, u \in Symbols : <<t, u>> \in R <=> t < u
  OBVIOUS
<1> HIDE DEF R
<1>3. IsOrder(Symbols, R)
  BY <1>1, <1>2 DEF IsOrder
<1>4. \A t \in Symbols : Place(t) = Rank(Symbols, R, t)
  BY <1>2 DEF Rank
<1>5. \A t \in Symbols : Place(t) \in 0..n - 1
  BY <1>1, <1>3, <1>4, RankFacts
<1>6. \A t, u \in Symbols : t # u => Place(t) # Place(u)
  <2> SUFFICES ASSUME NEW t \in Symbols, NEW u \in Symbols, t # u
               PROVE  Place(t) # Place(u)
    OBVIOUS
  <2>1. <<t, u>> \in R \/ <<u, t>> \in R
    BY <1>3 DEF IsOrder
  <2>2. Rank(Symbols, R, t) < Rank(Symbols, R, u) \/ Rank(Symbols, R, u) < Rank(Symbols, R, t)
    BY <1>1, <1>3, <2>1, RankFacts
  <2> HIDE DEF Place
  <2> QED
    BY <1>1, <1>4, <1>5, <2>2
<1>7. Window \in Nat \ {0}
  BY ReadAssumption
<1>8. \A t : \A j : EventOf(t, j) = 1 + Window * Place(t) + j
  BY DEF EventOf
<1>9. LastEvent0 = 1 + Window * n
  BY DEF LastEvent0
<1> HIDE DEF Place
<1> DEFINE W == Window
<1>10. ASSUME NEW p \in Nat, NEW q \in Nat, p < q PROVE W * p + W <= W * q
  <2>1. \A k \in Nat : W * k \in Nat
    BY <1>7
  <2>2. q - p - 1 \in Nat /\ q = p + 1 + (q - p - 1)
    BY <1>10
  <2>3. \A k \in Nat : W * (p + 1 + k) = W * p + W + W * k
    BY <1>7
  <2> QED
    BY <1>7, <2>1, <2>2, <2>3
<1>11. \A k \in Nat : W * k \in Nat
  BY <1>7
<1> HIDE DEF W
<1>12. EventOf(s, i) \in 1..LastEvent0
  <2>1. Place(s) \in Nat /\ Place(s) < n
    BY <1>1, <1>5
  <2>2. W * Place(s) + W <= W * n
    BY <1>1, <1>10, <2>1
  <2>3. W * Place(s) \in Nat /\ W * n \in Nat /\ W \in Nat /\ i \in 1..W
    BY <1>1, <1>7, <1>11, <2>1 DEF W
  <2>4. EventOf(s, i) = 1 + W * Place(s) + i /\ LastEvent0 = 1 + W * n
    BY <1>8, <1>9 DEF W
  <2> QED
    BY <2>2, <2>3, <2>4
<1>13. ASSUME NEW t \in Symbols, NEW j \in 1..Window, EventOf(s, i) = EventOf(t, j)
       PROVE  s = t
  <2>1. 1 + W * Place(s) + i = 1 + W * Place(t) + j
    BY <1>8, <1>13 DEF W
  <2>2. Place(s) \in Nat /\ Place(t) \in Nat
    BY <1>1, <1>5
  <2>3. /\ W * Place(s) \in Nat /\ W * Place(t) \in Nat
        /\ W \in Nat /\ i \in 1..W /\ j \in 1..W
    BY <1>7, <1>11, <2>2 DEF W
  <2>4. ~(Place(s) < Place(t)) /\ ~(Place(t) < Place(s))
    <3>1. Place(s) < Place(t) => W * Place(s) + W <= W * Place(t)
      BY <1>10, <2>2
    <3>2. Place(t) < Place(s) => W * Place(t) + W <= W * Place(s)
      BY <1>10, <2>2
    <3> QED
      BY <2>1, <2>3, <3>1, <3>2
  <2> QED
    BY <1>6, <2>2, <2>4
<1> QED
  BY <1>12, <1>13

LEMMA LastIsLater == LastEvent0 \in Nat \ {0}
<1>1. Cardinality(Symbols) \in Nat /\ Window \in Nat
  BY ValuationAssumption, ReadAssumption, FS_CardinalityType
<1>2. \A p, q \in Nat : 1 + p * q \in Nat \ {0}
  OBVIOUS
<1> QED
  BY <1>1, <1>2 DEF LastEvent0

LEMMA InitHolds == Init => IInv
<1> SUFFICES ASSUME Init PROVE IInv
  OBVIOUS
<1>1. LastEvent0 \in Nat \ {0} /\ MaxCommits \in Nat /\ last = LastEvent0
  BY LastIsLater, ReadAssumption DEF Init
<1>2. BookInv
  <2>1. PICK held \in SUBSET Symbols :
          /\ catalogued \in BOOLEAN /\ logged = held
          /\ positions \in [held -> Rows]
          /\ cursor = IF held = {} THEN NoEvent ELSE 1
          /\ books = [e \in {cursor} \ {NoEvent} |-> positions]
    BY DEF Init
  <2>2. positions \in Books /\ DOMAIN positions = held
    BY <2>1 DEF Books
  <2>3. cursor \in 0..last /\ DOMAIN books \subseteq 1..last
    BY <1>1, <2>1 DEF NoEvent
  <2>4. IF cursor = NoEvent THEN positions = None
        ELSE cursor \in DOMAIN books /\ books[cursor] = positions
    <3>1. CASE held = {}
      BY <2>1, <2>2, <3>1, NoneIsEmpty
    <3>2. CASE held # {}
      BY <2>1, <3>2 DEF NoEvent
    <3> QED
      BY <3>1, <3>2
  <2>5. last \in LastEvent0..LastEvent0 + MaxCommits
    BY <1>1
  <2> QED
    BY <2>1, <2>2, <2>3, <2>4, <2>5 DEF BookInv
<1>3. PICK hist \in [Symbols -> Histories] :
        LET known    == {s \in Symbols : hist[s] # << >>}
            Newest(s) == EventOf(s, Len(hist[s]))
        IN  /\ returns = [s \in Symbols |-> [i \in DOMAIN hist[s] |->
                            [event |-> EventOf(s, i), ret |-> hist[s][i]]]]
            /\ \E price \in [known -> Prices] :
                 /\ marks = [s \in known |-> [price |-> price[s], event |-> Newest(s)]]
                 /\ quoted = [e \in {Newest(s) : s \in known} |->
                               LET s == CHOOSE s \in known : Newest(s) = e
                               IN  [symbol |-> s, price |-> price[s]]]
  BY DEF Init
<1> DEFINE known    == {s \in Symbols : hist[s] # << >>}
           Newest(s) == EventOf(s, Len(hist[s]))
<1>4. PICK price \in [known -> Prices] :
         /\ marks = [s \in known |-> [price |-> price[s], event |-> Newest(s)]]
         /\ quoted = [e \in {Newest(s) : s \in known} |->
                       LET s == CHOOSE s \in known : Newest(s) = e
                       IN  [symbol |-> s, price |-> price[s]]]
  BY <1>3
<1>5. returns = [s \in Symbols |-> [i \in DOMAIN hist[s] |->
                            [event |-> EventOf(s, i), ret |-> hist[s][i]]]]
  BY <1>3
<1>6. ASSUME NEW s \in Symbols
      PROVE  /\ Len(hist[s]) \in 0..Window /\ DOMAIN hist[s] = 1..Len(hist[s])
             /\ \A i \in 1..Len(hist[s]) : /\ hist[s][i] \in SUBSET Changes
                                           /\ i # 1 => hist[s][i] # {}
             /\ s \in known <=> Len(hist[s]) # 0
  <2>1. hist[s] \in {h \in UNION {[1..n -> SUBSET Changes] : n \in 0..Window} :
                       \A i \in DOMAIN h : IF i = 1 THEN h[i] = {}
                                           ELSE \E c \in Changes : h[i] = {c}}
    BY ReadAssumption
  <2> PICK h : h = hist[s]
    OBVIOUS
  <2>2. PICK n \in 0..Window : h \in [1..n -> SUBSET Changes]
    BY <2>1
  <2>3. Window \in Nat
    BY ReadAssumption
  <2>4. n \in 0..Window /\ Len(h) = n /\ DOMAIN h = 1..n
    BY <2>2, <2>3
  <2>5. h # << >> <=> n # 0
    <3>1. n = 0 => h = << >>
      BY <2>2, <2>4
    <3> QED
      BY <2>4, <3>1
  <2>6. ASSUME NEW i \in 1..n, i # 1 PROVE h[i] # {}
    <3>1. \A j \in DOMAIN h : IF j = 1 THEN h[j] = {} ELSE \E c \in Changes : h[j] = {c}
      BY <2>1, Zenon
    <3>2. \E c \in Changes : h[i] = {c}
      BY <2>4, <2>6, <3>1
    <3> QED
      BY <3>2
  <2>7. s \in known <=> h # << >>
    OBVIOUS
  <2> QED
    BY <2>2, <2>4, <2>5, <2>6, <2>7
<1>7. \A s \in known : s \in Symbols /\ Len(hist[s]) \in 1..Window
  BY <1>6
<1> HIDE DEF known
<1>8. Window \in Nat
  BY ReadAssumption
<1>9. MarkInv
  <2>1. known \subseteq Symbols /\ \A s \in known : Newest(s) \in 1..LastEvent0
    BY <1>7, EventFacts
  <2>2. \A s, t \in known : Newest(s) = Newest(t) => s = t
    BY <1>7, EventFacts
  <2> HIDE DEF Newest
  <2>3. marks \in MarkTables /\ DOMAIN marks = known
    <3>1. \A s \in known : [price |-> price[s], event |-> Newest(s)]
                             \in [price : Prices, event : Nat]
      BY <1>4, <2>1, <1>1
    <3>2. marks \in [known -> [price : Prices, event : Nat]]
      BY <1>4, <3>1
    <3> QED
      BY <2>1, <3>2 DEF MarkTables
  <2>4. DOMAIN quoted \subseteq 1..last
    BY <1>1, <1>4, <2>1
  <2>5. ASSUME NEW s \in known
        PROVE  /\ marks[s].event \in DOMAIN quoted
               /\ quoted[marks[s].event] = [symbol |-> s, price |-> marks[s].price]
    <3>1. marks[s].event = Newest(s) /\ marks[s].price = price[s]
      BY <1>4
    <3>2. (CHOOSE t \in known : Newest(t) = Newest(s)) = s
      BY <2>2
    <3> QED
      BY <1>4, <3>1, <3>2
  <2>6. AreQuoted(marks)
    BY <2>3, <2>5 DEF AreQuoted
  <2> QED
    BY <2>3, <2>4, <2>6 DEF MarkInv
<1>10. DaysInv
  <2>1. ASSUME NEW s \in Symbols
        PROVE  /\ IsHistory(returns[s])
               /\ returns[s] = << >> <=> s \notin DOMAIN marks
               /\ s \in DOMAIN marks => returns[s][Len(returns[s])].event = marks[s].event
    <3> PICK h : h = hist[s]
      OBVIOUS
    <3> PICK n : n = Len(h)
      OBVIOUS
    <3> PICK d : d = returns[s]
      OBVIOUS
    <3>1. /\ n \in 0..Window /\ DOMAIN h = 1..n
          /\ \A i \in 1..n : h[i] \in SUBSET Changes /\ (i # 1 => h[i] # {})
          /\ s \in known <=> n # 0
      BY <1>6
    <3>2. d = [i \in 1..n |-> [event |-> EventOf(s, i), ret |-> h[i]]]
      BY <1>5, <3>1
    <3>3. \A i \in 1..n : EventOf(s, i) \in Nat
      <4>1. \A i \in 1..n : i \in 1..Window
        BY <1>8, <3>1
      <4>2. \A i \in 1..n : EventOf(s, i) \in 1..LastEvent0
        BY <4>1, EventFacts
      <4> QED
        BY <1>1, <4>2
    <3>4. \A i \in 1..n : [event |-> EventOf(s, i), ret |-> h[i]]
                            \in [event : Nat, ret : SUBSET Changes]
      BY <3>1, <3>3
    <3>5. d \in [1..n -> [event : Nat, ret : SUBSET Changes]]
      BY <3>2, <3>4
    <3>6. d \in Seq([event : Nat, ret : SUBSET Changes]) /\ Len(d) = n /\ n \in Nat
      <4> DEFINE Row == [event : Nat, ret : SUBSET Changes]
      <4>1. n \in Nat
        BY <1>8, <3>1
      <4>2. d \in [1..n -> Row]
        BY <3>5
      <4> HIDE DEF Row
      <4>3. d \in Seq(Row) /\ Len(d) = n
        BY <4>1, <4>2
      <4> QED
        BY <4>1, <4>3 DEF Row
    <3>7. IsHistory(d)
      <4>1. \A i \in DOMAIN d : i # 1 => d[i].ret # {}
        BY <3>1, <3>2
      <4>2. Len(d) <= Window
        BY <1>8, <3>1, <3>6
      <4> QED
        BY <3>6, <4>1, <4>2 DEF IsHistory
    <3>8. d = << >> <=> n = 0
      <4>1. n = 0 => d = << >>
        BY <3>6
      <4> QED
        BY <3>6, <4>1
    <3>9. s \in DOMAIN marks <=> s \in known
      BY <1>4
    <3>10. s \in known => d[n].event = marks[s].event
      <4>1. s \in known => n \in 1..n
        BY <3>1
      <4>2. s \in known => marks[s].event = EventOf(s, n)
        BY <1>4
      <4> QED
        BY <3>2, <4>1, <4>2
    <3> QED
      BY <3>1, <3>6, <3>7, <3>8, <3>9, <3>10
  <2>2. DOMAIN returns = Symbols
    BY <1>5
  <2> QED
    BY <2>1, <2>2 DEF DaysInv
<1>11. ReqInv
  BY DEF Init, Idle, ReqInv, PortfolioInv, PriceInv, Stages
<1> QED
  BY <1>2, <1>9, <1>10, <1>11 DEF IInv

-----------------------------------------------------------------------------
(* The apply workers keep the invariant.                                   *)

\* What was read stays so while the history grows.
LEMMA ReadStays ==
  ASSUME NEW in, NEW c \in Nat, NEW d \in Nat, IsRead(in, c), c <= d,
         DOMAIN books \subseteq Nat,
         DOMAIN books \subseteq DOMAIN books', \A e \in DOMAIN books : books'[e] = books[e],
         DOMAIN quoted \subseteq DOMAIN quoted', \A e \in DOMAIN quoted : quoted'[e] = quoted[e]
  PROVE  IsRead(in, d)'
<1>1. in \in Inputs /\ IsBook(in.rows, c) /\ AreQuoted(in.marks)
      /\ DOMAIN in.marks \subseteq Open(in.rows)
  BY DEF IsRead
<1>2. ASSUME NEW e \in DOMAIN books, e <= c PROVE e \in DOMAIN books' /\ e <= d
  BY <1>2
<1>3. IsBook(in.rows, d)'
  BY <1>1, <1>2 DEF IsBook
<1>4. AreQuoted(in.marks)'
  BY <1>1 DEF AreQuoted
<1> QED
  BY <1>1, <1>3, <1>4 DEF IsRead

\* What the statements of a request see is the same before and after a step of
\* the request.
LEMMA ReadsKeepTables ==
  ASSUME BookInv, MarkInv, DaysInv, Reads
  PROVE  /\ BookInv' /\ MarkInv' /\ DaysInv'
         /\ \A in, c : IsRead(in, c) => IsRead(in, c)'
<1>1. UNCHANGED <<catalogued, logged, positions, cursor, marks, returns, last, books, quoted>>
  BY DEF Reads, database
<1>2. BookInv'
  BY <1>1 DEF BookInv
<1>3. MarkInv'
  BY <1>1 DEF MarkInv, AreQuoted
<1>4. DaysInv'
  BY <1>1 DEF DaysInv
<1>5. \A in, c : IsRead(in, c) => IsRead(in, c)'
  BY <1>1 DEF IsRead, IsBook, AreQuoted
<1> QED
  BY <1>2, <1>3, <1>4, <1>5

LEMMA TradeArrivesKeeps ==
  ASSUME IInv, NEW s \in Symbols, TradeArrives(s)
  PROVE  IInv'
<1>1. /\ logged' = logged \cup {s}
      /\ UNCHANGED <<catalogued, positions, cursor, marks, returns, req, last, books, quoted>>
  BY DEF TradeArrives
<1>2. BookInv /\ MarkInv /\ DaysInv /\ ReqInv
  BY DEF IInv
<1>3. BookInv'
  BY <1>1, <1>2 DEF BookInv
<1>4. MarkInv'
  BY <1>1, <1>2 DEF MarkInv, AreQuoted
<1>5. DaysInv'
  BY <1>1, <1>2 DEF DaysInv
<1>6. \A in, c : IsRead(in, c) => IsRead(in, c)'
  BY <1>1 DEF IsRead, IsBook, AreQuoted
<1>7. PortfolioInv'
  BY <1>1, <1>2, <1>6 DEF ReqInv, PortfolioInv
<1>8. PriceInv'
  BY <1>1, <1>2 DEF ReqInv, PriceInv
<1> QED
  BY <1>1, <1>2, <1>3, <1>4, <1>5, <1>7, <1>8 DEF IInv, ReqInv

LEMMA CommitTradesKeeps ==
  ASSUME IInv, CommitTrades
  PROVE  IInv'
<1>1. /\ last < LastEvent0 + MaxCommits
      /\ last' = last + 1 /\ cursor' = last + 1
      /\ \E held \in SUBSET logged : held # {} /\ positions' \in [held -> Rows]
      /\ books' = [e \in DOMAIN books \cup {last + 1} |->
                    IF e = last + 1 THEN positions' ELSE books[e]]
      /\ UNCHANGED <<catalogued, logged, marks, returns, req, quoted>>
  BY DEF CommitTrades, MayCommit
<1>2. BookInv /\ MarkInv /\ DaysInv /\ ReqInv
  BY DEF IInv
<1>3. /\ LastEvent0 \in Nat /\ MaxCommits \in Nat /\ last \in Nat /\ last >= LastEvent0
      /\ logged \subseteq Symbols /\ cursor \in Nat /\ cursor <= last
      /\ DOMAIN books \subseteq 1..last
  <2>1. LastEvent0 \in Nat /\ MaxCommits \in Nat
    BY LastIsLater, ReadAssumption
  <2> QED
    BY <1>2, <2>1 DEF BookInv
<1>4. last + 1 \notin DOMAIN books /\ cursor <= last + 1
  BY <1>3
<1>5. BookInv'
  <2>1. PICK held \in SUBSET logged : positions' \in [held -> Rows]
    BY <1>1
  <2>2. positions' \in Books /\ DOMAIN positions' \subseteq logged
    BY <1>3, <2>1 DEF Books
  <2>3. last' \in LastEvent0..LastEvent0 + MaxCommits
    BY <1>1, <1>3
  <2>4. cursor' \in 0..last' /\ cursor' # NoEvent /\ DOMAIN books' \subseteq 1..last'
    BY <1>1, <1>3 DEF NoEvent
  <2>5. cursor' \in DOMAIN books' /\ books'[cursor'] = positions'
    BY <1>1
  <2>6. catalogued' \in BOOLEAN /\ logged' \subseteq Symbols
    BY <1>1, <1>2 DEF BookInv
  <2> QED
    BY <1>1, <2>2, <2>3, <2>4, <2>5, <2>6 DEF BookInv, LastEvent0
<1>6. MarkInv'
  BY <1>1, <1>2, <1>3 DEF MarkInv, AreQuoted
<1>7. DaysInv'
  BY <1>1, <1>2 DEF DaysInv
<1>8. ASSUME NEW in, NEW c \in Nat, NEW d \in Nat, IsRead(in, c), c <= d PROVE IsRead(in, d)'
  <2>1. DOMAIN books \subseteq DOMAIN books' /\ \A e \in DOMAIN books : books'[e] = books[e]
    BY <1>1, <1>4
  <2>2. DOMAIN books \subseteq Nat
    BY <1>3
  <2> QED
    BY <1>1, <1>8, <2>1, <2>2, ReadStays
<1>9. PortfolioInv'
  <2>1. IsRead(req.in, cursor) => IsRead(req.in, cursor)'
    <3> PICK in : in = req.in
      OBVIOUS
    <3> PICK d : d = last + 1
      OBVIOUS
    <3>1. IsRead(in, cursor) => IsRead(in, d)'
      BY <1>3, <1>4, <1>8
    <3> QED
      BY <1>1, <3>1
  <2>2. IsRead(req.in, req.in.cursor) => IsRead(req.in, req.in.cursor)'
    <3> PICK in : in = req.in
      OBVIOUS
    <3>1. IsRead(in, in.cursor) => IsRead(in, in.cursor)'
      <4>1. IsRead(in, in.cursor) => in.cursor \in Nat
        BY DEF IsRead, Inputs
      <4> QED
        BY <1>8, <4>1
    <3> QED
      BY <1>1, <3>1
  <2> QED
    BY <1>1, <1>2, <2>1, <2>2 DEF ReqInv, PortfolioInv
<1>10. PriceInv'
  BY <1>1, <1>2 DEF ReqInv, PriceInv
<1> QED
  BY <1>1, <1>2, <1>5, <1>6, <1>7, <1>9, <1>10 DEF IInv, ReqInv

LEMMA CommitPriceKeeps ==
  ASSUME IInv, NEW s \in Symbols, CommitPrice(s)
  PROVE  IInv'
<1>1. PICK p \in Prices :
        /\ marks' = [t \in DOMAIN marks \cup {s} |->
                       IF t = s THEN [price |-> p, event |-> last + 1] ELSE marks[t]]
        /\ quoted' = [e \in DOMAIN quoted \cup {last + 1} |->
                        IF e = last + 1 THEN [symbol |-> s, price |-> p] ELSE quoted[e]]
  BY DEF CommitPrice
<1>2. PICK days \in AfterPrice(returns[s], last + 1) : returns' = [returns EXCEPT ![s] = days]
  BY DEF CommitPrice
<1>3. /\ last < LastEvent0 + MaxCommits
      /\ last' = last + 1
      /\ UNCHANGED <<catalogued, logged, positions, cursor, req, books>>
  BY DEF CommitPrice, MayCommit
<1>4. BookInv /\ MarkInv /\ DaysInv /\ ReqInv
  BY DEF IInv
<1>5. /\ LastEvent0 \in Nat /\ MaxCommits \in Nat /\ last \in Nat /\ last >= LastEvent0
      /\ cursor \in 0..last /\ DOMAIN books \subseteq 1..last /\ DOMAIN quoted \subseteq 1..last
  <2>1. LastEvent0 \in Nat /\ MaxCommits \in Nat
    BY LastIsLater, ReadAssumption
  <2> QED
    BY <1>4, <2>1 DEF BookInv, MarkInv
<1>6. /\ DOMAIN quoted \subseteq DOMAIN quoted' /\ last + 1 \notin DOMAIN quoted
      /\ \A e \in DOMAIN quoted : quoted'[e] = quoted[e]
  <2>1. last + 1 \notin DOMAIN quoted
    BY <1>5
  <2> QED
    BY <1>1, <2>1
<1>7. BookInv'
  <2>1. last' \in LastEvent0..LastEvent0 + MaxCommits
    BY <1>3, <1>5
  <2>2. cursor' \in 0..last' /\ DOMAIN books' \subseteq 1..last'
    BY <1>3, <1>5
  <2> QED
    BY <1>3, <1>4, <2>1, <2>2 DEF BookInv, LastEvent0
<1>8. DOMAIN marks \subseteq Symbols /\ marks \in [DOMAIN marks -> [price : Prices, event : Nat]]
  BY <1>4, MarkFacts DEF MarkInv
<1>9. /\ DOMAIN marks' = DOMAIN marks \cup {s}
      /\ marks'[s] = [price |-> p, event |-> last + 1]
      /\ \A t \in DOMAIN marks : t # s => marks'[t] = marks[t]
  BY <1>1
<1>10. MarkInv'
  <2>1. marks' \in MarkTables
    <3> DEFINE D == DOMAIN marks \cup {s}
    <3>1. \A t \in D : marks'[t] \in [price : Prices, event : Nat]
      BY <1>5, <1>8, <1>9
    <3>2. marks' \in [D -> [price : Prices, event : Nat]] /\ D \in SUBSET Symbols
      BY <1>1, <1>8, <3>1
    <3> HIDE DEF D
    <3> QED
      BY <3>2 DEF MarkTables
  <2>2. DOMAIN quoted' \subseteq 1..last'
    BY <1>1, <1>3, <1>5
  <2>3. ASSUME NEW t \in DOMAIN marks'
        PROVE  /\ marks'[t].event \in DOMAIN quoted'
               /\ quoted'[marks'[t].event] = [symbol |-> t, price |-> marks'[t].price]
    <3>1. CASE t = s
      BY <1>1, <1>9, <3>1
    <3>2. CASE t # s
      <4>1. t \in DOMAIN marks /\ marks'[t] = marks[t]
        BY <1>9, <3>2
      <4>2. /\ marks[t].event \in DOMAIN quoted
            /\ quoted[marks[t].event] = [symbol |-> t, price |-> marks[t].price]
        BY <1>4, <4>1 DEF MarkInv, AreQuoted
      <4> QED
        BY <1>6, <4>1, <4>2
    <3> QED
      BY <3>1, <3>2
  <2>4. AreQuoted(marks)'
    BY <2>3 DEF AreQuoted
  <2> QED
    BY <2>1, <2>2, <2>4 DEF MarkInv, MarkTables
<1>11. /\ IsHistory(days) /\ days # << >> /\ days[Len(days)].event = last + 1
       /\ HasTwoReturns(returns[s]) => HasTwoReturns(days)
  <2>1. IsHistory(returns[s]) /\ last + 1 \in Nat
    BY <1>4, <1>5 DEF DaysInv
  <2> QED
    BY <2>1, AfterPriceFacts
<1>12. /\ DOMAIN returns = Symbols /\ DOMAIN returns' = Symbols /\ returns'[s] = days
       /\ \A t \in Symbols : t # s => returns'[t] = returns[t]
  BY <1>2, <1>4 DEF DaysInv
<1>13. DaysInv'
  <2>1. ASSUME NEW t \in Symbols
        PROVE  /\ IsHistory(returns'[t])
               /\ returns'[t] = << >> <=> t \notin DOMAIN marks'
               /\ t \in DOMAIN marks' =>
                    returns'[t][Len(returns'[t])].event = marks'[t].event
    <3>1. CASE t = s
      BY <1>9, <1>11, <1>12, <3>1
    <3>2. CASE t # s
      <4>1. returns'[t] = returns[t]
        BY <1>12, <3>2
      <4>2. t \in DOMAIN marks' <=> t \in DOMAIN marks
        BY <1>9, <3>2
      <4>3. t \in DOMAIN marks => marks'[t] = marks[t]
        BY <1>9, <3>2
      <4>4. /\ IsHistory(returns[t])
            /\ returns[t] = << >> <=> t \notin DOMAIN marks
            /\ t \in DOMAIN marks => returns[t][Len(returns[t])].event = marks[t].event
        BY <1>4 DEF DaysInv
      <4> QED
        BY <4>1, <4>2, <4>3, <4>4
    <3> QED
      BY <3>1, <3>2
  <2> QED
    BY <1>12, <2>1 DEF DaysInv, IsHistory
<1>14. ASSUME NEW in, NEW c \in Nat, IsRead(in, c) PROVE IsRead(in, c)'
  <2>1. DOMAIN books \subseteq Nat
    BY <1>5
  <2> QED
    BY <1>3, <1>6, <1>14, <2>1, ReadStays
<1>15. PortfolioInv'
  <2>1. IsRead(req.in, cursor) => IsRead(req.in, cursor)'
    <3> PICK in : in = req.in
      OBVIOUS
    <3> PICK c : c = cursor
      OBVIOUS
    <3>1. IsRead(in, c) => IsRead(in, c)'
      BY <1>5, <1>14
    <3> QED
      BY <1>3, <3>1
  <2>2. IsRead(req.in, req.in.cursor) => IsRead(req.in, req.in.cursor)'
    <3> PICK in : in = req.in
      OBVIOUS
    <3>1. IsRead(in, in.cursor) => IsRead(in, in.cursor)'
      <4>1. IsRead(in, in.cursor) => in.cursor \in Nat
        BY DEF IsRead, Inputs
      <4> QED
        BY <1>14, <4>1
    <3> QED
      BY <1>3, <3>1
  <2>3. ASSUME NEW t \in Symbols, HasTwoReturns(returns[t]) PROVE HasTwoReturns(returns'[t])
    BY <1>11, <1>12, <2>3
  <2>4. req.at = "sigmas" => Open(req.in.rows) \subseteq Symbols
    <3> PICK in : in = req.in
      OBVIOUS
    <3>1. req.at = "sigmas" => in.rows \in Books
      BY <1>4 DEF ReqInv, PortfolioInv, IsRead, Inputs
    <3> QED
      BY <3>1, BookFacts DEF Open
  <2>5. req.at = "sigmas" => \A t \in Open(req.in.rows) : HasTwoReturns(returns'[t])
    BY <1>4, <2>3, <2>4 DEF ReqInv, PortfolioInv
  <2> HIDE DEF PortfolioInv
  <2>6. PortfolioInv
    BY <1>4 DEF ReqInv
  <2> QED
    BY <1>3, <2>1, <2>2, <2>5, <2>6 DEF PortfolioInv, HasTwoReturns
<1>16. PriceInv'
  <2>1. PriceInv
    BY <1>4 DEF ReqInv
  <2>2. ASSUME NEW n \in 0..Cardinality(DOMAIN marks)
        PROVE  n \in 0..Cardinality(DOMAIN marks')
    <3>1. IsFiniteSet(Symbols) /\ DOMAIN marks' \subseteq Symbols
      BY <1>8, <1>9, ValuationAssumption
    <3>2. IsFiniteSet(DOMAIN marks')
      BY <3>1, FS_Subset
    <3>3. /\ IsFiniteSet(DOMAIN marks)
          /\ Cardinality(DOMAIN marks) <= Cardinality(DOMAIN marks')
      BY <1>9, <3>2, FS_Subset
    <3>4. Cardinality(DOMAIN marks) \in Nat /\ Cardinality(DOMAIN marks') \in Nat
      BY <3>2, <3>3, FS_CardinalityType
    <3> QED
      BY <3>3, <3>4
  <2>3. ASSUME NEW t \in DOMAIN marks, NEW e \in 1..marks[t].event
        PROVE  t \in DOMAIN marks' /\ e \in 1..marks'[t].event
    <3>1. marks[t].event \in Nat /\ marks[t].event \in DOMAIN quoted
      BY <1>4, <1>8 DEF MarkInv, AreQuoted
    <3>2. CASE t = s
      <4>1. marks'[t].event = last + 1 /\ marks[t].event \in 1..last
        BY <1>5, <1>9, <3>1, <3>2
      <4> QED
        BY <1>5, <1>9, <3>1, <4>1
    <3>3. CASE t # s
      BY <1>9, <3>3
    <3> QED
      BY <3>2, <3>3
  <2>4. req' = req
    BY <1>3
  <2>5. req.at = "list" => req.total \in 0..Cardinality(DOMAIN marks')
    BY <2>1, <2>2 DEF PriceInv
  <2>6. req.at = "history" => /\ req.symbol \in DOMAIN marks'
                              /\ req.head \in 1..marks'[req.symbol].event
    BY <2>1, <2>3 DEF PriceInv
  <2> QED
    BY <2>1, <2>4, <2>5, <2>6 DEF PriceInv
<1> QED
  BY <1>3, <1>4, <1>7, <1>10, <1>13, <1>15, <1>16 DEF IInv, ReqInv

-----------------------------------------------------------------------------
(* The statements of a request keep the invariant.                         *)

LEMMA EndKeeps ==
  ASSUME req' = Done
  PROVE  ReqInv'
BY DEF Done, ReqInv, PortfolioInv, PriceInv, Stages

LEMMA AsksForPortfolioKeeps ==
  ASSUME AsksForPortfolio
  PROVE  ReqInv' /\ Reads
<1>1. PICK kind \in Kinds \ {"prices", "price"} :
        \E shocks \in IF kind = "scenario" THEN Shocks ELSE {<< >>} : Ask(kind, shocks)
  BY DEF AsksForPortfolio
<1> PICK shocks \in IF kind = "scenario" THEN Shocks ELSE {<< >>} : Ask(kind, shocks)
  BY <1>1
<1>2. /\ req' = [at |-> "exists", kind |-> kind, shocks |-> shocks] /\ Reads
      /\ kind = "scenario" => ValidShocks(shocks)
  BY DEF Ask, Goes
<1>3. kind \in PortfolioKinds /\ shocks \in ShockLists
  <2>1. Kinds \subseteq AllKinds /\ Shocks \subseteq ShockLists
    BY ReadAssumption DEF ShockLists
  <2>2. kind \in PortfolioKinds
    BY <2>1 DEF AllKinds, PortfolioKinds
  <2>3. << >> \in ShockLists
    BY DEF ShockLists
  <2> QED
    BY <1>1, <2>1, <2>2, <2>3
<1>4. IsAsked(req')
  BY <1>2, <1>3 DEF IsAsked
<1>5. PortfolioInv'
  BY <1>2, <1>4 DEF PortfolioInv, IsAsked
<1>6. PriceInv' /\ req'.at \in Stages
  BY <1>2 DEF PriceInv, Stages
<1> QED
  BY <1>2, <1>5, <1>6 DEF ReqInv

LEMMA CheckExistsKeeps ==
  ASSUME ReqInv, CheckExists
  PROVE  ReqInv' /\ Reads
<1>1. /\ req = [at |-> "exists", kind |-> req.kind, shocks |-> req.shocks]
      /\ IsAsked(req)
  BY DEF ReqInv, PortfolioInv, CheckExists
<1>2. (req' = [req EXCEPT !.at = "positions"] \/ req' = Done) /\ Reads
  BY DEF CheckExists, Goes, Refuses
<1>3. ASSUME req' = [req EXCEPT !.at = "positions"] PROVE ReqInv'
  <2>1. req' = [at |-> "positions", kind |-> req.kind, shocks |-> req.shocks]
    BY <1>1, <1>3
  <2>2. IsAsked(req')
    BY <1>1, <2>1 DEF IsAsked
  <2> QED
    BY <2>1, <2>2 DEF ReqInv, PortfolioInv, IsAsked, PriceInv, Stages
<1> QED
  BY <1>2, <1>3, EndKeeps

LEMMA LoadPositionsKeeps ==
  ASSUME IInv, LoadPositions
  PROVE  ReqInv' /\ Reads
<1> DEFINE in == [rows |-> positions, marks |-> None, cursor |-> NoEvent]
<1>1. IsAsked(req) /\ BookInv /\ MarkInv /\ DaysInv
  BY DEF IInv, ReqInv, PortfolioInv, LoadPositions
<1>2. PICK a \in {"cursor", "marks"} :
        req' = [at |-> a, kind |-> req.kind, shocks |-> req.shocks, in |-> in]
  BY DEF LoadPositions, Goes
<1>3. Reads
  BY DEF LoadPositions, Goes
<1>4. IsRead(in, cursor)
  <2>1. in \in Inputs
    BY <1>1, NoneIsEmpty DEF BookInv, Inputs, NoEvent
  <2>2. IsBook(positions, cursor)
    BY <1>1 DEF BookInv, IsBook
  <2>3. AreQuoted(None) /\ DOMAIN None \subseteq Open(positions)
    BY NoneIsEmpty DEF AreQuoted
  <2> QED
    BY <2>1, <2>2, <2>3 DEF IsRead
<1> HIDE DEF in
<1> PICK i : i = in
  OBVIOUS
<1> PICK c : c = cursor
  OBVIOUS
<1>5. IsRead(i, c)' /\ cursor' = cursor
  BY <1>1, <1>3, <1>4, ReadsKeepTables DEF Reads, database
<1>6. IsRead(req.in, cursor)'
  <2>1. req'.in = i /\ cursor' = c
    BY <1>2, <1>5
  <2> QED
    BY <1>5, <2>1
<1>7. IsAsked(req')
  BY <1>1, <1>2 DEF IsAsked
<1> QED
  BY <1>2, <1>3, <1>6, <1>7 DEF ReqInv, PortfolioInv, IsAsked, PriceInv, Stages

LEMMA LoadMarksKeeps ==
  ASSUME IInv, LoadMarks
  PROVE  ReqInv' /\ Reads
<1> DEFINE m == [s \in DOMAIN marks \cap Open(req.in.rows) |-> marks[s]]
<1>1. /\ IsAsked(req) /\ BookInv /\ MarkInv /\ DaysInv
      /\ req = [at |-> "marks", kind |-> req.kind, shocks |-> req.shocks, in |-> req.in]
      /\ IsRead(req.in, cursor)
  BY DEF IInv, ReqInv, PortfolioInv, LoadMarks
<1> PICK old : old = req.in
  OBVIOUS
<1> PICK k : k = m
  OBVIOUS
<1> DEFINE in == [rows |-> old.rows, marks |-> k, cursor |-> old.cursor]
<1>2. old = [rows |-> old.rows, marks |-> old.marks, cursor |-> old.cursor]
      /\ old.rows \in Books /\ old.cursor \in Nat /\ IsBook(old.rows, cursor)
  BY <1>1 DEF IsRead, Inputs
<1>3. req' = [at |-> "cursor", kind |-> req.kind, shocks |-> req.shocks, in |-> in]
  <2>1. req' = [req EXCEPT !.at = "cursor", !.in.marks = k]
    BY DEF LoadMarks, Goes
  <2>2. [req.in EXCEPT !.marks = k] = in
    BY <1>2
  <2>3. req' = [req EXCEPT !.at = "cursor", !.in = [req.in EXCEPT !.marks = k]]
    BY <2>1
  <2> HIDE DEF in
  <2>4. req' = [req EXCEPT !.at = "cursor", !.in = in]
    BY <2>2, <2>3
  <2> QED
    BY <1>1, <2>4
<1>4. Reads
  BY DEF LoadMarks, Goes
<1>5. IsRead(in, cursor)
  <2>1. DOMAIN marks \subseteq Symbols /\ marks \in [DOMAIN marks -> [price : Prices, event : Nat]]
    BY <1>1, MarkFacts DEF MarkInv
  <2>2. k \in MarkTables
    <3> DEFINE D == DOMAIN marks \cap Open(old.rows)
    <3>1. k \in [D -> [price : Prices, event : Nat]] /\ D \in SUBSET Symbols
      BY <2>1
    <3> HIDE DEF D
    <3> QED
      BY <3>1 DEF MarkTables
  <2>3. DOMAIN k \subseteq Open(old.rows) /\ AreQuoted(k)
    BY <1>1 DEF MarkInv, AreQuoted
  <2>4. in \in Inputs
    BY <1>2, <2>2 DEF Inputs
  <2> QED
    BY <1>2, <2>3, <2>4 DEF IsRead
<1> HIDE DEF in
<1> PICK i : i = in
  OBVIOUS
<1> PICK c : c = cursor
  OBVIOUS
<1>6. IsRead(i, c)' /\ cursor' = cursor
  BY <1>1, <1>4, <1>5, ReadsKeepTables DEF Reads, database
<1>7. IsRead(req.in, cursor)'
  <2>1. req'.in = i /\ cursor' = c
    BY <1>3, <1>6
  <2> QED
    BY <1>6, <2>1
<1>8. IsAsked(req')
  BY <1>1, <1>3 DEF IsAsked
<1> QED
  BY <1>3, <1>4, <1>7, <1>8 DEF ReqInv, PortfolioInv, IsAsked, PriceInv, Stages

\* What is read at the end of the book's statements, with the cursor.
LEMMA CursorIsRead ==
  ASSUME IInv, req.at = "cursor"
  PROVE  LET in == [req.in EXCEPT !.cursor = cursor]
         IN  /\ IsRead(in, in.cursor) /\ in.cursor = cursor
             /\ IsAsked(req)
<1>1. /\ IsAsked(req) /\ BookInv /\ IsRead(req.in, cursor)
  BY DEF IInv, ReqInv, PortfolioInv
<1> PICK old : old = req.in
  OBVIOUS
<1> DEFINE in == [rows |-> old.rows, marks |-> old.marks, cursor |-> cursor]
<1>2. old = [rows |-> old.rows, marks |-> old.marks, cursor |-> old.cursor]
      /\ old.rows \in Books /\ old.marks \in MarkTables
  BY <1>1 DEF IsRead, Inputs
<1>3. [req.in EXCEPT !.cursor = cursor] = in
  BY <1>2
<1>4. cursor \in Nat
  <2>1. \A n : \A c \in 0..n : c \in Nat
    OBVIOUS
  <2> QED
    BY <1>1, <2>1 DEF BookInv
<1>5. IsRead(in, cursor)
  <2>1. in \in Inputs
    BY <1>2, <1>4 DEF Inputs
  <2>2. IsBook(in.rows, cursor) /\ AreQuoted(in.marks) /\ DOMAIN in.marks \subseteq Open(in.rows)
    BY <1>1 DEF IsRead
  <2> QED
    BY <2>1, <2>2 DEF IsRead
<1>6. in.cursor = cursor
  OBVIOUS
<1> HIDE DEF in
<1> QED
  BY <1>1, <1>3, <1>5, <1>6

LEMMA LoadCursorKeeps ==
  ASSUME IInv, LoadCursor
  PROVE  ReqInv' /\ Reads
<1> DEFINE in == [req.in EXCEPT !.cursor = cursor]
<1>1. IsRead(in, in.cursor) /\ BookInv /\ MarkInv /\ DaysInv
  BY CursorIsRead DEF LoadCursor, IInv
<1> HIDE DEF in
<1>2. /\ Reads
      /\ \/ req' = Done
         \/ /\ \A s \in Open(in.rows) : HasPrice(in, s)
            /\ req' = [at |-> IF Open(in.rows) = {} THEN "build" ELSE "counts",
                       kind |-> req.kind, in |-> in, sigma |-> None, samples |-> None]
  BY DEF LoadCursor, GroundRisk, RunScenario, Responds, Refuses, Goes, in
<1>3. ASSUME \A s \in Open(in.rows) : HasPrice(in, s),
             NEW a, a = (IF Open(in.rows) = {} THEN "build" ELSE "counts"),
             req' = [at |-> a, kind |-> req.kind, in |-> in, sigma |-> None, samples |-> None]
      PROVE  ReqInv'
  <2> PICK i : i = in
    OBVIOUS
  <2>1. IsRead(i, i.cursor)'
    BY <1>1, <1>2, ReadsKeepTables
  <2>2. IsRead(req.in, req.in.cursor)'
    BY <1>3, <2>1
  <2>3. a \in {"counts", "build"} /\ (a = "build" => Open(in.rows) = {})
    BY <1>3
  <2>4. DOMAIN None = {}
    BY NoneIsEmpty
  <2>5. /\ req'.at = a /\ req'.in = in /\ req'.sigma = None /\ req'.samples = None
        /\ req' = [at |-> req'.at, kind |-> req'.kind, in |-> req'.in,
                   sigma |-> req'.sigma, samples |-> req'.samples]
    BY <1>3
  <2>6. PortfolioInv'
    BY <1>3, <2>2, <2>3, <2>4, <2>5 DEF PortfolioInv
  <2>7. PriceInv' /\ req'.at \in Stages
    BY <2>3, <2>5 DEF PriceInv, Stages
  <2> QED
    BY <2>6, <2>7 DEF ReqInv
<1> QED
  BY <1>2, <1>3, EndKeeps

LEMMA CountSamplesKeeps ==
  ASSUME IInv, CountSamples
  PROVE  ReqInv' /\ Reads
<1>1. /\ BookInv /\ MarkInv /\ DaysInv
      /\ req = [at |-> "counts", kind |-> req.kind, in |-> req.in,
                sigma |-> req.sigma, samples |-> req.samples]
      /\ IsRead(req.in, req.in.cursor)
      /\ \A s \in Open(req.in.rows) : HasPrice(req.in, s)
  BY DEF IInv, ReqInv, PortfolioInv, CountSamples
<1>2. /\ Reads
      /\ \/ req' = Done
         \/ /\ \A s \in Open(req.in.rows) : Enough(Samples(s))
            /\ req' = [req EXCEPT !.at = "sigmas"]
  BY DEF CountSamples, Refuses, Goes
<1>3. ASSUME \A s \in Open(req.in.rows) : Enough(Samples(s)), req' = [req EXCEPT !.at = "sigmas"]
      PROVE  ReqInv'
  <2>1. req' = [at |-> "sigmas", kind |-> req.kind, in |-> req.in,
                sigma |-> req.sigma, samples |-> req.samples]
    BY <1>1, <1>3
  <2> PICK i : i = req.in
    OBVIOUS
  <2>2. IsRead(i, i.cursor)'
    BY <1>1, <1>2, ReadsKeepTables
  <2>3. IsRead(req.in, req.in.cursor)'
    BY <2>1, <2>2
  <2>4. Open(i.rows) \subseteq Symbols
    <3>1. i.rows \in Books
      BY <1>1 DEF IsRead, Inputs
    <3> QED
      BY <3>1, BookFacts DEF Open
  <2>5. \A s \in Open(i.rows) : HasTwoReturns(returns[s])
    BY <1>1, <1>3, <2>4, EnoughSamples
  <2>6. \A s \in Open(req'.in.rows) : HasTwoReturns(returns'[s])
    BY <1>2, <2>1, <2>5 DEF Reads, database
  <2>7. \A s \in Open(req'.in.rows) : HasPrice(req'.in, s)
    BY <1>1, <2>1
  <2>8. PortfolioInv'
    BY <2>1, <2>3, <2>6, <2>7 DEF PortfolioInv
  <2>9. PriceInv' /\ req'.at \in Stages
    BY <2>1 DEF PriceInv, Stages
  <2> QED
    BY <2>8, <2>9 DEF ReqInv
<1> QED
  BY <1>2, <1>3, EndKeeps

LEMMA LoadSigmasKeeps ==
  ASSUME IInv, LoadSigmas
  PROVE  ReqInv' /\ Reads
<1>1. /\ BookInv /\ MarkInv /\ DaysInv
      /\ req = [at |-> "sigmas", kind |-> req.kind, in |-> req.in,
                sigma |-> req.sigma, samples |-> req.samples]
      /\ IsRead(req.in, req.in.cursor)
      /\ \A s \in Open(req.in.rows) : HasPrice(req.in, s)
      /\ \A s \in Open(req.in.rows) : HasTwoReturns(returns[s])
  BY DEF IInv, ReqInv, PortfolioInv, LoadSigmas
<1> PICK i : i = req.in
  OBVIOUS
<1> PICK samples : samples = SamplesOfOpen
  OBVIOUS
<1> PICK sigma : sigma = [s \in DOMAIN SamplesOfOpen |-> Spread(Samples(s))]
  OBVIOUS
<1>2. Reads /\ req' = [at |-> "build", kind |-> req.kind, in |-> i,
                       sigma |-> sigma, samples |-> samples]
  <2>1. Reads /\ req' = [req EXCEPT !.at = "build", !.samples = samples, !.sigma = sigma]
    BY DEF LoadSigmas, Goes
  <2> QED
    BY <1>1, <2>1
<1>3. DOMAIN samples = Open(i.rows) /\ DOMAIN sigma = Open(i.rows)
      /\ \A s \in Open(i.rows) : samples[s] = Samples(s)
  BY DEF SamplesOfOpen
<1>4. Open(i.rows) \subseteq Symbols
  <2>1. i.rows \in Books
    BY <1>1 DEF IsRead, Inputs
  <2> QED
    BY <2>1, BookFacts DEF Open
<1>5. \A s \in Open(i.rows) : Enough(samples[s])
  BY <1>1, <1>3, <1>4, EnoughSamples
<1>6. IsRead(i, i.cursor)'
  BY <1>1, <1>2, ReadsKeepTables
<1>7. IsRead(req.in, req.in.cursor)'
  BY <1>2, <1>6
<1>8. \A s \in Open(i.rows) : HasPrice(i, s)
  BY <1>1
<1>9. PortfolioInv'
  BY <1>2, <1>3, <1>5, <1>7, <1>8 DEF PortfolioInv, Enough
<1>10. PriceInv' /\ req'.at \in Stages
  BY <1>2 DEF PriceInv, Stages
<1> QED
  BY <1>2, <1>9, <1>10 DEF ReqInv

LEMMA BuildRiskKeeps ==
  ASSUME ReqInv, BuildRisk
  PROVE  ReqInv' /\ Reads
<1>1. Reads /\ (req' = Done \/ req' = [req EXCEPT !.at = "events"])
  BY DEF BuildRisk, Responds, Goes
<1>2. req = [at |-> "build", kind |-> req.kind, in |-> req.in,
             sigma |-> req.sigma, samples |-> req.samples]
  BY DEF BuildRisk, ReqInv, PortfolioInv
<1>3. req' = Done \/ req'.at = "events"
  BY <1>1, <1>2
<1> QED
  BY <1>1, <1>3, EndKeeps DEF ReqInv, PortfolioInv, PriceInv, Stages

LEMMA ExplainKeeps ==
  ASSUME LoadEvents \/ ModelReplies
  PROVE  ReqInv' /\ Reads
<1>1. Reads /\ (req' = Done \/ req'.at = "model")
  BY DEF LoadEvents, ModelReplies, Refuses, Responds, Goes
<1> QED
  BY <1>1, EndKeeps DEF ReqInv, PortfolioInv, PriceInv, Stages

LEMMA PricesKeep ==
  ASSUME IInv, AsksForPrices \/ CountMarks \/ ListMarks \/ LoadHead \/ LoadHistory
  PROVE  ReqInv' /\ Reads
<1>1. BookInv /\ MarkInv /\ PriceInv
  BY DEF IInv, ReqInv
<1>2. CASE AsksForPrices
  <2>1. Reads /\ \/ \E n \in Limits, k \in Offsets :
                      req' = [at |-> "count", kind |-> "prices", limit |-> n, offset |-> k]
                 \/ \E s \in Symbols : req' = [at |-> "head", kind |-> "price", symbol |-> s]
    BY <1>2 DEF AsksForPrices, Goes
  <2> QED
    BY <2>1 DEF ReqInv, PortfolioInv, PriceInv, Stages
<1>3. CASE CountMarks
  <2>1. Reads /\ req' = [at |-> "list", kind |-> "prices", limit |-> req.limit,
                         offset |-> req.offset, total |-> Cardinality(DOMAIN marks)]
    BY <1>3 DEF CountMarks, Goes
  <2>2. req.limit \in Limits /\ req.offset \in Offsets
    BY <1>1, <1>3 DEF CountMarks, PriceInv
  <2>3. marks' = marks
    BY <2>1 DEF Reads, database
  <2>4. Cardinality(DOMAIN marks) \in 0..Cardinality(DOMAIN marks)
    <3>1. IsFiniteSet(Symbols) /\ DOMAIN marks \subseteq Symbols
      BY <1>1, MarkFacts, ValuationAssumption DEF MarkInv
    <3>2. Cardinality(DOMAIN marks) \in Nat
      BY <3>1, FS_Subset, FS_CardinalityType
    <3> QED
      BY <3>2
  <2> QED
    BY <2>1, <2>2, <2>3, <2>4 DEF ReqInv, PortfolioInv, PriceInv, Stages
<1>4. CASE ListMarks
  <2>1. Reads /\ req' = Done
    BY <1>4 DEF ListMarks, Responds
  <2> QED
    BY <2>1, EndKeeps
<1>5. CASE LoadHead
  <2>1. Reads /\ \/ req' = Done
                 \/ /\ req.symbol \in DOMAIN marks
                    /\ req' = [at |-> "history", kind |-> "price", symbol |-> req.symbol,
                               head |-> marks[req.symbol].event]
    BY <1>5 DEF LoadHead, Goes, Refuses
  <2>2. marks' = marks
    BY <2>1 DEF Reads, database
  <2>3. \A s \in DOMAIN marks : marks[s].event \in 1..marks[s].event
    <3>1. ASSUME NEW s \in DOMAIN marks PROVE marks[s].event \in Nat /\ marks[s].event \in 1..last
      BY <1>1, MarkFacts DEF MarkInv, AreQuoted
    <3>2. ASSUME NEW e \in Nat, NEW n, e \in 1..n PROVE e \in 1..e
      BY <3>2
    <3> QED
      BY <3>1, <3>2
  <2> QED
    BY <2>1, <2>2, <2>3, EndKeeps DEF ReqInv, PortfolioInv, PriceInv, Stages
<1>6. CASE LoadHistory
  <2>1. Reads /\ req' = Done
    BY <1>6 DEF LoadHistory, Responds
  <2> QED
    BY <2>1, EndKeeps
<1> QED
  BY <1>2, <1>3, <1>4, <1>5, <1>6

LEMMA HandlerKeeps ==
  ASSUME IInv, Handler
  PROVE  IInv' /\ Reads
<1>1. ReqInv' /\ Reads
  <2>1. CASE AsksForPortfolio
    BY <2>1, AsksForPortfolioKeeps
  <2>2. CASE CheckExists
    BY <2>2, CheckExistsKeeps DEF IInv
  <2>3. CASE LoadPositions
    BY <2>3, LoadPositionsKeeps
  <2>4. CASE LoadMarks
    BY <2>4, LoadMarksKeeps
  <2>5. CASE LoadCursor
    BY <2>5, LoadCursorKeeps
  <2>6. CASE CountSamples
    BY <2>6, CountSamplesKeeps
  <2>7. CASE LoadSigmas
    BY <2>7, LoadSigmasKeeps
  <2>8. CASE BuildRisk
    BY <2>8, BuildRiskKeeps DEF IInv
  <2>9. CASE LoadEvents \/ ModelReplies
    BY <2>9, ExplainKeeps
  <2>10. CASE AsksForPrices \/ CountMarks \/ ListMarks \/ LoadHead \/ LoadHistory
    BY <2>10, PricesKeep
  <2>11. CASE StatementFails
    <3>1. req' = Done /\ Reads
      BY <2>11 DEF StatementFails, Refuses, Goes
    <3> QED
      BY <3>1, EndKeeps
  <2> QED
    BY <2>1, <2>2, <2>3, <2>4, <2>5, <2>6, <2>7, <2>8, <2>9, <2>10, <2>11 DEF Handler
<1>2. BookInv' /\ MarkInv' /\ DaysInv'
  BY <1>1, ReadsKeepTables DEF IInv
<1> QED
  BY <1>1, <1>2 DEF IInv

LEMMA NextKeeps == IInv /\ [Next]_vars => IInv'
<1> SUFFICES ASSUME IInv, [Next]_vars PROVE IInv'
  OBVIOUS
<1>1. CASE Handler
  BY <1>1, HandlerKeeps
<1>2. CASE CommitTrades
  BY <1>2, CommitTradesKeeps
<1>3. ASSUME NEW s \in Symbols, TradeArrives(s) PROVE IInv'
  BY <1>3, TradeArrivesKeeps
<1>4. ASSUME NEW s \in Symbols, CommitPrice(s) PROVE IInv'
  BY <1>4, CommitPriceKeeps
<1>5. CASE UNCHANGED vars
  <2>1. /\ UNCHANGED <<catalogued, logged, positions, cursor, marks, returns, req>>
        /\ UNCHANGED <<last, books, quoted>>
    BY <1>5 DEF vars
  <2>2. Reads
    BY <2>1 DEF Reads, database
  <2>3. BookInv' /\ MarkInv' /\ DaysInv' /\ (\A in, c : IsRead(in, c) => IsRead(in, c)')
    BY <2>2, ReadsKeepTables DEF IInv
  <2>4. PortfolioInv' /\ PriceInv' /\ req'.at \in Stages
    BY <2>1, <2>3 DEF IInv, ReqInv, PortfolioInv, PriceInv
  <2> QED
    BY <2>3, <2>4 DEF IInv, ReqInv
<1> QED
  BY <1>1, <1>2, <1>3, <1>4, <1>5 DEF Next

\* What is stored, and what a request holds at each of its stages.
THEOREM IInvHolds == Spec => []IInv
  BY InitHolds, NextKeeps, PTL DEF Spec

\* The tables keep their shapes, and there are no rows without a cursor.
THEOREM TypeCorrect == Spec => []TypeOK
<1>1. IInv => TypeOK
  <2> SUFFICES ASSUME IInv PROVE TypeOK
    OBVIOUS
  <2>1. BookInv /\ MarkInv /\ DaysInv /\ req.at \in Stages
    BY DEF IInv, ReqInv
  <2>2. /\ catalogued \in BOOLEAN /\ logged \subseteq Symbols
        /\ DOMAIN positions \subseteq logged /\ cursor \in 0..last
        /\ cursor = NoEvent => positions = None
        /\ last \in LastEvent0..LastEvent0 + MaxCommits
    BY <2>1 DEF BookInv
  <2>3. Range(positions) \subseteq Rows
    <3>1. positions \in Books
      BY <2>1 DEF BookInv
    <3> QED
      BY <3>1, BookFacts DEF Range
  <2>4. /\ DOMAIN marks \subseteq Symbols
        /\ \A s \in DOMAIN marks : marks[s].price \in Prices /\ marks[s].event \in 1..last
    <3>1. marks \in MarkTables /\ AreQuoted(marks) /\ DOMAIN quoted \subseteq 1..last
      BY <2>1 DEF MarkInv
    <3> QED
      BY <3>1, MarkFacts DEF AreQuoted
  <2>5. ASSUME NEW s \in Symbols
        PROVE  Len(returns[s]) \in 0..Window /\ (returns[s] = << >>) = (s \notin DOMAIN marks)
    <3>1. IsHistory(returns[s]) /\ (returns[s] = << >> <=> s \notin DOMAIN marks)
      BY <2>1 DEF DaysInv
    <3>2. \A n \in Nat : n <= Window => n \in 0..Window
      BY ReadAssumption
    <3>3. Len(returns[s]) \in Nat /\ Len(returns[s]) <= Window
      BY <3>1 DEF IsHistory
    <3> QED
      BY <3>1, <3>2, <3>3
  <2> QED
    BY <2>1, <2>2, <2>3, <2>4, <2>5 DEF TypeOK
<1> QED
  BY <1>1, IInvHolds, PTL

-----------------------------------------------------------------------------
(* What the answers are, by the last step of their requests.               *)

BookIsRead(in) == IsRead(in, in.cursor) /\ DOMAIN books \subseteq Nat \ {0}

IsViewAnswer(a) ==
  \E in : BookIsRead(in) /\ a = [kind |-> "view", in |-> in, view |-> AssemblePortfolioView(in)]

IsScenarioAnswer(a) ==
  \E in : \E shocks \in ShockLists :
    /\ BookIsRead(in) /\ ValidShocks(shocks) /\ MissingMarks(in, shocks) = {}
    /\ LET base    == AssemblePortfolioView(in)
           shocked == AssemblePortfolioView(Shocked(in, shocks))
       IN  a = [kind |-> "scenario", in |-> in, view |-> base, shocked |-> shocked,
                delta |-> Delta(base, shocked), shocks |-> shocks]

IsRiskAnswer(a) ==
  \E in, sigma, samples :
    /\ BookIsRead(in) /\ \A s \in Open(in.rows) : HasPrice(in, s)
    /\ DOMAIN sigma = Open(in.rows) /\ \A s \in Open(in.rows) : Enough(samples[s])
    /\ a = [kind |-> "risk", in |-> in, view |-> AssemblePortfolioView(in),
            samples |-> samples, risk |-> BuildSnapshot(in, sigma)]

IsExplainAnswer(a) ==
  \E reply \in Replies : \E context :
    /\ Explain(reply, context).verdict = "ok"
    /\ a = [kind |-> "explain", context |-> context, reply |-> reply,
            wording |-> Explain(reply, context).wording,
            names |-> Explain(reply, context).names,
            metrics |-> Explain(reply, context).metrics]

IsPageAnswer(a) ==
  \E limit \in Limits, offset \in Offsets : \E total \in 0..Cardinality(DOMAIN marks) :
    a = [kind |-> "prices", total |-> total, limit |-> limit, offset |-> offset,
         items |-> Page(limit, offset)]

IsDetailAnswer(a) ==
  \E s \in DOMAIN marks : \E head \in 1..marks[s].event :
    a = [kind |-> "price", symbol |-> s, head |-> head,
         history |-> Reverse([i \in DOMAIN returns[s] |-> returns[s][i].event])]

LEMMA AnswerCases ==
  ASSUME IInv, Next
  PROVE  \/ answer' = NoAnswer
         \/ /\ Reads
            /\ \/ IsViewAnswer(answer') \/ IsScenarioAnswer(answer') \/ IsRiskAnswer(answer')
               \/ IsExplainAnswer(answer') \/ IsPageAnswer(answer') \/ IsDetailAnswer(answer')
<1> SUFFICES ASSUME answer' # NoAnswer
             PROVE  /\ Reads
                    /\ \/ IsViewAnswer(answer') \/ IsScenarioAnswer(answer')
                       \/ IsRiskAnswer(answer') \/ IsExplainAnswer(answer')
                       \/ IsPageAnswer(answer') \/ IsDetailAnswer(answer')
  OBVIOUS
<1>1. LoadCursor \/ BuildRisk \/ ModelReplies \/ ListMarks \/ LoadHistory
  BY DEF Next, CommitTrades, TradeArrives, CommitPrice, Handler, AsksForPortfolio, Ask,
         CheckExists, LoadPositions, LoadMarks, CountSamples, LoadSigmas, LoadEvents,
         AsksForPrices, CountMarks, LoadHead, StatementFails, Refuses, Goes
<1>2. Reads
  BY <1>1, HandlerKeeps DEF Handler
<1>3. DOMAIN books \subseteq Nat \ {0}
  <2>1. \A n : 1..n \subseteq Nat \ {0}
    OBVIOUS
  <2> QED
    BY <2>1 DEF IInv, BookInv
<1>4. CASE LoadCursor
  <2> DEFINE in == [req.in EXCEPT !.cursor = cursor]
  <2>1. IsRead(in, in.cursor) /\ IsAsked(req)
    BY <1>4, CursorIsRead DEF LoadCursor
  <2> HIDE DEF in
  <2>2. BookIsRead(in)
    BY <1>3, <2>1 DEF BookIsRead
  <2>3. \/ req.kind = "view" /\ answer' = AnswerWith(in)
        \/ /\ req.kind = "scenario" /\ MissingMarks(in, req.shocks) = {}
           /\ LET base    == AssemblePortfolioView(in)
                  shocked == AssemblePortfolioView(Shocked(in, req.shocks))
              IN  answer' = [kind |-> "scenario", in |-> in, view |-> base, shocked |-> shocked,
                             delta |-> Delta(base, shocked), shocks |-> req.shocks]
    BY <1>4 DEF LoadCursor, RunScenario, GroundRisk, Responds, Refuses, Goes, in
  <2>4. CASE req.kind = "view" /\ answer' = AnswerWith(in)
    BY <1>2, <2>2, <2>4 DEF AnswerWith, IsViewAnswer
  <2>5. CASE /\ req.kind = "scenario" /\ MissingMarks(in, req.shocks) = {}
             /\ LET base    == AssemblePortfolioView(in)
                    shocked == AssemblePortfolioView(Shocked(in, req.shocks))
                IN  answer' = [kind |-> "scenario", in |-> in, view |-> base,
                               shocked |-> shocked, delta |-> Delta(base, shocked),
                               shocks |-> req.shocks]
    <3>1. req.shocks \in ShockLists /\ ValidShocks(req.shocks)
      BY <2>1, <2>5 DEF IsAsked
    <3> QED
      BY <1>2, <2>2, <2>5, <3>1 DEF IsScenarioAnswer
  <2> QED
    BY <2>3, <2>4, <2>5
<1>5. CASE BuildRisk
  <2>1. /\ IsRead(req.in, req.in.cursor)
        /\ \A s \in Open(req.in.rows) : HasPrice(req.in, s)
        /\ DOMAIN req.sigma = Open(req.in.rows)
        /\ \A s \in Open(req.in.rows) : Enough(req.samples[s])
    BY <1>5 DEF BuildRisk, IInv, ReqInv, PortfolioInv
  <2>2. req.kind = "risk" /\ answer' = RiskAnswer
    BY <1>5 DEF BuildRisk, Responds, Goes
  <2>3. answer' = [kind |-> "risk", in |-> req.in, view |-> AssemblePortfolioView(req.in),
                   samples |-> req.samples, risk |-> BuildSnapshot(req.in, req.sigma)]
    BY <2>2 DEF RiskAnswer
  <2> QED
    BY <1>2, <1>3, <2>1, <2>3 DEF IsRiskAnswer, BookIsRead
<1>6. CASE ModelReplies
  <2>1. PICK reply \in Replies :
          LET out == Explain(reply, req.context)
          IN  IF out.verdict # "ok" THEN Refuses
              ELSE Responds([kind |-> "explain", context |-> req.context, reply |-> reply,
                             wording |-> out.wording, names |-> out.names,
                             metrics |-> out.metrics])
    BY <1>6 DEF ModelReplies
  <2>2. /\ Explain(reply, req.context).verdict = "ok"
        /\ answer' = [kind |-> "explain", context |-> req.context, reply |-> reply,
                      wording |-> Explain(reply, req.context).wording,
                      names |-> Explain(reply, req.context).names,
                      metrics |-> Explain(reply, req.context).metrics]
    BY <2>1 DEF Refuses, Responds, Goes
  <2> QED
    BY <1>2, <2>2 DEF IsExplainAnswer
<1>7. CASE ListMarks
  <2>1. /\ req.limit \in Limits /\ req.offset \in Offsets
        /\ req.total \in 0..Cardinality(DOMAIN marks)
    BY <1>7 DEF ListMarks, IInv, ReqInv, PriceInv
  <2>2. answer' = [kind |-> "prices", total |-> req.total, limit |-> req.limit,
                   offset |-> req.offset, items |-> Page(req.limit, req.offset)]
    BY <1>7 DEF ListMarks, Responds
  <2> QED
    BY <1>2, <2>1, <2>2 DEF IsPageAnswer
<1>8. CASE LoadHistory
  <2>1. req.symbol \in DOMAIN marks /\ req.head \in 1..marks[req.symbol].event
    BY <1>8 DEF LoadHistory, IInv, ReqInv, PriceInv
  <2>2. answer' = [kind |-> "price", symbol |-> req.symbol, head |-> req.head,
                   history |-> Reverse([i \in DOMAIN returns[req.symbol] |->
                                          returns[req.symbol][i].event])]
    BY <1>8 DEF LoadHistory, Responds
  <2> QED
    BY <1>2, <2>1, <2>2 DEF IsDetailAnswer
<1> QED
  BY <1>1, <1>4, <1>5, <1>6, <1>7, <1>8

\* What kind of answer there is.
LEMMA AnswerKinds ==
  ASSUME NEW a
  PROVE  /\ a = NoAnswer => a.kind = "none"
         /\ IsViewAnswer(a) => a.kind = "view"
         /\ IsScenarioAnswer(a) => a.kind = "scenario"
         /\ IsRiskAnswer(a) => a.kind = "risk"
         /\ IsExplainAnswer(a) => a.kind = "explain"
         /\ IsPageAnswer(a) => a.kind = "prices"
         /\ IsDetailAnswer(a) => a.kind = "price"
<1>1. a = NoAnswer => a.kind = "none"
  BY DEF NoAnswer
<1>2. IsViewAnswer(a) => a.kind = "view"
  BY DEF IsViewAnswer
<1>3. IsScenarioAnswer(a) => a.kind = "scenario"
  BY DEF IsScenarioAnswer
<1>4. IsRiskAnswer(a) => a.kind = "risk"
  BY DEF IsRiskAnswer
<1>5. IsExplainAnswer(a) => a.kind = "explain"
  BY DEF IsExplainAnswer
<1>6. IsPageAnswer(a) => a.kind = "prices"
  BY DEF IsPageAnswer
<1>7. IsDetailAnswer(a) => a.kind = "price"
  BY DEF IsDetailAnswer
<1> QED
  BY <1>1, <1>2, <1>3, <1>4, <1>5, <1>6, <1>7

\* The view in an answer about a portfolio is that of what was read.
LEMMA AnswerHasView ==
  ASSUME IInv, Next, answer'.kind \in {"view", "risk", "scenario"}
  PROVE  /\ Reads
         /\ \E in : BookIsRead(in) /\ answer'.view = AssemblePortfolioView(in)
<1>1. Reads /\ (IsViewAnswer(answer') \/ IsScenarioAnswer(answer') \/ IsRiskAnswer(answer'))
  <2> PICK a : a = answer'
    OBVIOUS
  <2> QED
    BY AnswerCases, AnswerKinds
<1>2. CASE IsViewAnswer(answer')
  BY <1>1, <1>2 DEF IsViewAnswer
<1>3. CASE IsScenarioAnswer(answer')
  BY <1>1, <1>3 DEF IsScenarioAnswer
<1>4. CASE IsRiskAnswer(answer')
  BY <1>1, <1>4 DEF IsRiskAnswer
<1> QED
  BY <1>1, <1>2, <1>3, <1>4

-----------------------------------------------------------------------------
(* The properties of the answers.                                          *)

LEMMA InitAnswersNothing ==
  Init => /\ AnswersAreOfOneBook /\ LineageIsHonest /\ ShocksMoveMarksOnly /\ RiskIsComplete
          /\ ExplanationIsGrounded /\ LaterReadsAreNoOlder
<1> SUFFICES ASSUME answer.kind = "none"
             PROVE  /\ AnswersAreOfOneBook /\ LineageIsHonest /\ ShocksMoveMarksOnly
                    /\ RiskIsComplete /\ ExplanationIsGrounded /\ LaterReadsAreNoOlder
  BY DEF Init, NoAnswer
<1> QED
  BY DEF AnswersAreOfOneBook, LineageIsHonest, ShocksMoveMarksOnly, RiskIsComplete,
         ExplanationIsGrounded, LaterReadsAreNoOlder

\* An answer about a portfolio is the arithmetic of one book that was committed,
\* by the as-of event or before it, at prices that its as-of events carried.
THEOREM AnswersOfOneBook == Spec => []AnswersAreOfOneBook
<1>1. IInv /\ AnswersAreOfOneBook /\ [Next]_vars => AnswersAreOfOneBook'
  <2> SUFFICES ASSUME IInv, AnswersAreOfOneBook, [Next]_vars PROVE AnswersAreOfOneBook'
    OBVIOUS
  <2>1. ASSUME NEW w, NEW b, quoted' = quoted, IsValueOf(w, b) PROVE IsValueOf(w, b)'
    BY <2>1 DEF IsValueOf, PriceOf
  <2>2. CASE Next /\ answer'.kind \in {"view", "risk", "scenario"}
    <3>1. PICK in : BookIsRead(in) /\ answer'.view = AssemblePortfolioView(in)
      BY <2>2, AnswerHasView
    <3>2. books' = books /\ quoted' = quoted
      BY <2>2, AnswerHasView DEF Reads
    <3> PICK w : w = answer'.view
      OBVIOUS
    <3> PICK b : b = in.rows
      OBVIOUS
    <3>3. w.asOfPos = in.cursor
      BY <3>1 DEF AssemblePortfolioView
    <3>4. IsRead(in, in.cursor)
      BY <3>1 DEF BookIsRead
    <3>5. IsValueOf(w, b)'
      <4>1. IsValueOf(w, b)
        BY <3>1, <3>4, ViewIsOfItsBook
      <4> QED
        BY <2>1, <3>2, <4>1
    <3>6. b = None \/ \E e \in DOMAIN books : e <= w.asOfPos /\ books[e] = b
      BY <3>3, <3>4 DEF IsRead, IsBook
    <3>7. CASE b = None
      <4>1. IsValueOf(answer.view, None)'
        BY <3>5, <3>7
      <4> QED
        BY <4>1 DEF AnswersAreOfOneBook
    <3>8. CASE b # None
      <4>1. PICK e \in DOMAIN books : e <= w.asOfPos /\ books[e] = b
        BY <3>6, <3>8
      <4>2. IsValueOf(answer.view, books[e])'
        BY <3>2, <3>5, <4>1
      <4>3. e \in DOMAIN books' /\ e <= answer'.view.asOfPos
        BY <3>2, <4>1
      <4> QED
        BY <4>2, <4>3 DEF AnswersAreOfOneBook
    <3> QED
      BY <3>7, <3>8
  <2>3. CASE answer'.kind \notin {"view", "risk", "scenario"}
    BY <2>3 DEF AnswersAreOfOneBook
  <2>4. CASE UNCHANGED vars
    <3>1. answer' = answer /\ books' = books /\ quoted' = quoted
      BY <2>4 DEF vars
    <3>2. \A w, b : IsValueOf(w, b) => IsValueOf(w, b)'
      BY <2>1, <3>1
    <3> QED
      BY <3>1, <3>2 DEF AnswersAreOfOneBook
  <2> QED
    BY <2>2, <2>3, <2>4
<1> QED
  BY <1>1, IInvHolds, InitAnswersNothing, PTL DEF Spec

\* A single as-of event is named only when no number depends on another
\* partition; the driving events are those of the cursor and of the marks.
THEOREM LineageStaysHonest == Spec => []LineageIsHonest
<1>1. IInv /\ LineageIsHonest /\ [Next]_vars => LineageIsHonest'
  <2> SUFFICES ASSUME IInv, LineageIsHonest, [Next]_vars PROVE LineageIsHonest'
    OBVIOUS
  <2>1. CASE Next /\ answer'.kind \in {"view", "risk", "scenario"}
    <3>1. PICK in : BookIsRead(in) /\ answer'.view = AssemblePortfolioView(in)
      BY <2>1, AnswerHasView
    <3>2. quoted' = quoted
      BY <2>1, AnswerHasView DEF Reads
    <3> PICK v : v = answer'.view
      OBVIOUS
    <3>3. /\ v.asOf # NoEvent => /\ v.driving = {v.asOf}
                                 /\ \A s \in DOMAIN v.positions : v.positions[s].last = 0
          /\ v.driving = (Range(v.asOfPrices) \cup {v.asOfPos}) \ {NoEvent}
          /\ \A s \in DOMAIN v.asOfPrices : quoted[v.asOfPrices[s]].symbol = s
      <4>1. v = AssemblePortfolioView(in)
        BY <3>1
      <4> QED
        BY <3>1, <4>1, ViewLineage DEF BookIsRead
    <3> QED
      BY <3>2, <3>3 DEF LineageIsHonest
  <2>2. CASE answer'.kind \notin {"view", "risk", "scenario"}
    BY <2>2 DEF LineageIsHonest
  <2>3. CASE UNCHANGED vars
    BY <2>3 DEF vars, LineageIsHonest
  <2> QED
    BY <2>1, <2>2, <2>3
<1> QED
  BY <1>1, IInvHolds, InitAnswersNothing, PTL DEF Spec

\* A scenario moves the marks of the shocked symbols by their share and nothing
\* else.
THEOREM ShocksMoveOnlyMarks == Spec => []ShocksMoveMarksOnly
<1>1. IInv /\ ShocksMoveMarksOnly /\ [Next]_vars => ShocksMoveMarksOnly'
  <2> SUFFICES ASSUME IInv, ShocksMoveMarksOnly, [Next]_vars PROVE ShocksMoveMarksOnly'
    OBVIOUS
  <2>1. CASE Next /\ answer'.kind = "scenario"
    <3> PICK a : a = answer'
      OBVIOUS
    <3>1. IsScenarioAnswer(a)
      BY <2>1, AnswerCases, AnswerKinds
    <3>2. PICK in, shocks :
            /\ shocks \in ShockLists /\ BookIsRead(in)
            /\ ValidShocks(shocks) /\ MissingMarks(in, shocks) = {}
            /\ LET base    == AssemblePortfolioView(in)
                   shocked == AssemblePortfolioView(Shocked(in, shocks))
               IN  a = [kind |-> "scenario", in |-> in, view |-> base, shocked |-> shocked,
                        delta |-> Delta(base, shocked), shocks |-> shocks]
      BY <3>1 DEF IsScenarioAnswer
    <3>3. /\ a.view = AssemblePortfolioView(in)
          /\ a.shocked = AssemblePortfolioView(Shocked(in, shocks))
          /\ a.delta = Delta(a.view, a.shocked) /\ a.shocks = shocks
      BY <3>2
    <3>4. MovesMarksOnly(a.view, a.shocked, a.delta, a.shocks)
      BY <3>2, <3>3, ScenarioMovesMarks DEF BookIsRead
    <3> QED
      BY <3>4 DEF ShocksMoveMarksOnly
  <2>2. CASE answer'.kind # "scenario"
    BY <2>2 DEF ShocksMoveMarksOnly
  <2>3. CASE UNCHANGED vars
    BY <2>3 DEF vars, ShocksMoveMarksOnly
  <2> QED
    BY <2>1, <2>2, <2>3
<1> QED
  BY <1>1, IInvHolds, InitAnswersNothing, PTL DEF Spec

\* A risk answer covers every open position with a price and enough samples, its
\* weights add up to one but for rounding, and nothing left out of its top weighs
\* more than what is in it.
THEOREM RiskStaysComplete == Spec => []RiskIsComplete
<1>1. IInv /\ RiskIsComplete /\ [Next]_vars => RiskIsComplete'
  <2> SUFFICES ASSUME IInv, RiskIsComplete, [Next]_vars PROVE RiskIsComplete'
    OBVIOUS
  <2>1. CASE Next /\ answer'.kind = "risk"
    <3> PICK a : a = answer'
      OBVIOUS
    <3>1. IsRiskAnswer(a)
      BY <2>1, AnswerCases, AnswerKinds
    <3>2. PICK in, sigma, samples :
            /\ BookIsRead(in) /\ \A s \in Open(in.rows) : HasPrice(in, s)
            /\ DOMAIN sigma = Open(in.rows) /\ \A s \in Open(in.rows) : Enough(samples[s])
            /\ a = [kind |-> "risk", in |-> in, view |-> AssemblePortfolioView(in),
                    samples |-> samples, risk |-> BuildSnapshot(in, sigma)]
      BY <3>1 DEF IsRiskAnswer
    <3>3. CoversTheBook(in, AssemblePortfolioView(in), samples, BuildSnapshot(in, sigma))
      BY <3>2, SnapshotCovers DEF BookIsRead
    <3>4. CoversTheBook(a.in, a.view, a.samples, a.risk)
      BY <3>2, <3>3
    <3> QED
      BY <3>4 DEF RiskIsComplete
  <2>2. CASE answer'.kind # "risk"
    BY <2>2 DEF RiskIsComplete
  <2>3. CASE UNCHANGED vars
    BY <2>3 DEF vars, RiskIsComplete
  <2> QED
    BY <2>1, <2>2, <2>3
<1> QED
  BY <1>1, IInvHolds, InitAnswersNothing, PTL DEF Spec

\* Whatever the model replies: of what the text of its reply shows, an explanation
\* passes on no refused wording and no ticker that the book has no row for, and it
\* keeps the tickers of the book; the metrics it comes with are admitted ones.
THEOREM ExplanationStaysGrounded == Spec => []ExplanationIsGrounded
<1>1. ASSUME NEW reply \in Replies, NEW context, Explain(reply, context).verdict = "ok"
      PROVE  LET out == Explain(reply, context)
             IN  /\ out.wording \in {"plain", reply.hiddenWording}
                 /\ (out.names \ reply.hiddenNames) \ Long \subseteq context.allowed
                 /\ (reply.names \cap context.allowed) \ Split \subseteq out.names
                 /\ out.metrics # {} /\ out.metrics \subseteq Admitted
  <2> DEFINE metrics == MergeUsedMetrics(reply, context)
             allowed == context.allowed
             names   == IF Verdict(reply, reply.names, metrics, allowed) = "UNKNOWN_SYMBOL"
                        THEN reply.names \ Unknown(reply.names, allowed) ELSE reply.names
             verdict == Verdict(reply, names, metrics, allowed)
  <2>1. Explain(reply, context) = Decoded(reply, names, verdict, metrics)
    BY DEF Explain
  <2>2. reply.wording \in {"plain", "banned", "sql"}
    BY InsightsAssumption DEF Wordings
  <2>3. metrics # {}
    BY DEF MergeUsedMetrics
  <2>4. (reply.names \cap allowed) \ Split \subseteq names
    BY DEF Unknown
  <2> HIDE DEF names, metrics
  <2>5. verdict = "ok"
    BY <1>1, <2>1 DEF Decoded
  <2>6. /\ reply.wording = "plain" /\ metrics \subseteq Admitted
        /\ Unknown(names, allowed) = {}
    BY <2>2, <2>5 DEF Verdict
  <2>7. names \ Long \subseteq allowed
    BY <2>6 DEF Unknown
  <2> QED
    BY <2>1, <2>3, <2>4, <2>6, <2>7 DEF Decoded
<1>2. IInv /\ ExplanationIsGrounded /\ [Next]_vars => ExplanationIsGrounded'
  <2> SUFFICES ASSUME IInv, ExplanationIsGrounded, [Next]_vars PROVE ExplanationIsGrounded'
    OBVIOUS
  <2>1. CASE Next /\ answer'.kind = "explain"
    <3> PICK a : a = answer'
      OBVIOUS
    <3>1. IsExplainAnswer(a)
      BY <2>1, AnswerCases, AnswerKinds
    <3>2. PICK reply \in Replies :
            \E context :
              /\ Explain(reply, context).verdict = "ok"
              /\ a = [kind |-> "explain", context |-> context, reply |-> reply,
                      wording |-> Explain(reply, context).wording,
                      names |-> Explain(reply, context).names,
                      metrics |-> Explain(reply, context).metrics]
      BY <3>1 DEF IsExplainAnswer
    <3>3. PICK context :
            /\ Explain(reply, context).verdict = "ok"
            /\ a = [kind |-> "explain", context |-> context, reply |-> reply,
                    wording |-> Explain(reply, context).wording,
                    names |-> Explain(reply, context).names,
                    metrics |-> Explain(reply, context).metrics]
      BY <3>2
    <3>4. PICK out : out = Explain(reply, context)
      OBVIOUS
    <3>5. /\ out.wording \in {"plain", reply.hiddenWording}
          /\ (out.names \ reply.hiddenNames) \ Long \subseteq context.allowed
          /\ (reply.names \cap context.allowed) \ Split \subseteq out.names
          /\ out.metrics # {} /\ out.metrics \subseteq Admitted
      BY <1>1, <3>3, <3>4
    <3>6. /\ a.context = context /\ a.reply = reply /\ a.wording = out.wording
          /\ a.names = out.names /\ a.metrics = out.metrics
      BY <3>3, <3>4
    <3> QED
      BY <3>5, <3>6 DEF ExplanationIsGrounded
  <2>2. CASE answer'.kind # "explain"
    BY <2>2 DEF ExplanationIsGrounded
  <2>3. CASE UNCHANGED vars
    BY <2>3 DEF vars, ExplanationIsGrounded
  <2> QED
    BY <2>1, <2>2, <2>3
<1> QED
  BY <1>2, IInvHolds, InitAnswersNothing, PTL DEF Spec

\* A page has the rows that the total promised.
LEMMA PageIsFull ==
  ASSUME MarkInv, NEW limit \in Limits, NEW offset \in Offsets,
         NEW total \in 0..Cardinality(DOMAIN marks)
  PROVE  Cardinality(Page(limit, offset)) >= Min({limit, total - offset})
<1> DEFINE S == DOMAIN marks
           R == {p \in S \X S : p[1] < p[2]}
<1> PICK n : n = Cardinality(S)
  OBVIOUS
<1>1. S \subseteq Symbols /\ IsFiniteSet(S) /\ n \in Nat /\ Symbols \subseteq Nat
  <2>1. S \subseteq Symbols /\ IsFiniteSet(Symbols) /\ Symbols \subseteq Nat
    BY MarkFacts, ValuationAssumption DEF MarkInv
  <2> QED
    BY <2>1, FS_Subset, FS_CardinalityType
<1>2. limit \in Nat /\ limit > 0 /\ offset \in Nat /\ total \in 0..n
  BY ReadAssumption
<1>3. Min({limit, total - offset}) <= limit /\ Min({limit, total - offset}) <= total - offset
      /\ Min({limit, total - offset}) \in Int
  <2>1. \A i, j \in Int : Min({i, j}) = IF i <= j THEN i ELSE j
    <3> SUFFICES ASSUME NEW i \in Int, NEW j \in Int
                 PROVE  Min({i, j}) = IF i <= j THEN i ELSE j
      OBVIOUS
    <3>1. \A x \in {i, j} : (\A y \in {i, j} : x <= y) <=> x = IF i <= j THEN i ELSE j
      OBVIOUS
    <3>2. (IF i <= j THEN i ELSE j) \in {i, j}
      OBVIOUS
    <3> QED
      BY <3>1, <3>2 DEF Min
  <2>2. total - offset \in Int /\ limit \in Int
    BY <1>1, <1>2
  <2> QED
    BY <2>1, <2>2
<1> PICK m : m = Min({limit, total - offset})
  OBVIOUS
<1>4. \A s, t \in S : <<s, t>> \in R <=> s < t
  OBVIOUS
<1> HIDE DEF R
<1>5. IsOrder(S, R)
  <2>1. \A s \in S : s \in Nat
    BY <1>1
  <2> HIDE DEF S
  <2>2. /\ \A s \in S : <<s, s>> \notin R
        /\ \A s, t \in S : s = t \/ <<s, t>> \in R \/ <<t, s>> \in R
        /\ \A s, t, u \in S : <<s, t>> \in R /\ <<t, u>> \in R => <<s, u>> \in R
    BY <1>4, <2>1
  <2> QED
    BY <2>2 DEF IsOrder
<1>6. Page(limit, offset) = OfRanks(S, R, offset..offset + limit - 1)
  <2>1. \A s \in S : Cardinality({t \in S : t < s}) = Rank(S, R, s)
    BY <1>4 DEF Rank
  <2> QED
    BY <2>1 DEF Page, OfRanks
<1>7. CASE m <= 0
  <2>1. Cardinality(Page(limit, offset)) \in Nat
    <3>1. Page(limit, offset) \subseteq S
      BY DEF Page
    <3> QED
      BY <1>1, <3>1, FS_Subset, FS_CardinalityType
  <2> QED
    BY <1>3, <1>7, <2>1
<1>8. CASE m > 0
  <2> DEFINE A == offset..offset + m - 1
  <2>1. m \in Nat /\ m <= limit /\ offset + m <= n
    BY <1>1, <1>2, <1>3, <1>8
  <2>2. A \subseteq 0..n - 1 /\ A \subseteq offset..offset + limit - 1
    BY <1>1, <1>2, <2>1
  <2>3. Cardinality(A) = m
    <3>1. /\ offset \in Int /\ offset + m - 1 \in Int
          /\ ~(offset > offset + m - 1) /\ (offset + m - 1) - offset + 1 = m
      BY <1>2, <1>8, <2>1
    <3> QED
      BY <3>1, FS_Interval
  <2> HIDE DEF A
  <2>4. Cardinality(OfRanks(S, R, A)) = m
    <3>1. A \subseteq 0..Cardinality(S) - 1
      BY <2>2
    <3> HIDE DEF S
    <3> QED
      BY <1>1, <1>5, <2>3, <3>1, RanksCount
  <2>5. OfRanks(S, R, A) \subseteq Page(limit, offset) /\ Page(limit, offset) \subseteq S
    BY <1>6, <2>2 DEF OfRanks
  <2>6. IsFiniteSet(Page(limit, offset))
    BY <1>1, <2>5, FS_Subset
  <2>7. Cardinality(OfRanks(S, R, A)) <= Cardinality(Page(limit, offset))
    BY <2>5, <2>6, FS_Subset
  <2> QED
    BY <2>4, <2>6, <2>7, FS_CardinalityType
<1> QED
  BY <1>3, <1>7, <1>8

\* The newest day of a history is that of the mark.
LEMMA HistoryEndsAtMark ==
  ASSUME DaysInv, NEW s \in DOMAIN marks, s \in Symbols
  PROVE  LET history == Reverse([i \in DOMAIN returns[s] |-> returns[s][i].event])
         IN  history # << >> /\ history[1] = marks[s].event
<1> PICK d : d = returns[s]
  OBVIOUS
<1> DEFINE e == [i \in DOMAIN d |-> d[i].event]
           n == Len(d)
<1>1. /\ d \in Seq([event : Nat, ret : SUBSET Changes]) /\ d # << >>
      /\ d[n].event = marks[s].event
  BY DEF DaysInv, IsHistory
<1>2. n \in Nat /\ n # 0 /\ DOMAIN d = 1..n
  BY <1>1
<1>3. e \in Seq(Nat) /\ Len(e) = n /\ e[n] = marks[s].event
  <2>1. e = [i \in 1..n |-> d[i].event] /\ \A i \in 1..n : d[i].event \in Nat
    <3> DEFINE Row == [event : Nat, ret : SUBSET Changes]
    <3>1. \A r \in Row : r.event \in Nat
      OBVIOUS
    <3> HIDE DEF Row
    <3>2. \A i \in DOMAIN d : d[i] \in Row
      <4>1. d \in Seq(Row)
        BY <1>1 DEF Row
      <4> QED
        BY <4>1
    <3>3. \A i \in 1..n : d[i].event \in Nat
      BY <1>2, <3>1, <3>2
    <3> QED
      BY <1>2, <3>3
  <2>2. n \in 1..n
    <3>1. \A k \in Nat : k # 0 => k \in 1..k
      OBVIOUS
    <3> HIDE DEF n
    <3> QED
      BY <1>2, <3>1
  <2>3. e \in [1..n -> Nat] /\ e[n] = marks[s].event
    BY <1>1, <2>1, <2>2
  <2> HIDE DEF e, n
  <2>4. e \in Seq(Nat) /\ Len(e) = n
    BY <1>2, <2>3
  <2> QED
    BY <2>3, <2>4
<1> HIDE DEF e, n
<1>4. Reverse(e) = [i \in 1..n |-> e[(n - i) + 1]]
  BY <1>3 DEF Reverse
<1>5. 1 \in 1..n /\ (n - 1) + 1 = n
  BY <1>2
<1>6. Reverse(e)[1] = marks[s].event
  BY <1>3, <1>4, <1>5
<1>7. Reverse(e) # << >>
  BY <1>4, <1>5
<1> QED
  BY <1>6, <1>7 DEF e

\* What is read later is not older: a page has the rows that the total promised,
\* and the newest day of a symbol's history is that of its mark or newer.
THEOREM LaterReadsStayNewer == Spec => []LaterReadsAreNoOlder
<1>1. IInv /\ LaterReadsAreNoOlder /\ [Next]_vars => LaterReadsAreNoOlder'
  <2> SUFFICES ASSUME IInv, LaterReadsAreNoOlder, [Next]_vars PROVE LaterReadsAreNoOlder'
    OBVIOUS
  <2>1. MarkInv /\ DaysInv
    BY DEF IInv
  <2> PICK a : a = answer'
    OBVIOUS
  <2>2. CASE Next /\ a.kind = "prices"
    <3>1. IsPageAnswer(a)
      BY <2>2, AnswerCases, AnswerKinds
    <3>2. PICK limit \in Limits, offset \in Offsets, total \in 0..Cardinality(DOMAIN marks) :
            a = [kind |-> "prices", total |-> total, limit |-> limit, offset |-> offset,
                 items |-> Page(limit, offset)]
      BY <3>1 DEF IsPageAnswer
    <3>3. Cardinality(a.items) >= Min({a.limit, a.total - a.offset})
      BY <2>1, <3>2, PageIsFull
    <3> QED
      BY <2>2, <3>3 DEF LaterReadsAreNoOlder
  <2>3. CASE Next /\ a.kind = "price"
    <3>1. IsDetailAnswer(a)
      BY <2>3, AnswerCases, AnswerKinds
    <3> PICK s \in DOMAIN marks :
          \E head \in 1..marks[s].event :
            a = [kind |-> "price", symbol |-> s, head |-> head,
                 history |-> Reverse([i \in DOMAIN returns[s] |-> returns[s][i].event])]
      BY <3>1 DEF IsDetailAnswer
    <3>2. PICK head \in 1..marks[s].event :
            a = [kind |-> "price", symbol |-> s, head |-> head,
                 history |-> Reverse([i \in DOMAIN returns[s] |-> returns[s][i].event])]
      OBVIOUS
    <3>3. s \in Symbols /\ marks[s].event \in Nat
      BY <2>1, MarkFacts DEF MarkInv
    <3>4. a.history # << >> /\ a.history[1] = marks[s].event
      BY <2>1, <3>2, <3>3, HistoryEndsAtMark
    <3>5. a.history[1] >= a.head
      BY <3>2, <3>3, <3>4
    <3> QED
      BY <2>3, <3>4, <3>5 DEF LaterReadsAreNoOlder
  <2>4. CASE a.kind \notin {"prices", "price"}
    BY <2>4 DEF LaterReadsAreNoOlder
  <2>5. CASE UNCHANGED vars
    BY <2>5 DEF vars, LaterReadsAreNoOlder
  <2> QED
    BY <2>2, <2>3, <2>4, <2>5
<1> QED
  BY <1>1, IInvHolds, InitAnswersNothing, PTL DEF Spec
=============================================================================
