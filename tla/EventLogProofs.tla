--------------------------- MODULE EventLogProofs ---------------------------
(***************************************************************************)
(* Facts about the ordering key and the reads of the events table, for     *)
(* every log whose rows have natural times and ids and distinct ids.       *)
(***************************************************************************)
EXTENDS EventLog, FiniteSetTheorems, WellFoundedInduction, TLAPS

Cursors == Nat \X Nat

\* What the schema guarantees of the rows of a partition.
IsLog(S) ==
  /\ \A e \in S : e.time \in Nat /\ e.id \in Nat
  /\ \A e, f \in S : e.id = f.id => e = f

\* CompareCursors orders cursors strictly and totally.
LEMMA BeforeIsOrder ==
  ASSUME NEW a \in Cursors, NEW b \in Cursors, NEW c \in Cursors
  PROVE  /\ ~Before(a, a)
         /\ Before(a, b) => ~Before(b, a)
         /\ Before(a, b) /\ Before(b, c) => Before(a, c)
         /\ Before(a, b) \/ Before(b, a) \/ a = b
BY DEF Before, Cursors

\* No cursor is before Cursor{}.
LEMMA ZeroIsFirst ==
  ASSUME NEW a \in Cursors
  PROVE  /\ ZeroCursor \in Cursors
         /\ ~Before(a, ZeroCursor)
         /\ a # ZeroCursor => Before(ZeroCursor, a)
BY DEF Before, Cursors, ZeroCursor

\* The key of a row is a cursor, and different rows have different keys.
LEMMA KeysAreDistinct ==
  ASSUME NEW S, IsLog(S), NEW e \in S, NEW f \in S
  PROVE  /\ Key(e) \in Cursors
         /\ Key(e) = Key(f) => e = f
BY DEF IsLog, Key, Cursors

LEMMA SubsetIsLog ==
  ASSUME NEW S, IsLog(S), NEW T, T \subseteq S
  PROVE  IsLog(T)
BY DEF IsLog

\* A set of natural numbers that is not empty has a least element.
LEMMA LeastNatural ==
  ASSUME NEW T, T \subseteq Nat, T # {}
  PROVE  \E x \in T : \A y \in T : x <= y
<1>1. \E x \in T : \A y \in T : ~ (<<y, x>> \in OpToRel(<, Nat))
  BY NatLessThanWellFounded, WFMin
<1>2. PICK x \in T : \A y \in T : ~ (<<y, x>> \in OpToRel(<, Nat))
  BY <1>1
<1>3. ASSUME NEW y \in T PROVE x <= y
  <2>1. <<y, x>> \in Nat \X Nat
    OBVIOUS
  <2>2. ~ (y < x)
    BY <1>2, <2>1 DEF OpToRel
  <2> QED
    BY <2>2
<1> QED
  BY <1>3

\* The row the loop reaches first is a row of the batch, before every other.
LEMMA EarliestIsFirst ==
  ASSUME NEW S, IsLog(S), S # {}
  PROVE  /\ EarliestOf(S) \in S
         /\ \A f \in S : f = EarliestOf(S) \/ Before(Key(EarliestOf(S)), Key(f))
<1>1. PICK t \in {e.time : e \in S} : \A u \in {e.time : e \in S} : t <= u
  BY LeastNatural, {e.time : e \in S} # {}, {e.time : e \in S} \subseteq Nat DEF IsLog
<1> DEFINE R == {e \in S : e.time = t}
<1>2. R # {}
  BY <1>1
<1>3. PICK i \in {e.id : e \in R} : \A j \in {e.id : e \in R} : i <= j
  <2>1. {e.id : e \in R} # {} /\ {e.id : e \in R} \subseteq Nat
    BY <1>2 DEF IsLog
  <2> HIDE DEF R
  <2> QED
    BY <2>1, LeastNatural
<1>4. PICK e \in R : e.id = i
  BY <1>3
<1>5. ASSUME NEW f \in S PROVE f = e \/ Before(Key(e), Key(f))
  <2>1. f.time \in Nat /\ f.id \in Nat /\ e.time \in Nat /\ e.id \in Nat /\ e.time = t
    BY <1>4 DEF IsLog
  <2>2. t <= f.time
    BY <1>1
  <2>3. CASE f.time = t
    <3>1. i <= f.id
      BY <1>3, <2>3
    <3>2. e.id = f.id => e = f
      BY <1>4 DEF IsLog
    <3> QED
      BY <1>4, <2>1, <2>3, <3>1, <3>2 DEF Before, Key
  <2>4. CASE f.time # t
    BY <2>1, <2>2, <2>4 DEF Before, Key
  <2> QED
    BY <2>3, <2>4
<1>6. \E x \in S : \A f \in S : f = x \/ Before(Key(x), Key(f))
  BY <1>4, <1>5
<1> QED
  BY <1>6 DEF EarliestOf

\* A set of numbers up to a bound that is not empty has a greatest element.
LEMMA GreatestNatural ==
  ASSUME NEW n \in Nat, NEW T, T \subseteq 0 .. n, T # {}
  PROVE  \E x \in T : \A y \in T : y <= x
<1> DEFINE D == {n - x : x \in T}
<1>1. D \subseteq Nat /\ D # {}
  <2>1. \A x \in T : x \in 0 .. n /\ n - x \in Nat
    OBVIOUS
  <2> QED
    BY <2>1
<1>2. PICK d \in D : \A y \in D : d <= y
  <2> HIDE DEF D
  <2> QED
    BY <1>1, LeastNatural
<1>3. PICK x \in T : d = n - x
  BY <1>2
<1>4. ASSUME NEW y \in T PROVE y <= x
  <2>1. n - x <= n - y
    BY <1>2, <1>3
  <2> QED
    BY <2>1
<1> QED
  BY <1>4

\* A finite log that is not empty has a last row in key order.
LEMMA LatestIsLast ==
  ASSUME NEW S, IsLog(S), IsFiniteSet(S), S # {}
  PROVE  \E e \in S : \A f \in S : f = e \/ Before(Key(f), Key(e))
<1> DEFINE After(e) == {f \in S : Before(Key(e), Key(f))}
           T == {Cardinality(After(e)) : e \in S}
<1>1. \A e \in S : IsFiniteSet(After(e)) /\ Cardinality(After(e)) \in Nat
  <2>1. \A e \in S : After(e) \in SUBSET S
    OBVIOUS
  <2> HIDE DEF After
  <2> QED
    BY <2>1, FS_Subset, FS_CardinalityType
<1>2. PICK c \in T : \A d \in T : c <= d
  <2>1. T \subseteq Nat /\ T # {}
    BY <1>1
  <2> HIDE DEF T
  <2> QED
    BY <2>1, LeastNatural
<1>3. PICK e \in S : c = Cardinality(After(e))
  BY <1>2
<1>4. ASSUME NEW f \in S, Before(Key(e), Key(f)) PROVE FALSE
  <2>1. \A g \in S : Key(g) \in Cursors
    BY KeysAreDistinct
  <2>2. After(f) \in SUBSET After(e)
    BY <1>4, <2>1, BeforeIsOrder
  <2>3. f \in After(e) /\ f \notin After(f)
    BY <1>4, <2>1, BeforeIsOrder
  <2>4. Cardinality(After(e)) <= Cardinality(After(f))
    BY <1>2, <1>3
  <2> HIDE DEF After, T
  <2>5. Cardinality(After(f)) = Cardinality(After(e))
    BY <1>1, <2>2, <2>4, FS_Subset
  <2>6. After(f) = After(e)
    BY <1>1, <2>2, <2>5, FS_Subset
  <2> QED
    BY <2>3, <2>6
<1>5. ASSUME NEW f \in S PROVE f = e \/ Before(Key(f), Key(e))
  BY <1>4, KeysAreDistinct, BeforeIsOrder
<1> QED
  BY <1>5

\* A finite log has a maximal event time.
LEMMA MaxEventTimeType ==
  ASSUME NEW S, IsLog(S), IsFiniteSet(S)
  PROVE  /\ MaxEventTime(S) \in Nat
         /\ \A e \in S : e.time <= MaxEventTime(S)
<1>1. CASE S = {}
  BY <1>1 DEF MaxEventTime
<1>2. CASE S # {}
  <2>1. PICK m \in S : \A e \in S : e = m \/ Before(Key(e), Key(m))
    BY <1>2, LatestIsLast
  <2>2. ASSUME NEW e \in S PROVE e.time <= m.time
    BY <2>1 DEF IsLog, Before, Key
  <2>3. \E t \in {e.time : e \in S} : \A e \in S : e.time <= t
    BY <2>2
  <2>4. /\ MaxEventTime(S) \in {e.time : e \in S}
        /\ \A e \in S : e.time <= MaxEventTime(S)
    BY <1>2, <2>3 DEF MaxEventTime
  <2> QED
    BY <2>4 DEF IsLog
<1> QED
  BY <1>1, <1>2

\* A page is part of the log, lies beyond the cursor and leaves no row out:
\* whatever is beyond the cursor and before a row of the page is in the page.
LEMMA PageIsPrefix ==
  ASSUME NEW S, IsLog(S), IsFiniteSet(S), NEW cursor \in Cursors,
         NEW limit \in Nat
  PROVE  /\ FetchAfter(S, cursor, limit) \subseteq S
         /\ \A e \in FetchAfter(S, cursor, limit) : Before(cursor, Key(e))
         /\ \A e \in FetchAfter(S, cursor, limit), f \in S :
              Before(cursor, Key(f)) /\ Before(Key(f), Key(e))
                => f \in FetchAfter(S, cursor, limit)
<1> DEFINE Ahead(e) == {f \in Beyond(S, cursor) : Before(Key(f), Key(e))}
<1>1. FetchAfter(S, cursor, limit)
        = {e \in Beyond(S, cursor) : Cardinality(Ahead(e)) < limit}
  BY DEF FetchAfter
<1>2. ASSUME NEW e \in FetchAfter(S, cursor, limit), NEW f \in S,
             Before(cursor, Key(f)), Before(Key(f), Key(e))
      PROVE  f \in FetchAfter(S, cursor, limit)
  <2>1. e \in S /\ f \in Beyond(S, cursor) /\ Cardinality(Ahead(e)) < limit
    BY <1>1, <1>2 DEF Beyond
  <2>2. Ahead(f) \subseteq Ahead(e)
    <3> SUFFICES ASSUME NEW g \in Beyond(S, cursor), Before(Key(g), Key(f))
                 PROVE  Before(Key(g), Key(e))
      OBVIOUS
    <3>1. g \in S
      BY DEF Beyond
    <3>2. Key(g) \in Cursors /\ Key(f) \in Cursors /\ Key(e) \in Cursors
      BY <2>1, <3>1, KeysAreDistinct
    <3> QED
      BY <1>2, <3>2, BeforeIsOrder
  <2>3. IsFiniteSet(Ahead(e)) /\ Ahead(e) \subseteq S
    <3>1. Ahead(e) \subseteq S
      BY DEF Beyond
    <3> HIDE DEF Ahead
    <3> QED
      BY <3>1, FS_Subset
  <2>4. /\ Cardinality(Ahead(f)) <= Cardinality(Ahead(e))
        /\ Cardinality(Ahead(f)) \in Nat
        /\ Cardinality(Ahead(e)) \in Nat
    <3> HIDE DEF Ahead
    <3> QED
      BY <2>2, <2>3, FS_Subset, FS_CardinalityType
  <2>5. Cardinality(Ahead(f)) < limit
    <3> HIDE DEF Ahead
    <3> QED
      BY <2>1, <2>4
  <2> QED
    BY <1>1, <2>1, <2>5
<1>3. FetchAfter(S, cursor, limit) \subseteq Beyond(S, cursor)
  BY <1>1
<1> QED
  BY <1>2, <1>3 DEF Beyond

\* The rows of a page that are eligible leave no row of the page out either.
LEMMA EligibleIsPrefix ==
  ASSUME NEW S, IsLog(S), NEW cutoff \in Int, NEW watermark, NEW limit
  PROVE  LET E == EligibleBatchAfterWatermark(S, cutoff, watermark, limit)
         IN  /\ E \subseteq S
             /\ \A e \in E, f \in S : Before(Key(f), Key(e)) => f \in E
<1>1. ASSUME NEW e \in EligiblePrefix(S, cutoff), NEW f \in S,
             Before(Key(f), Key(e))
      PROVE  f \in EligiblePrefix(S, cutoff)
  <2>1. e \in S /\ e.time <= cutoff /\ e.time \in Nat /\ f.time \in Nat
    BY DEF EligiblePrefix, IsLog
  <2>2. f.time <= e.time
    BY <1>1, <2>1 DEF Before, Key
  <2> QED
    BY <2>1, <2>2 DEF EligiblePrefix
<1>2. EligiblePrefix(S, cutoff) \subseteq S
  BY DEF EligiblePrefix
<1> QED
  BY <1>1, <1>2 DEF EligibleBatchAfterWatermark
=============================================================================
