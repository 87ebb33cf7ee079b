-------------------------- MODULE PriceApplyProofs --------------------------
(***************************************************************************)
(* Proofs about the price apply path of one partition, for every set of    *)
(* prices, page size, watermark, age limit, day length, unit of the close  *)
(* column and number of faults.                                            *)
(***************************************************************************)
EXTENDS PriceApply, EventLogProofs, SequenceTheorems

Verdicts == {"APPLIED", "EVENT_TOO_STALE"}

JournalEntries == [event : Requests, verdict : Verdicts]

-----------------------------------------------------------------------------
(* Prices and days.                                                        *)

LEMMA RequestFacts ==
  ASSUME NEW e \in Requests
  PROVE  /\ e.time \in Nat \ {0} /\ e.id \in Nat
         /\ e.sym \in Symbols /\ e.price \in Nat \ {0}
         /\ Key(e) \in Cursors
         /\ Key(e) # ZeroCursor
BY PricesAssumption DEF PriceEvents, Key, Cursors, ZeroCursor

LEMMA RequestsAreLog ==
  ASSUME NEW S, S \subseteq Requests
  PROVE  /\ IsLog(S)
         /\ IsFiniteSet(S)
         /\ MaxEventTime(S) \in Nat
<1>1. IsLog(Requests)
  BY RequestFacts, PricesAssumption DEF IsLog
<1>2. IsLog(S)
  BY <1>1, SubsetIsLog
<1>3. IsFiniteSet(S)
  BY PricesAssumption, FS_Subset
<1> QED
  BY <1>2, <1>3, MaxEventTimeType

LEMMA EarliestRequest ==
  ASSUME NEW S, S \subseteq Requests, S # {}
  PROVE  /\ EarliestOf(S) \in S
         /\ EarliestOf(S) \in Requests
         /\ \A f \in S : f = EarliestOf(S) \/ Before(Key(EarliestOf(S)), Key(f))
BY RequestsAreLog, EarliestIsFirst

\* Keys of different requests differ.
LEMMA RequestsAreOrdered ==
  ASSUME NEW e \in Requests, NEW f \in Requests
  PROVE  e = f \/ Before(Key(e), Key(f)) \/ Before(Key(f), Key(e))
BY RequestsAreLog, RequestFacts, KeysAreDistinct, BeforeIsOrder

LEMMA QuotientFacts ==
  ASSUME NEW a \in Nat, NEW b \in Nat, a <= b, NEW n \in Nat \ {0}
  PROVE  a \div n \in Nat /\ b \div n \in Nat /\ a \div n <= b \div n
OBVIOUS

\* Days follow the order of the log.
LEMMA DayFacts ==
  ASSUME NEW e \in Requests, NEW f \in Requests
  PROVE  /\ Day(e) \in Nat
         /\ Before(Key(e), Key(f)) => Day(e) <= Day(f)
<1>1. e.time \in Nat /\ f.time \in Nat /\ DayLength \in Nat \ {0}
  BY RequestFacts, PricesAssumption
<1>2. Before(Key(e), Key(f)) => e.time <= f.time
  BY <1>1 DEF Before, Key
<1> QED
  BY <1>1, <1>2, QuotientFacts DEF Day

LEMMA CloseType ==
  ASSUME NEW e \in Requests
  PROVE  StoredClose(e.price) \in Nat
<1>1. 2 * e.price + DbUnit \in Nat /\ 2 * DbUnit \in Nat \ {0}
  BY RequestFacts, PricesAssumption
<1> QED
  BY <1>1, QuotientFacts DEF StoredClose

\* The days of a set of prices are finitely many numbers.
LEMMA DaysAreFinite ==
  ASSUME NEW A, A \subseteq Requests
  PROVE  /\ {Day(f) : f \in A} \subseteq Nat
         /\ IsFiniteSet({Day(f) : f \in A})
<1> DEFINE day == [f \in A |-> Day(f)]
           D == {Day(f) : f \in A}
<1>1. D \subseteq Nat
  BY DayFacts
<1>2. day \in Surjection(A, D)
  BY DEF Surjection
<1> HIDE DEF day, D
<1>3. IsFiniteSet(D)
  BY <1>2, RequestsAreLog, FS_Surjection
<1> QED
  BY <1>1, <1>3 DEF D

\* A set of prices has one closing price for each of its days.
LEMMA ClosingFacts ==
  ASSUME NEW A, A \subseteq Requests
  PROVE  /\ Closing(A) \subseteq A
         /\ \A c, d \in Closing(A) : Day(c) = Day(d) => c = d
         /\ \A f \in A : \E c \in Closing(A) : Day(c) = Day(f)
<1>1. ASSUME NEW c \in Closing(A), NEW d \in Closing(A), Day(c) = Day(d)
      PROVE  c = d
  BY <1>1, RequestsAreOrdered DEF Closing
<1>2. ASSUME NEW f \in A PROVE \E c \in Closing(A) : Day(c) = Day(f)
  <2> DEFINE S == {g \in A : Day(g) = Day(f)}
  <2>1. S \subseteq Requests /\ S # {}
    OBVIOUS
  <2>2. \E c \in S : \A g \in S : g = c \/ Before(Key(g), Key(c))
    <3> HIDE DEF S
    <3> QED
      BY <2>1, RequestsAreLog, LatestIsLast
  <2>3. PICK c \in S : \A g \in S : g = c \/ Before(Key(g), Key(c))
    BY <2>2
  <2>4. \A g \in S : ~Before(Key(c), Key(g))
    BY <2>1, <2>3, RequestFacts, BeforeIsOrder
  <2>5. c \in Closing(A)
    BY <2>4 DEF Closing
  <2> QED
    BY <2>5
<1>3. Closing(A) \subseteq A
  BY DEF Closing
<1> QED
  BY <1>1, <1>2, <1>3

-----------------------------------------------------------------------------
(* One upsert of symbol_returns.                                           *)

\* The code keeps 60 rows of a symbol.  With a single row the return of a day
\* would lose its base when a second price of that day arrives.
WindowHoldsTwoDays == Window > 1

Row(prices, e) ==
  [sym |-> e.sym, day |-> Day(e), close |-> StoredClose(e.price),
   return |-> ReturnOn(prices, e)]

\* Trimming to the newest days before a new last day arrives and again after
\* it is as good as trimming once.
LEMMA RecentAfterExtension ==
  ASSUME NEW D, D \subseteq Nat, IsFiniteSet(D),
         NEW k \in Nat, \A d \in D : d <= k,
         NEW d
  PROVE  LET T == {x \in D : Recent(x, D)} \cup {k}
             E == D \cup {k}
         IN  d \in T /\ Recent(d, T) <=> d \in E /\ Recent(d, E)
<1> DEFINE T == {x \in D : Recent(x, D)} \cup {k}
           E == D \cup {k}
           Later(S, x) == {y \in S : y > x}
<1>1. T \subseteq E /\ E \subseteq Nat /\ IsFiniteSet(E)
  BY FS_AddElement
<1>2. \A S : \A x : Recent(x, S) <=> Cardinality(Later(S, x)) < Window
  BY DEF Recent
<1>3. Window \in Nat
  BY PricesAssumption
<1>4. ASSUME NEW S, NEW R, S \subseteq R, R \subseteq E
      PROVE  Cardinality(S) \in Nat /\ Cardinality(R) \in Nat
             /\ Cardinality(S) <= Cardinality(R)
  BY <1>1, <1>4, FS_Subset, FS_CardinalityType
<1>5. ASSUME d \in E, Recent(d, E)
      PROVE  d \in T /\ Recent(d, T)
  <2>1. Cardinality(Later(D, d)) < Window /\ Cardinality(Later(T, d)) < Window
    <3>1. Later(D, d) \subseteq Later(E, d) /\ Later(T, d) \subseteq Later(E, d)
          /\ Later(E, d) \subseteq E
      BY <1>1
    <3>2. Cardinality(Later(E, d)) < Window
      BY <1>2, <1>5
    <3> HIDE DEF Later, T, E
    <3> QED
      BY <1>3, <1>4, <3>1, <3>2
  <2> QED
    BY <1>2, <1>5, <2>1
<1>6. ASSUME d \in T, Recent(d, T)
      PROVE  d \in E /\ Recent(d, E)
  <2>1. Later(E, d) = Later(T, d)
    <3>1. CASE d = k
      <4>1. \A y \in E : ~(y > k)
        BY <1>1
      <4> QED
        BY <1>1, <3>1, <4>1
    <3>2. CASE d # k
      <4>1. d \in D /\ Cardinality(Later(D, d)) < Window
        BY <1>2, <1>6, <3>2
      <4>2. ASSUME NEW x \in D, x > d PROVE x \in T
        <5>1. Later(D, x) \subseteq Later(D, d) /\ Later(D, d) \subseteq E
          <6>1. \A y \in D : y > x => y > d
            <7>1. d \in Nat /\ x \in Nat /\ D \subseteq Nat
              BY <4>1
            <7> QED
              BY <4>2, <7>1
          <6> QED
            BY <6>1
        <5>2. Cardinality(Later(D, x)) < Window
          <6> HIDE DEF Later, T, E
          <6> QED
            BY <1>3, <1>4, <4>1, <5>1
        <5> QED
          BY <1>2, <5>2
      <4> QED
        BY <1>1, <4>2
    <3> QED
      BY <3>1, <3>2
  <2>2. d \in E
    BY <1>1, <1>6
  <2> QED
    BY <1>2, <1>6, <2>1, <2>2
<1> QED
  BY <1>5, <1>6

\* The prices of one symbol that are applied, and one that comes after them.
NextPrice(A, e) ==
  /\ A \subseteq Requests /\ e \in Requests
  /\ \A f \in A : f.sym = e.sym /\ Before(Key(f), Key(e))

\* Only the closing price of the new price's own day is replaced.
LEMMA ClosingAfter ==
  ASSUME NEW A, NEW e, NextPrice(A, e)
  PROVE  /\ Closing(A \cup {e}) = {c \in Closing(A) : Day(c) # Day(e)} \cup {e}
         /\ \A f \in A : Day(f) <= Day(e)
         /\ \A c \in Closing(A \cup {e}) \ {e} :
              Day(c) < Day(e) /\ ReturnOn(A \cup {e}, c) = ReturnOn(A, c)
         /\ e \notin A
<1> DEFINE B == A \cup {e}
<1>0. A \subseteq Requests /\ e \in Requests /\ \A f \in A : Before(Key(f), Key(e))
  BY DEF NextPrice
<1>1. /\ \A f \in A : Day(f) <= Day(e)
      /\ \A f \in B : Day(f) \in Nat
  BY <1>0, DayFacts
<1>2. /\ e \notin A
      /\ \A f \in B : ~Before(Key(e), Key(f))
  BY <1>0, RequestFacts, BeforeIsOrder
<1>3. e \in Closing(B)
  BY <1>2 DEF Closing
<1>4. ASSUME NEW c \in A
      PROVE  c \in Closing(B) <=> c \in Closing(A) /\ Day(c) # Day(e)
  BY <1>0 DEF Closing
<1>5. Closing(B) = {c \in Closing(A) : Day(c) # Day(e)} \cup {e}
  BY <1>3, <1>4 DEF Closing
<1>6. ASSUME NEW c \in Closing(B) \ {e}
      PROVE  Day(c) < Day(e) /\ ReturnOn(B, c) = ReturnOn(A, c)
  <2>1. c \in A /\ Day(c) # Day(e)
    BY <1>5 DEF Closing
  <2>2. Day(c) < Day(e)
    BY <1>1, <2>1
  <2>3. {f \in Closing(B) : Day(f) < Day(c)} = {f \in Closing(A) : Day(f) < Day(c)}
    <3>1. \A f \in Closing(A) : f \in A
      BY DEF Closing
    <3>2. \A f \in B : Day(f) < Day(c) => Day(f) # Day(e)
      BY <1>1, <2>1, <2>2
    <3> QED
      BY <1>5, <3>1, <3>2
  <2> DEFINE From(earlier) ==
        IF earlier = {} THEN <<>>
        ELSE <<StoredClose((CHOOSE f \in earlier :
                              \A g \in earlier : Day(g) <= Day(f)).price), c.price>>
  <2>4. \A S : ReturnOn(S, c) = From({f \in Closing(S) : Day(f) < Day(c)})
    BY DEF ReturnOn
  <2> HIDE DEF From
  <2> QED
    BY <2>2, <2>3, <2>4
<1> QED
  BY <1>1, <1>2, <1>5, <1>6

\* The rows of a symbol that a replay of its prices yields, and their dates.
LEMMA DailyRowFacts ==
  ASSUME NEW A, A \subseteq Requests
  PROVE  LET D == {Day(f) : f \in A}
         IN  /\ DailyRows(A) = {Row(A, c) : c \in {x \in Closing(A) : Recent(Day(x), D)}}
             /\ {r.day : r \in DailyRows(A)} = {d \in D : Recent(d, D)}
             /\ \A r \in DailyRows(A) : \E c \in Closing(A) : r = Row(A, c)
<1> DEFINE D == {Day(f) : f \in A}
<1>1. DailyRows(A) = {Row(A, c) : c \in {x \in Closing(A) : Recent(Day(x), D)}}
  BY DEF DailyRows, Row
<1>2. \A c : Row(A, c).day = Day(c)
  BY DEF Row
<1>3. \A c \in Closing(A) : Day(c) \in D
  BY DEF Closing
<1>4. \A d \in D : \E c \in Closing(A) : Day(c) = d
  BY ClosingFacts
<1> HIDE DEF D
<1>5. {r.day : r \in DailyRows(A)} = {d \in D : Recent(d, D)}
  <2>1. ASSUME NEW r \in DailyRows(A) PROVE r.day \in D /\ Recent(r.day, D)
    BY <1>1, <1>2, <1>3
  <2>2. ASSUME NEW d \in D, Recent(d, D) PROVE \E r \in DailyRows(A) : r.day = d
    BY <1>1, <1>2, <1>4, <2>2
  <2> QED
    BY <2>1, <2>2
<1>6. \A r \in DailyRows(A) : \E c \in Closing(A) : r = Row(A, c)
  BY <1>1
<1> QED
  BY <1>1, <1>5, <1>6 DEF D

\* The close before a new price is found in the trimmed table: the last day
\* with prices before the price's own is among the newest two.
LEMMA PreviousIsKept ==
  ASSUME WindowHoldsTwoDays, NEW A, NEW e, NextPrice(A, e),
         NEW rs, {r \in rs : r.sym = e.sym} = DailyRows(A),
         NEW p \in Closing(A), Day(p) < Day(e),
         \A f \in Closing(A) : Day(f) < Day(e) => Day(f) <= Day(p)
  PROVE  Previous(rs, e) = {Row(A, p)}
<1> DEFINE D == {Day(f) : f \in A}
           P == {f \in Closing(A) : Day(f) < Day(e)}
<1>1. A \subseteq Requests /\ e \in Requests
  BY DEF NextPrice
<1>2. /\ Closing(A) \subseteq A
      /\ \A c, d \in Closing(A) : Day(c) = Day(d) => c = d
      /\ \A f \in A : \E c \in Closing(A) : Day(c) = Day(f)
  BY <1>1, ClosingFacts
<1>3. /\ D \subseteq Nat /\ Day(e) \in Nat
      /\ \A d \in D : d <= Day(e)
  <2>1. Day(e) \in Nat /\ \A f \in A : Day(f) \in Nat
    BY <1>1, DayFacts
  <2>2. \A f \in A : Day(f) <= Day(e)
    BY ClosingAfter
  <2> QED
    BY <2>1, <2>2
<1>4. \A d \in D : d > Day(p) => d = Day(e)
  <2> SUFFICES ASSUME NEW g \in A, Day(g) > Day(p), Day(g) < Day(e) PROVE FALSE
    BY <1>3
  <2>1. PICK c \in Closing(A) : Day(c) = Day(g)
    BY <1>2
  <2>2. Day(c) <= Day(p) /\ Day(p) \in Nat /\ Day(g) \in Nat
    BY <1>1, <1>2, <2>1, DayFacts
  <2> QED
    BY <2>1, <2>2
<1>5. Recent(Day(p), D)
  <2> DEFINE Later == {d \in D : d > Day(p)}
  <2>1. Later \in SUBSET {Day(e)}
    BY <1>4
  <2> HIDE DEF Later
  <2>2. IsFiniteSet({Day(e)}) /\ Cardinality({Day(e)}) = 1
    BY FS_Singleton
  <2>3. Cardinality(Later) <= 1 /\ Cardinality(Later) \in Nat
    BY <2>1, <2>2, FS_Subset, FS_CardinalityType
  <2>4. Cardinality(Later) < Window
    BY <2>3, PricesAssumption DEF WindowHoldsTwoDays
  <2> QED
    BY <2>4 DEF Recent, Later
<1>6. /\ DailyRows(A) = {Row(A, c) : c \in {x \in Closing(A) : Recent(Day(x), D)}}
      /\ \A c : Row(A, c).day = Day(c) /\ Row(A, c).sym = c.sym
  BY <1>1, DailyRowFacts DEF Row
<1> HIDE DEF D
<1>7. \A r : r \in rs /\ r.sym = e.sym <=> r \in DailyRows(A)
  OBVIOUS
<1>8. Row(A, p) \in rs /\ Row(A, p).sym = e.sym /\ Row(A, p).day < Day(e)
  BY <1>5, <1>6, <1>7
<1>9. \A q \in rs : q.sym = e.sym /\ q.day < Day(e) => q.day <= Day(p)
  BY <1>6, <1>7
<1>10. ASSUME NEW r \in Previous(rs, e) PROVE r = Row(A, p)
  <2>1. /\ r \in rs /\ r.sym = e.sym /\ r.day < Day(e)
        /\ Row(A, p).day <= r.day
    BY <1>8 DEF Previous
  <2>2. PICK c \in Closing(A) : r = Row(A, c)
    BY <1>6, <1>7, <2>1
  <2>3. Day(c) <= Day(p) /\ Day(p) <= Day(c) /\ Day(c) \in Nat /\ Day(p) \in Nat
    BY <1>1, <1>2, <1>6, <2>1, <2>2, DayFacts
  <2> QED
    BY <1>2, <2>2, <2>3
<1>11. Row(A, p) \in Previous(rs, e)
  BY <1>6, <1>8, <1>9 DEF Previous
<1> QED
  BY <1>10, <1>11

LEMMA ReturnIsReplayed ==
  ASSUME WindowHoldsTwoDays, NEW A, NEW e, NextPrice(A, e),
         NEW rs, {r \in rs : r.sym = e.sym} = DailyRows(A)
  PROVE  DailyReturn(rs, e) = ReturnOn(A \cup {e}, e)
<1> DEFINE B == A \cup {e}
           P == {f \in Closing(B) : Day(f) < Day(e)}
<1>1. A \subseteq Requests /\ e \in Requests
  BY DEF NextPrice
<1>2. P = {f \in Closing(A) : Day(f) < Day(e)}
  <2>1. Day(e) \in Nat
    BY <1>1, DayFacts
  <2>2. Closing(B) = {c \in Closing(A) : Day(c) # Day(e)} \cup {e}
    BY ClosingAfter
  <2>3. \A c \in Closing(A) : Day(c) \in Nat
    BY <1>1, DayFacts DEF Closing
  <2>4. ASSUME NEW f
        PROVE  f \in P <=> f \in Closing(A) /\ Day(f) < Day(e)
    <3>1. f \in Closing(B) <=> (f \in Closing(A) /\ Day(f) # Day(e)) \/ f = e
      BY <2>2
    <3> QED
      BY <2>1, <2>3, <3>1
  <2> QED
    BY <2>4
<1>3. /\ Closing(A) \subseteq A
      /\ \A c, d \in Closing(A) : Day(c) = Day(d) => c = d
  BY <1>1, ClosingFacts
<1>4. CASE P = {}
  <2>1. \A r \in rs : r.sym = e.sym => \E c \in Closing(A) : r.day = Day(c)
    <3>1. \A r \in DailyRows(A) : \E c \in Closing(A) : r = Row(A, c)
      BY <1>1, DailyRowFacts
    <3>2. \A c : Row(A, c).day = Day(c)
      BY DEF Row
    <3> QED
      BY <3>1, <3>2
  <2>2. Previous(rs, e) = {}
    BY <1>2, <1>4, <2>1 DEF Previous
  <2> QED
    BY <1>4, <2>2 DEF DailyReturn, ReturnOn
<1>5. CASE P # {}
  <2>1. P \subseteq Requests
    BY <1>1, <1>2, <1>3
  <2>2. PICK p \in P : \A f \in P : f = p \/ Before(Key(f), Key(p))
    <3> HIDE DEF P
    <3> QED
      BY <1>5, <2>1, RequestsAreLog, LatestIsLast
  <2>3. \A f \in P : Day(f) <= Day(p) /\ Day(f) \in Nat
    <3> HIDE DEF P
    <3>1. p \in Requests /\ \A f \in P : f \in Requests
      BY <2>1
    <3> SUFFICES ASSUME NEW f \in P PROVE Day(f) <= Day(p) /\ Day(f) \in Nat
      OBVIOUS
    <3> QED
      BY <2>2, <3>1, DayFacts
  <2>4. Previous(rs, e) = {Row(A, p)}
    BY <1>2, <2>3, PreviousIsKept
  <2>5. (CHOOSE f \in P : \A g \in P : Day(g) <= Day(f)) = p
    <3> DEFINE q == CHOOSE f \in P : \A g \in P : Day(g) <= Day(f)
    <3>1. q \in P /\ \A g \in P : Day(g) <= Day(q)
      BY <2>3
    <3> HIDE DEF q
    <3>2. Day(q) <= Day(p) /\ Day(p) <= Day(q) /\ Day(q) \in Nat /\ Day(p) \in Nat
      BY <2>3, <3>1
    <3>3. q = p
      <4>1. Day(q) = Day(p)
        BY <3>2
      <4>2. q \in Closing(A) /\ p \in Closing(A)
        BY <1>2, <3>1
      <4> QED
        BY <1>3, <4>1, <4>2
    <3> QED
      BY <3>3 DEF q
  <2>6. ReturnOn(B, e) = <<StoredClose(p.price), e.price>>
    BY <1>5, <2>5 DEF ReturnOn
  <2>7. (CHOOSE r \in Previous(rs, e) : TRUE) = Row(A, p)
    BY <2>4
  <2>8. DailyReturn(rs, e) = <<StoredClose(p.price), e.price>>
    BY <2>4, <2>7 DEF DailyReturn, Row
  <2> QED
    BY <2>6, <2>8
<1> QED
  BY <1>4, <1>5

\* The table before the trim.
Upserted(rs, e) ==
  {r \in rs : r.sym # e.sym \/ r.day # Day(e)}
    \cup {[sym |-> e.sym, day |-> Day(e), close |-> StoredClose(e.price),
           return |-> DailyReturn(rs, e)]}

LEMMA UpsertIsTrimmed ==
  ASSUME NEW rs, NEW e
  PROVE  UpsertReturn(rs, e) =
           {r \in Upserted(rs, e) :
              r.sym = e.sym => Recent(r.day, Days(Upserted(rs, e), e.sym))}
BY DEF UpsertReturn, Trimmed, Upserted

\* The rows of other symbols stay.
LEMMA UpsertElsewhere ==
  ASSUME NEW rs, NEW e, NEW row, row.sym # e.sym
  PROVE  row \in UpsertReturn(rs, e) <=> row \in rs
<1> DEFINE new == [sym |-> e.sym, day |-> Day(e), close |-> StoredClose(e.price),
                   return |-> DailyReturn(rs, e)]
<1>1. Upserted(rs, e) = {r \in rs : r.sym # e.sym \/ r.day # Day(e)} \cup {new}
  BY DEF Upserted
<1>2. new.sym = e.sym
  OBVIOUS
<1> HIDE DEF new
<1> QED
  BY <1>1, <1>2, UpsertIsTrimmed

\* The next price leaves the rows a replay with it would yield.
LEMMA UpsertIsReplayed ==
  ASSUME WindowHoldsTwoDays, NEW A, NEW e, NextPrice(A, e),
         NEW rs, {r \in rs : r.sym = e.sym} = DailyRows(A)
  PROVE  {r \in UpsertReturn(rs, e) : r.sym = e.sym} = DailyRows(A \cup {e})
<1> DEFINE B == A \cup {e}
           D == {Day(f) : f \in A}
           E == {Day(f) : f \in B}
           k == Day(e)
           T == {x \in D : Recent(x, D)} \cup {k}
           N == Upserted(rs, e)
<1>1. A \subseteq Requests /\ B \subseteq Requests /\ e \in Requests
  BY DEF NextPrice
<1>2. N = {r \in rs : r.sym # e.sym \/ r.day # k} \cup {Row(B, e)}
  BY ReturnIsReplayed DEF Upserted, Row
<1>3. UpsertReturn(rs, e) = {r \in N : r.sym = e.sym => Recent(r.day, Days(N, e.sym))}
  BY UpsertIsTrimmed
<1>4. /\ \A c : Row(B, c).sym = c.sym /\ Row(B, c).day = Day(c)
      /\ \A c : Row(A, c).sym = c.sym /\ Row(A, c).day = Day(c)
  BY DEF Row
<1>5. /\ DailyRows(A) = {Row(A, c) : c \in {x \in Closing(A) : Recent(Day(x), D)}}
      /\ {r.day : r \in DailyRows(A)} = {d \in D : Recent(d, D)}
      /\ DailyRows(B) = {Row(B, c) : c \in {x \in Closing(B) : Recent(Day(x), E)}}
  BY <1>1, DailyRowFacts
<1>6. \A r : r \in rs /\ r.sym = e.sym <=> r \in DailyRows(A)
  OBVIOUS
<1>7. /\ Closing(B) = {c \in Closing(A) : Day(c) # k} \cup {e}
      /\ \A c \in Closing(B) \ {e} : ReturnOn(B, c) = ReturnOn(A, c)
  BY ClosingAfter
<1>8. \A c \in Closing(A) : c \in A /\ c.sym = e.sym /\ Day(c) \in D
  BY DEF NextPrice, Closing
<1>9. E = D \cup {k}
  OBVIOUS
<1>10. \A d : d \in T /\ Recent(d, T) <=> d \in E /\ Recent(d, E)
  <2>1. \A d \in D : d <= k
    <3>1. \A f \in A : Day(f) <= Day(e)
      BY ClosingAfter
    <3> QED
      BY <3>1
  <2>2. D \subseteq Nat /\ IsFiniteSet(D) /\ k \in Nat
    BY <1>1, DaysAreFinite, DayFacts
  <2> HIDE DEF D, E, k
  <2> QED
    BY <1>9, <2>1, <2>2, RecentAfterExtension
<1> HIDE DEF N, D, E, B, k
<1>11. Days(N, e.sym) = T
  <2>1. ASSUME NEW r \in N, r.sym = e.sym PROVE r.day \in T
    BY <1>2, <1>4, <1>5, <1>6, <2>1 DEF k
  <2>2. k \in Days(N, e.sym)
    BY <1>2, <1>4 DEF Days, k
  <2>3. ASSUME NEW d \in D, Recent(d, D), d # k PROVE d \in Days(N, e.sym)
    BY <1>2, <1>5, <1>6, <2>3 DEF Days
  <2> QED
    BY <2>1, <2>2, <2>3 DEF Days
<1>12. \A c \in Closing(B) \ {e} : Row(B, c) = Row(A, c)
  BY <1>7 DEF Row
<1>13. ASSUME NEW r \in UpsertReturn(rs, e), r.sym = e.sym
       PROVE  r \in DailyRows(B)
  <2>1. r \in N /\ Recent(r.day, T)
    BY <1>3, <1>11, <1>13
  <2>2. CASE r = Row(B, e)
    <3>1. e \in Closing(B)
      BY <1>7
    <3>2. Day(e) \in T /\ Recent(Day(e), T)
      BY <1>4, <2>1, <2>2 DEF k
    <3>3. Recent(Day(e), E)
      BY <1>10, <3>2
    <3> QED
      BY <1>5, <2>2, <3>1, <3>3
  <2>3. CASE r \in rs /\ r.day # k
    <3>1. PICK c \in Closing(A) : r = Row(A, c) /\ Recent(Day(c), D)
      BY <1>5, <1>6, <1>13, <2>3
    <3>2. Day(c) # k /\ Day(c) \in T /\ Recent(Day(c), T)
      BY <1>4, <1>8, <2>1, <2>3, <3>1
    <3>3. c \in Closing(B) \ {e} /\ Recent(Day(c), E)
      BY <1>7, <1>10, <3>2 DEF k
    <3> QED
      BY <1>5, <1>12, <3>1, <3>3
  <2> QED
    BY <1>2, <1>13, <2>1, <2>2, <2>3
<1>14. ASSUME NEW c \in Closing(B), Recent(Day(c), E)
       PROVE  Row(B, c) \in UpsertReturn(rs, e) /\ Row(B, c).sym = e.sym
  <2>1. Day(c) \in E
    BY <1>7, <1>8, <1>9 DEF k
  <2>2. Day(c) \in T /\ Recent(Day(c), T)
    BY <1>10, <1>14, <2>1
  <2>3. c.sym = e.sym
    BY <1>7, <1>8
  <2>4. Row(B, c) \in N
    <3>1. CASE c = e
      BY <1>2, <3>1
    <3>2. CASE c # e
      <4>1. c \in Closing(A) /\ Day(c) # k
        BY <1>7, <3>2
      <4>2. Recent(Day(c), D)
        BY <2>2, <4>1
      <4>3. Row(A, c) \in rs /\ Row(A, c).day # k
        BY <1>4, <1>5, <1>6, <4>1, <4>2
      <4> QED
        BY <1>2, <1>12, <3>2, <4>3
    <3> QED
      BY <3>1, <3>2
  <2> QED
    BY <1>3, <1>4, <1>11, <2>2, <2>3, <2>4
<1>15. {r \in UpsertReturn(rs, e) : r.sym = e.sym} = DailyRows(B)
  BY <1>5, <1>13, <1>14
<1> QED
  BY <1>15 DEF B

-----------------------------------------------------------------------------
(* A batch of upserts.                                                     *)

\* What the table holds, whatever was upserted into it: one row per symbol and
\* date, and no more than Window of a symbol.
TableOK(rs) ==
  /\ IsFiniteSet(rs)
  /\ \A r \in rs : /\ r.sym \in Symbols
                   /\ {r.day, r.close} \subseteq Nat
                   /\ \A q \in rs : q.sym = r.sym /\ q.day = r.day => q = r
  /\ \A s \in Symbols : Cardinality(Days(rs, s)) <= Window

LEMMA RecentIsBounded ==
  ASSUME NEW D, D \subseteq Nat, IsFiniteSet(D)
  PROVE  Cardinality({d \in D : Recent(d, D)}) <= Window
<1> DEFINE T == {d \in D : Recent(d, D)}
<1>1. Window \in Nat
  BY PricesAssumption
<1>2. T \subseteq D
  OBVIOUS
<1>3. IsFiniteSet(T) /\ Cardinality(T) \in Nat
  <2> HIDE DEF T
  <2> QED
    BY <1>2, FS_Subset, FS_CardinalityType
<1>4. CASE T = {}
  BY <1>1, <1>4, FS_EmptySet
<1>5. CASE T # {}
  <2>1. PICK m \in T : \A d \in T : m <= d
    <3> HIDE DEF T
    <3> QED
      BY <1>2, <1>5, LeastNatural
  <2> DEFINE Later == {x \in D : x > m}
  <2>2. Cardinality(Later) < Window
    BY <2>1 DEF Recent
  <2>3. T \ {m} \in SUBSET Later
    <3>1. \A d \in T \ {m} : d \in D /\ d > m
      BY <2>1
    <3> QED
      BY <3>1
  <2>4. Later \in SUBSET D
    OBVIOUS
  <2> HIDE DEF T, Later
  <2>5. IsFiniteSet(Later) /\ Cardinality(Later) \in Nat
    BY <2>4, FS_Subset, FS_CardinalityType
  <2>6. Cardinality(T \ {m}) <= Cardinality(Later)
    BY <2>3, <2>5, FS_Subset
  <2>7. Cardinality(T \ {m}) = Cardinality(T) - 1
    BY <1>3, FS_RemoveElement
  <2> QED
    BY <1>1, <1>3, <2>2, <2>5, <2>6, <2>7 DEF T
<1> QED
  BY <1>4, <1>5

LEMMA UpsertType ==
  ASSUME NEW rs, TableOK(rs), NEW e \in Requests
  PROVE  TableOK(UpsertReturn(rs, e))
<1> DEFINE new == [sym |-> e.sym, day |-> Day(e), close |-> StoredClose(e.price),
                   return |-> DailyReturn(rs, e)]
           kept == {r \in rs : r.sym # e.sym \/ r.day # Day(e)}
           N == Upserted(rs, e)
           U == UpsertReturn(rs, e)
           D == Days(N, e.sym)
<1>1. N = kept \cup {new}
  BY DEF Upserted
<1>2. U = {r \in N : r.sym = e.sym => Recent(r.day, D)}
  BY UpsertIsTrimmed
<1>3. new.sym \in Symbols /\ new.day \in Nat /\ new.close \in Nat
      /\ new.sym = e.sym /\ new.day = Day(e)
  BY RequestFacts, DayFacts, CloseType
<1>4. /\ IsFiniteSet(rs) /\ kept \in SUBSET rs
      /\ \A r \in rs : r.sym \in Symbols /\ r.day \in Nat /\ r.close \in Nat
      /\ \A r, q \in rs : q.sym = r.sym /\ q.day = r.day => q = r
      /\ \A s \in Symbols : Cardinality(Days(rs, s)) <= Window
  BY DEF TableOK
<1>5. /\ \A r \in N : r.sym \in Symbols /\ r.day \in Nat /\ r.close \in Nat
      /\ \A r, q \in N : q.sym = r.sym /\ q.day = r.day => q = r
      /\ \A s : s # e.sym => \A r \in N : r.sym = s => r \in rs
      /\ \A s : s # e.sym => \A r \in rs : r.sym = s => r \in N
  BY <1>1, <1>3, <1>4
<1> HIDE DEF new, kept, N, U
<1>6. IsFiniteSet(N)
  BY <1>1, <1>4, FS_Subset, FS_AddElement
<1>7. U \in SUBSET N /\ IsFiniteSet(U)
  BY <1>2, <1>6, FS_Subset
<1>8. D \subseteq Nat /\ IsFiniteSet(D)
  <2> DEFINE own == {q \in N : q.sym = e.sym}
             day == [r \in own |-> r.day]
  <2>1. D \subseteq Nat
    BY <1>5 DEF Days
  <2>2. own \in SUBSET N /\ D = {r.day : r \in own}
    BY DEF Days
  <2> HIDE DEF own, D
  <2>3. day \in Surjection(own, D)
    BY <2>2 DEF Surjection
  <2> QED
    BY <1>6, <2>1, <2>2, <2>3, FS_Subset, FS_Surjection
<1>9. ASSUME NEW s \in Symbols PROVE Cardinality(Days(U, s)) <= Window
  <2>1. CASE s = e.sym
    <3>1. Days(U, s) \in SUBSET {d \in D : Recent(d, D)}
      BY <1>2, <2>1 DEF Days
    <3> DEFINE T == {d \in D : Recent(d, D)}
    <3>2. T \in SUBSET D
      OBVIOUS
    <3> HIDE DEF D
    <3>3. Cardinality(T) <= Window
      BY <1>8, RecentIsBounded
    <3> HIDE DEF T
    <3>4. IsFiniteSet(T)
      BY <1>8, <3>2, FS_Subset
    <3>5. /\ Cardinality(Days(U, s)) <= Cardinality(T)
          /\ Cardinality(T) \in Nat /\ Cardinality(Days(U, s)) \in Nat
      BY <3>1, <3>4, FS_Subset, FS_CardinalityType DEF T
    <3> QED
      BY <3>3, <3>5, PricesAssumption
  <2>2. CASE s # e.sym
    <3>1. Days(U, s) = Days(rs, s)
      BY <1>2, <1>5, <2>2 DEF Days
    <3> QED
      BY <1>4, <3>1
  <2> QED
    BY <2>1, <2>2
<1>10. TableOK(U)
  BY <1>5, <1>7, <1>9 DEF TableOK
<1> QED
  BY <1>10 DEF U

\* The recursive function behind Upserts exists for every batch, by induction
\* on its length: it starts from the table and each value is one more upsert.
LEMMA UpsertSteps ==
  ASSUME NEW rs, NEW b \in Seq(Requests)
  PROVE  /\ Upserts(rs, b)[0] = rs
         /\ \A i \in 1 .. Len(b) :
              Upserts(rs, b)[i] = UpsertReturn(Upserts(rs, b)[i - 1], b[i])
<1> DEFINE IsTable(t, n) ==
      t = [i \in 0 .. n |-> IF i = 0 THEN rs ELSE UpsertReturn(t[i - 1], b[i])]
           S == {n \in Nat : ~\E t : IsTable(t, n)}
<1>1. S = {}
  <2> SUFFICES ASSUME S # {} PROVE FALSE
    OBVIOUS
  <2>1. PICK n \in S : \A m \in S : n <= m
    <3>1. S \subseteq Nat
      OBVIOUS
    <3> HIDE DEF S
    <3> QED
      BY <3>1, LeastNatural
  <2>2. n # 0
    <3>1. IsTable([i \in 0 .. 0 |-> rs], 0)
      OBVIOUS
    <3> QED
      BY <2>1, <3>1
  <2>3. n \in Nat \ {0} /\ n - 1 \in Nat /\ n - 1 \notin S
    <3>1. n \in Nat
      BY <2>1
    <3> HIDE DEF S
    <3> QED
      BY <2>1, <2>2, <3>1
  <2>4. PICK t : IsTable(t, n - 1)
    BY <2>3
  <2> DEFINE u == [i \in 0 .. n |-> IF i = n THEN UpsertReturn(t[n - 1], b[n]) ELSE t[i]]
  <2>5. ASSUME NEW i \in 0 .. n
        PROVE  u[i] = IF i = 0 THEN rs ELSE UpsertReturn(u[i - 1], b[i])
    <3>1. CASE i = 0
      <4>1. u[0] = t[0] /\ 0 \in 0 .. n - 1
        BY <2>3
      <4> QED
        BY <2>4, <3>1, <4>1
    <3>2. CASE i \in 1 .. n - 1
      <4>1. i # n /\ i - 1 # n /\ i - 1 \in 0 .. n /\ i \in 0 .. n - 1 /\ i # 0
        BY <2>3, <3>2
      <4> QED
        BY <2>4, <4>1
    <3>3. CASE i = n
      <4>1. n - 1 \in 0 .. n /\ n - 1 # n /\ n # 0
        BY <2>3
      <4> QED
        BY <3>3, <4>1
    <3> QED
      BY <2>3, <3>1, <3>2, <3>3
  <2>6. IsTable(u, n)
    BY <2>5
  <2> QED
    BY <2>1, <2>6
<1>2. Len(b) \in Nat
  BY LenProperties
<1>3. \E t : IsTable(t, Len(b))
  BY <1>1, <1>2
<1>4. Upserts(rs, b) = CHOOSE t : IsTable(t, Len(b))
  BY DEF Upserts
<1>5. IsTable(Upserts(rs, b), Len(b))
  <2> HIDE DEF IsTable
  <2> QED
    BY <1>3, <1>4
<1> HIDE DEF S
<1>6. /\ 0 \in 0 .. Len(b)
      /\ \A i \in 1 .. Len(b) : i \in 0 .. Len(b) /\ i # 0
  BY <1>2
<1> QED
  BY <1>5, <1>6

\* Whatever is upserted, the table keeps its shape.
LEMMA BatchType ==
  ASSUME NEW rs, TableOK(rs), NEW b \in Seq(Requests)
  PROVE  TableOK(ReturnsAfter(rs, b))
<1> DEFINE t == Upserts(rs, b)
           S == {i \in 0 .. Len(b) : ~TableOK(t[i])}
<1>1. /\ Len(b) \in Nat
      /\ \A i \in 1 .. Len(b) : b[i] \in Requests
  BY LenProperties, ElementOfSeq
<1>2. /\ t[0] = rs
      /\ \A i \in 1 .. Len(b) : t[i] = UpsertReturn(t[i - 1], b[i])
  BY UpsertSteps
<1> HIDE DEF t
<1>3. S = {}
  <2> SUFFICES ASSUME S # {} PROVE FALSE
    OBVIOUS
  <2>1. PICK n \in S : \A m \in S : n <= m
    <3>1. S \subseteq Nat
      BY <1>1
    <3> HIDE DEF S
    <3> QED
      BY <3>1, LeastNatural
  <2>2. n \in 0 .. Len(b) /\ ~TableOK(t[n])
    BY <2>1
  <2>3. n # 0
    BY <1>2, <2>2
  <2>4. n \in 1 .. Len(b) /\ n - 1 \in 0 .. Len(b) /\ ~(n <= n - 1)
    BY <1>1, <2>2, <2>3
  <2>5. TableOK(t[n - 1])
    BY <2>1, <2>4
  <2> QED
    BY <1>1, <1>2, <2>2, <2>4, <2>5, UpsertType
<1>4. TableOK(t[Len(b)])
  BY <1>1, <1>3
<1> QED
  BY <1>4 DEF ReturnsAfter, t

Of(A, s) == {f \in A : f.sym = s}

\* The table holds the rows these prices call for.
IsReplay(rs, A) == \A s \in Symbols : {r \in rs : r.sym = s} = DailyRows(Of(A, s))

\* A batch in key order after the prices that are applied leaves the rows a
\* replay of all of them would yield.
LEMMA BatchIsReplayed ==
  ASSUME WindowHoldsTwoDays, NEW rs, NEW A, A \subseteq Requests, IsReplay(rs, A),
         NEW b \in Seq(Requests),
         \A i, j \in DOMAIN b : i < j => Before(Key(b[i]), Key(b[j])),
         \A f \in A, i \in DOMAIN b : Before(Key(f), Key(b[i]))
  PROVE  IsReplay(ReturnsAfter(rs, b), A \cup {b[i] : i \in DOMAIN b})
<1> DEFINE t == Upserts(rs, b)
           Upto(n) == A \cup {b[i] : i \in 1 .. n}
           Replayed(n) == IsReplay(t[n], Upto(n))
           S == {n \in 0 .. Len(b) : ~Replayed(n)}
<1>1. /\ Len(b) \in Nat /\ DOMAIN b = 1 .. Len(b)
      /\ \A i \in 1 .. Len(b) : b[i] \in Requests
  BY LenProperties, ElementOfSeq
<1>2. /\ t[0] = rs
      /\ \A i \in 1 .. Len(b) : t[i] = UpsertReturn(t[i - 1], b[i])
  BY UpsertSteps
<1> HIDE DEF t
<1>3. ASSUME NEW n \in 1 .. Len(b), Replayed(n - 1)
      PROVE  Replayed(n)
  <2> DEFINE e == b[n]
             P == Of(Upto(n - 1), e.sym)
  <2>1. e \in Requests /\ e.sym \in Symbols
    BY <1>1, RequestFacts
  <2>2. Upto(n) = Upto(n - 1) \cup {e}
    <3>1. \A i : i \in 1 .. n <=> i \in 1 .. n - 1 \/ i = n
      BY <1>1
    <3> QED
      BY <3>1
  <2>3. \A f \in Upto(n - 1) : f \in Requests /\ Before(Key(f), Key(e))
    <3>1. n \in DOMAIN b /\ \A i \in 1 .. n - 1 : i \in DOMAIN b /\ i < n
      BY <1>1
    <3>2. \A i \in 1 .. n - 1 : b[i] \in Requests
      BY <1>1, <3>1
    <3> QED
      BY <3>1, <3>2
  <2> HIDE DEF Upto
  <2>4. NextPrice(P, e)
    BY <2>1, <2>3 DEF NextPrice, Of
  <2>5. {r \in t[n - 1] : r.sym = e.sym} = DailyRows(P)
    BY <1>3, <2>1 DEF IsReplay
  <2>6. t[n] = UpsertReturn(t[n - 1], e)
    BY <1>2
  <2> SUFFICES ASSUME NEW s \in Symbols
               PROVE  {r \in t[n] : r.sym = s} = DailyRows(Of(Upto(n), s))
    BY DEF IsReplay
  <2>7. CASE s = e.sym
    <3>1. Of(Upto(n), s) = P \cup {e}
      BY <2>2, <2>7 DEF Of
    <3> HIDE DEF e, P
    <3> QED
      BY <2>4, <2>5, <2>6, <2>7, <3>1, UpsertIsReplayed
  <2>8. CASE s # e.sym
    <3>1. Of(Upto(n), s) = Of(Upto(n - 1), s)
      BY <2>2, <2>8 DEF Of
    <3>2. {r \in t[n - 1] : r.sym = s} = DailyRows(Of(Upto(n - 1), s))
      BY <1>3 DEF IsReplay
    <3>3. {r \in t[n] : r.sym = s} = {r \in t[n - 1] : r.sym = s}
      BY <2>6, <2>8, UpsertElsewhere
    <3> QED
      BY <3>1, <3>2, <3>3
  <2> QED
    BY <2>7, <2>8
<1>4. Replayed(0)
  <2>1. Upto(0) = A
    OBVIOUS
  <2> HIDE DEF Upto
  <2> QED
    BY <1>2, <2>1
<1> HIDE DEF Replayed
<1>5. S = {}
  <2> SUFFICES ASSUME S # {} PROVE FALSE
    OBVIOUS
  <2>1. PICK n \in S : \A m \in S : n <= m
    <3>1. S \subseteq Nat
      BY <1>1
    <3> HIDE DEF S
    <3> QED
      BY <3>1, LeastNatural
  <2>2. n \in 0 .. Len(b) /\ ~Replayed(n)
    BY <2>1
  <2>3. n # 0
    BY <1>4, <2>2
  <2>4. n \in 1 .. Len(b) /\ n - 1 \in 0 .. Len(b) /\ ~(n <= n - 1)
    BY <1>1, <2>2, <2>3
  <2>5. Replayed(n - 1)
    BY <2>1, <2>4
  <2> QED
    BY <1>3, <2>2, <2>4, <2>5
<1>6. Replayed(Len(b))
  BY <1>1, <1>5
<1> QED
  BY <1>1, <1>6 DEF ReturnsAfter, t, Replayed

\* The mark of a symbol after a batch is its last event in the batch.
LEMMA MarksFacts ==
  ASSUME NEW ms, NEW b \in Seq(Requests), NEW s \in Symbols
  PROVE  /\ OfSymbol(b, s) = {} => MarksAfter(ms, b)[s] = ms[s]
         /\ OfSymbol(b, s) # {} =>
              \E i \in OfSymbol(b, s) : /\ MarksAfter(ms, b)[s] = b[i]
                                        /\ \A j \in OfSymbol(b, s) : j <= i
<1>1. Len(b) \in Nat /\ DOMAIN b = 1 .. Len(b)
  BY LenProperties
<1>2. OfSymbol(b, s) \subseteq 0 .. Len(b)
  BY <1>1 DEF OfSymbol
<1>3. ASSUME OfSymbol(b, s) # {}
      PROVE  /\ Max(OfSymbol(b, s)) \in OfSymbol(b, s)
             /\ \A j \in OfSymbol(b, s) : j <= Max(OfSymbol(b, s))
  <2>1. \E i \in OfSymbol(b, s) : \A j \in OfSymbol(b, s) : i >= j
    BY <1>1, <1>2, <1>3, GreatestNatural
  <2> QED
    BY <1>1, <1>2, <2>1 DEF Max
<1> QED
  BY <1>3 DEF MarksAfter

-----------------------------------------------------------------------------
(* The inductive invariant, part by part.                                  *)

\* The worker in memory follows the database: whenever its cursor has been
\* loaded it is the stored one.
CursorIsCached ==
  /\ pc = "down" => ~known
  /\ pc = "rebuild" => rebuilding
  /\ pc \in InPass \cup {"rebuild"} => known
  /\ known /\ pc # "rebuild" => cur = dbCur

\* Where the goroutine is tells what it holds.
ControlIsConsistent ==
  /\ pc \notin {"apply", "flush", "dlq"} => queue = {}
  /\ pc \notin {"apply", "flush"} => okBatch = <<>>
  /\ pc = "flush" => okBatch # <<>>
  /\ stale => queue # {} /\ pc \in {"flush", "dlq"}
  /\ pc = "dlq" => stale

\* The lists are lists of events and verdicts, and the table is finite.
ListsAreTyped ==
  /\ settled \in Seq(JournalEntries)
  /\ okBatch \in Seq(Requests)
  /\ IsFiniteSet(returns)

TypeInv == TypeOK /\ ListsAreTyped /\ ControlIsConsistent

\* What is settled is in key order, up to the stored cursor.
SettledInOrder ==
  /\ \A i, j \in DOMAIN settled :
       i < j => Before(Key(settled[i].event), Key(settled[j].event))
  /\ dbCur = IF settled = <<>> THEN ZeroCursor
             ELSE Key(settled[Len(settled)].event)

\* The batch is in key order, beyond the cursor, and ahead of the queue.
BatchIsOrdered ==
  /\ \A i \in DOMAIN okBatch : okBatch[i] \in log /\ Before(dbCur, Key(okBatch[i]))
  /\ \A i, j \in DOMAIN okBatch : i < j => Before(Key(okBatch[i]), Key(okBatch[j]))
  /\ \A e \in queue : Before(dbCur, Key(e))
  /\ \A i \in DOMAIN okBatch, e \in queue : Before(Key(okBatch[i]), Key(e))

\* A page leaves nothing out but what was inserted behind it after the read.
PageIsClosed ==
  \A e \in log, f \in Fetched :
    Before(dbCur, Key(e)) /\ Before(Key(e), Key(f)) => e \in Fetched \cup overtaken

JournalInv == SettledInOrder /\ NoPriceIsSkipped

PageInv == BatchIsOrdered /\ PageIsClosed

OrderInv == TypeInv /\ CursorIsCached /\ JournalInv /\ PageInv

\* No commit of an incremental pass is reported as failed although it went
\* through; any other call may fail, and the process may crash anywhere.
AcksArrive == {"applyAck", "dlqAck"} \cap FaultKinds = {}

-----------------------------------------------------------------------------
(* Type correctness.  Dead letters and batches are read off the queue and  *)
(* the batch, so their types rest on what the control state says of them.  *)

LEMMA ToSetFacts ==
  ASSUME NEW b \in Seq(Requests)
  PROVE  /\ DOMAIN b = 1 .. Len(b) /\ Len(b) \in Nat
         /\ ToSet(b) = {b[i] : i \in DOMAIN b}
         /\ \A i \in DOMAIN b : b[i] \in Requests
         /\ b # <<>> => Len(b) \in DOMAIN b /\ Last(b) = b[Len(b)] /\ Last(b) \in Requests
<1>1. DOMAIN b = 1 .. Len(b) /\ Len(b) \in Nat
  BY LenProperties
<1>2. \A i \in DOMAIN b : b[i] \in Requests
  BY <1>1, ElementOfSeq
<1>3. b # <<>> => Len(b) \in DOMAIN b
  BY <1>1, EmptySeq
<1> QED
  BY <1>1, <1>2, <1>3 DEF ToSet, Last

LEMMA EmptyBatch == ToSet(<<>>) = {} /\ <<>> \in Seq(Requests)
BY EmptySeq DEF ToSet

LEMMA TypeInvFacts ==
  ASSUME TypeInv
  PROVE  /\ log \subseteq Requests /\ queue \subseteq log /\ overtaken \subseteq log
         /\ \A i \in DOMAIN okBatch : okBatch[i] \in log
         /\ DOMAIN settled = 1 .. Len(settled) /\ Len(settled) \in Nat
         /\ \A i \in DOMAIN settled :
              settled[i].event \in log /\ Key(settled[i].event) \in Cursors
         /\ dbCur \in Cursors /\ cur \in Cursors
         /\ \A e \in log : Key(e) \in Cursors
         /\ TableOK(returns)
<1>1. DOMAIN okBatch = 1 .. Len(okBatch) /\ ToSet(okBatch) = {okBatch[i] : i \in DOMAIN okBatch}
  BY ToSetFacts DEF TypeInv, ListsAreTyped
<1>2. DOMAIN settled = 1 .. Len(settled) /\ Len(settled) \in Nat
  BY LenProperties DEF TypeInv, ListsAreTyped
<1>3. log \subseteq Requests /\ \A e \in log : Key(e) \in Cursors
  BY RequestFacts DEF TypeInv, TypeOK
<1>4. TableOK(returns)
  BY DEF TableOK, TypeInv, TypeOK, ListsAreTyped
<1> QED
  BY <1>1, <1>2, <1>3, <1>4 DEF TypeInv, TypeOK, Cursors

\* The part of the type invariant about the tables and the journal.
TablesAreTyped ==
  /\ marks \in [Symbols -> Requests \cup {NoEvent}]
  /\ TableOK(returns)
  /\ dbCur \in Nat \X Nat
  /\ settled \in Seq(JournalEntries)
  /\ \A i \in DOMAIN settled : settled[i].event \in log

LEMMA TablesFromTypeInv == TypeInv => TablesAreTyped
<1> SUFFICES ASSUME TypeInv PROVE TablesAreTyped
  OBVIOUS
<1>1. TableOK(returns)
  BY TypeInvFacts
<1> QED
  BY <1>1 DEF TypeInv, TypeOK, ListsAreTyped, TablesAreTyped

\* The part about the worker and the environment.
WorkerIsTyped ==
  /\ log \subseteq Requests
  /\ cur \in Nat \X Nat
  /\ pc \in {"down", "idle", "rebuild", "max", "fetch", "apply", "flush", "dlq"}
  /\ {known, rebuilding, stale, more} \subseteq BOOLEAN
  /\ {maxSeen, now, faults} \subseteq Nat
  /\ queue \subseteq log /\ ToSet(okBatch) \subseteq log /\ overtaken \subseteq log
  /\ okBatch \in Seq(Requests)

LEMMA TypeInvParts ==
  TypeInv <=> TablesAreTyped /\ WorkerIsTyped /\ ControlIsConsistent
<1>1. TypeInv => WorkerIsTyped
  BY DEF TypeInv, TypeOK, ListsAreTyped, WorkerIsTyped
<1>2. ASSUME TablesAreTyped, WorkerIsTyped, ControlIsConsistent
      PROVE  TypeInv
  <2>1. \A i \in DOMAIN settled : settled[i].verdict \in Verdicts
    <3>1. \A i \in DOMAIN settled : settled[i] \in JournalEntries
      BY <1>2, LenProperties, ElementOfSeq DEF TablesAreTyped
    <3> QED
      BY <3>1 DEF JournalEntries
  <2> QED
    BY <1>2, <2>1
    DEF TypeInv, TypeOK, ListsAreTyped, TablesAreTyped, WorkerIsTyped, TableOK, Verdicts
<1>3. TypeInv => ControlIsConsistent
  BY DEF TypeInv
<1> QED
  BY <1>1, <1>2, <1>3, TablesFromTypeInv

LEMMA InitTypeInv == Init => TypeInv
<1> SUFFICES ASSUME Init PROVE TypeInv
  OBVIOUS
<1>1. TableOK(returns)
  <2>1. returns = {} /\ \A s : Days(returns, s) = {}
    BY DEF Init, Days
  <2> QED
    BY <2>1, FS_EmptySet, PricesAssumption DEF TableOK
<1>2. TablesAreTyped
  BY <1>1, EmptySeq DEF Init, TablesAreTyped, ZeroCursor
<1>3. WorkerIsTyped
  <2>1. ToSet(okBatch) = {} /\ okBatch \in Seq(Requests)
    BY EmptyBatch DEF Init
  <2>2. log = {} /\ queue = {} /\ overtaken = {} /\ cur \in Nat \X Nat /\ pc = "down"
    BY DEF Init, ZeroCursor
  <2>3. {known, rebuilding, stale, more} \subseteq BOOLEAN
    BY DEF Init
  <2>4. {maxSeen, now, faults} \subseteq Nat
    BY DEF Init
  <2> QED
    BY <2>1, <2>2, <2>3, <2>4 DEF WorkerIsTyped
<1>4. ControlIsConsistent
  BY DEF Init, ControlIsConsistent
<1> QED
  BY <1>2, <1>3, <1>4, TypeInvParts

\* The journal entries of a committed batch.
LEMMA BatchEntries ==
  ASSUME NEW b \in Seq(Requests)
  PROVE  LET run == [i \in DOMAIN b |-> Entry(b[i], "APPLIED")]
         IN  /\ run \in Seq(JournalEntries)
             /\ Len(run) = Len(b) /\ DOMAIN run = 1 .. Len(b)
             /\ \A i \in DOMAIN b : run[i].event = b[i] /\ run[i].verdict = "APPLIED"
<1> DEFINE run == [i \in DOMAIN b |-> Entry(b[i], "APPLIED")]
<1>1. /\ Len(b) \in Nat /\ DOMAIN b = 1 .. Len(b)
      /\ \A i \in 1 .. Len(b) : b[i] \in Requests
  BY LenProperties, ElementOfSeq
<1>2. \A i \in 1 .. Len(b) : Entry(b[i], "APPLIED") \in JournalEntries
  BY <1>1 DEF Entry, Verdicts, JournalEntries
<1>3. run \in Seq(JournalEntries) /\ Len(run) = Len(b)
  BY <1>1, <1>2
<1>4. \A i \in DOMAIN b : run[i].event = b[i] /\ run[i].verdict = "APPLIED"
  BY DEF Entry
<1> QED
  BY <1>1, <1>3, <1>4

\* Steps that leave the tables and the log alone.
LEMMA TablesUntouched ==
  ASSUME TypeInv, UNCHANGED <<log, database>>
  PROVE  TablesAreTyped'
BY TypeInvParts DEF TablesAreTyped, TableOK, Days, database

\* The transaction of a batch.
LEMMA CommitBatchType ==
  ASSUME TypeInv, pc = "flush", CommitBatch, log' = log
  PROVE  TablesAreTyped'
<1>1. okBatch \in Seq(Requests) /\ okBatch # <<>>
  BY DEF TypeInv, ListsAreTyped, ControlIsConsistent
<1>2. Last(okBatch) \in Requests
  BY <1>1, ToSetFacts
<1>3. dbCur' \in Nat \X Nat
  BY <1>2, RequestFacts DEF CommitBatch, LastKey, Cursors
<1> DEFINE run == [i \in DOMAIN okBatch |-> Entry(okBatch[i], "APPLIED")]
<1>4. /\ settled' = settled \o run
      /\ run \in Seq(JournalEntries) /\ DOMAIN run = DOMAIN okBatch
      /\ \A i \in DOMAIN run : run[i].event \in log
  <2>1. DOMAIN run = DOMAIN okBatch
    OBVIOUS
  <2>2. run \in Seq(JournalEntries) /\ \A i \in DOMAIN okBatch : run[i].event = okBatch[i]
    BY <1>1, BatchEntries
  <2>3. \A i \in DOMAIN okBatch : okBatch[i] \in log
    BY TypeInvFacts
  <2>4. settled' = settled \o run
    BY DEF CommitBatch
  <2> HIDE DEF run
  <2> QED
    BY <2>1, <2>2, <2>3, <2>4
<1> HIDE DEF run
<1>5. settled \in Seq(JournalEntries) /\ \A i \in DOMAIN settled : settled[i].event \in log
  BY TypeInvFacts DEF TypeInv, ListsAreTyped
<1>6. /\ settled' \in Seq(JournalEntries)
      /\ \A i \in DOMAIN settled' : settled'[i].event \in log
  <2>1. /\ DOMAIN settled = 1 .. Len(settled) /\ Len(settled) \in Nat
        /\ DOMAIN run = 1 .. Len(run) /\ Len(run) \in Nat
    BY <1>4, <1>5, LenProperties
  <2>2. /\ settled' \in Seq(JournalEntries) /\ Len(settled') = Len(settled) + Len(run)
        /\ \A i \in 1 .. Len(settled) + Len(run) :
             settled'[i] = IF i <= Len(settled) THEN settled[i] ELSE run[i - Len(settled)]
    BY <1>4, <1>5, ConcatProperties
  <2>3. DOMAIN settled' = 1 .. Len(settled) + Len(run)
    BY <2>2, LenProperties
  <2>4. ASSUME NEW i \in DOMAIN settled' PROVE settled'[i].event \in log
    <3>1. CASE i <= Len(settled)
      <4>1. i \in DOMAIN settled
        BY <2>1, <2>3, <3>1
      <4> QED
        BY <1>5, <2>2, <2>3, <3>1, <4>1
    <3>2. CASE ~(i <= Len(settled))
      <4>1. i - Len(settled) \in DOMAIN run
        BY <2>1, <2>3, <3>2
      <4> QED
        BY <1>4, <2>2, <2>3, <3>2, <4>1
    <3> QED
      BY <3>1, <3>2
  <2> QED
    BY <2>2, <2>4
<1>7. TableOK(returns')
  BY <1>1, TypeInvFacts, BatchType DEF CommitBatch
<1>8. marks' \in [Symbols -> Requests \cup {NoEvent}]
  <2>1. marks \in [Symbols -> Requests \cup {NoEvent}]
    BY DEF TypeInv, TypeOK
  <2>2. ASSUME NEW s \in Symbols
        PROVE  MarksAfter(marks, okBatch)[s] \in Requests \cup {NoEvent}
    <3>1. \A i \in OfSymbol(okBatch, s) : okBatch[i] \in Requests
      BY <1>1, ToSetFacts DEF OfSymbol
    <3> QED
      BY <1>1, <2>1, <3>1, MarksFacts
  <2>3. MarksAfter(marks, okBatch)
          = [s \in Symbols |-> MarksAfter(marks, okBatch)[s]]
    BY DEF MarksAfter
  <2> QED
    BY <2>2, <2>3 DEF CommitBatch
<1> QED
  BY <1>3, <1>6, <1>7, <1>8 DEF TablesAreTyped, TableOK, Days

\* The transaction of a dead letter.
LEMMA CommitDLQType ==
  ASSUME TypeInv, pc = "dlq", CommitDLQ, log' = log
  PROVE  /\ TablesAreTyped'
         /\ EarliestOf(queue) \in queue
         /\ Key(EarliestOf(queue)) \in Nat \X Nat
<1> DEFINE e == EarliestOf(queue)
<1>1. queue # {} /\ queue \subseteq Requests /\ queue \subseteq log
  BY TypeInvFacts DEF TypeInv, ControlIsConsistent
<1>2. e \in queue /\ e \in Requests
  BY <1>1, EarliestRequest
<1>3. /\ settled' = Append(settled, Entry(e, "EVENT_TOO_STALE"))
      /\ dbCur' = Key(e) /\ marks' = marks /\ returns' = returns
  BY DEF CommitDLQ
<1> HIDE DEF e
<1>4. Entry(e, "EVENT_TOO_STALE") \in JournalEntries
      /\ Entry(e, "EVENT_TOO_STALE").event = e
  BY <1>2 DEF Entry, JournalEntries, Verdicts
<1>5. settled \in Seq(JournalEntries) /\ \A i \in DOMAIN settled : settled[i].event \in log
  BY TypeInvFacts DEF TypeInv, ListsAreTyped
<1>6. /\ settled' \in Seq(JournalEntries)
      /\ \A i \in DOMAIN settled' : settled'[i].event \in log
  <2>1. /\ DOMAIN settled = 1 .. Len(settled) /\ Len(settled) \in Nat
        /\ settled' \in Seq(JournalEntries) /\ Len(settled') = Len(settled) + 1
        /\ \A i \in 1 .. Len(settled) : settled'[i] = settled[i]
        /\ settled'[Len(settled) + 1] = Entry(e, "EVENT_TOO_STALE")
    BY <1>3, <1>4, <1>5, AppendProperties, LenProperties
  <2>2. DOMAIN settled' = 1 .. Len(settled) + 1
    BY <2>1, LenProperties
  <2>3. \A i \in DOMAIN settled' : i \in DOMAIN settled \/ i = Len(settled) + 1
    BY <2>1, <2>2
  <2> QED
    BY <1>1, <1>2, <1>4, <1>5, <2>1, <2>3
<1>7. Key(e) \in Nat \X Nat
  BY <1>2, RequestFacts DEF Cursors
<1>8. TablesAreTyped
  BY TablesFromTypeInv
<1> QED
  BY <1>2, <1>3, <1>6, <1>7, <1>8 DEF TablesAreTyped, TableOK, Days, e

\* What a pass that is over leaves, whether it ended or failed.
LEMMA PassOverType ==
  ASSUME TypeInv, PassEnds \/ PassFails
  PROVE  /\ cur' \in Nat \X Nat
         /\ pc' \in {"max", "idle"} /\ rebuilding' = FALSE
         /\ known' \in BOOLEAN /\ stale' = FALSE /\ more' = FALSE /\ maxSeen' = 0
         /\ queue' = {} /\ okBatch' = <<>>
<1>1. known \in BOOLEAN /\ cur \in Nat \X Nat
  BY TypeInvParts DEF WorkerIsTyped
<1>2. CASE PassEnds
  BY <1>1, <1>2 DEF PassEnds, ClearPass, memory
<1>3. CASE PassFails
  <2>1. ZeroCursor \in Nat \X Nat
    BY DEF ZeroCursor
  <2>2. CASE rebuilding
    BY <1>3, <2>1, <2>2 DEF PassFails, ClearPass
  <2>3. CASE ~rebuilding
    BY <1>1, <1>3, <2>3 DEF PassFails, ClearPass, memory
  <2> QED
    BY <2>2, <2>3
<1> QED
  BY <1>2, <1>3

LEMMA PassOverKeepsType ==
  ASSUME TypeInv, PassEnds \/ PassFails, TablesAreTyped',
         UNCHANGED world, faults' \in Nat
  PROVE  TypeInv'
<1>1. ToSet(okBatch') = {} /\ okBatch' \in Seq(Requests)
  BY PassOverType, EmptyBatch
<1>2. WorkerIsTyped'
  <2>1. /\ log' \subseteq Requests /\ overtaken' \subseteq log'
        /\ now' \in Nat
    BY TypeInvParts DEF WorkerIsTyped, world
  <2>2. queue' \subseteq log' /\ ToSet(okBatch') \subseteq log'
    BY <1>1, PassOverType
  <2>3. {known', rebuilding', stale', more'} \subseteq BOOLEAN
    BY PassOverType
  <2>4. maxSeen' = 0 /\ pc' \in {"max", "idle"} /\ cur' \in Nat \X Nat
    BY PassOverType
  <2>5. {maxSeen', now', faults'} \subseteq Nat
    BY <2>1, <2>4
  <2> QED
    BY <1>1, <2>1, <2>2, <2>3, <2>4, <2>5 DEF WorkerIsTyped
<1>3. ControlIsConsistent'
  BY PassOverType DEF ControlIsConsistent
<1>4. TablesAreTyped' /\ WorkerIsTyped' /\ ControlIsConsistent' => TypeInv'
  BY TypeInvParts, PTL
<1> QED
  BY <1>2, <1>3, <1>4

LEMMA NextTypeInv == TypeInv /\ [Next]_vars => TypeInv'
<1> SUFFICES ASSUME TypeInv, [Next]_vars PROVE TypeInv'
  OBVIOUS
<1> USE DEF world, memory, pass
<1>a. /\ TablesAreTyped /\ WorkerIsTyped /\ ControlIsConsistent
      /\ UNCHANGED <<log, database>> => TablesAreTyped'
      /\ WorkerIsTyped' /\ ControlIsConsistent' /\ TablesAreTyped' => TypeInv'
  <2>1. TablesAreTyped /\ WorkerIsTyped /\ ControlIsConsistent
    BY TypeInvParts
  <2>2. UNCHANGED <<log, database>> => TablesAreTyped'
    BY TablesUntouched
  <2>3. TablesAreTyped' /\ WorkerIsTyped' /\ ControlIsConsistent' => TypeInv'
    BY TypeInvParts, PTL
  <2> QED
    BY <2>1, <2>2, <2>3
<1>b. faults \in Nat /\ okBatch \in Seq(Requests)
  BY <1>a DEF WorkerIsTyped
<1>c. ASSUME NEW kind, Fault(kind) PROVE faults' \in Nat
  BY <1>b, <1>c DEF Fault
<1>1. ASSUME NEW e \in Requests, PostPrice(e) PROVE TypeInv'
  <2>1. log' \subseteq Requests /\ overtaken' \subseteq log' /\ log \subseteq log'
    BY <1>1, <1>a DEF PostPrice, AppendEvent, WorkerIsTyped
  <2>2. TablesAreTyped'
    BY <1>1, <1>a, <2>1 DEF PostPrice, TablesAreTyped, TableOK, Days, database
  <2>3. WorkerIsTyped' /\ ControlIsConsistent'
    BY <1>1, <1>a, <2>1 DEF PostPrice, WorkerIsTyped, ControlIsConsistent
  <2> QED
    BY <1>a, <2>2, <2>3
<1>2. CASE ClockTicks
  BY <1>2, <1>a DEF ClockTicks, WorkerIsTyped, ControlIsConsistent
<1>3. CASE Start
  BY <1>3, <1>a DEF Start, WorkerIsTyped, ControlIsConsistent
<1>4. CASE Tick
  BY <1>4, <1>a DEF Tick, WorkerIsTyped, ControlIsConsistent
<1>5. CASE Rebuild
  BY <1>5, <1>a DEF Rebuild, WorkerIsTyped, TablesAreTyped, ControlIsConsistent
<1>6. CASE ReadMaxEventTime
  <2>1. MaxEventTime(log) \in Nat
    BY <1>a, RequestsAreLog DEF WorkerIsTyped
  <2> QED
    BY <1>6, <1>a, <2>1 DEF ReadMaxEventTime, WorkerIsTyped, ControlIsConsistent
<1>7. CASE FetchPage
  <2> DEFINE batch == FetchAfter(log, cur, PageLimit)
             eligible == EligibleBatchAfterWatermark(batch, maxSeen - Watermark,
                                                     Watermark, PageLimit)
  <2>1. eligible \subseteq log
    BY DEF EligibleBatchAfterWatermark, EligiblePrefix, FetchAfter, Beyond
  <2>2. UNCHANGED <<world, database, faults>> /\ pc = "fetch"
    BY <1>7 DEF FetchPage
  <2>3. CASE eligible = {}
    <3>1. PassEnds
      BY <1>7, <2>3 DEF FetchPage
    <3> QED
      BY <1>a, <1>b, <2>2, <3>1, PassOverKeepsType
  <2>4. CASE eligible # {}
    <3>1. /\ queue' = eligible /\ pc' = "apply"
          /\ more' = (eligible = batch /\ Cardinality(batch) = PageLimit)
          /\ UNCHANGED <<memory, rebuilding, maxSeen, okBatch, stale>>
      BY <1>7, <2>4 DEF FetchPage
    <3>2. more' \in BOOLEAN
      BY <3>1
    <3> HIDE DEF eligible
    <3> QED
      BY <1>a, <2>1, <2>2, <3>1, <3>2 DEF WorkerIsTyped, ControlIsConsistent
  <2> QED
    BY <2>3, <2>4
<1>8. CASE ApplyNext
  <2> DEFINE e == EarliestOf(queue)
  <2>1. /\ pc = "apply" /\ queue # {}
        /\ UNCHANGED <<world, database, memory, rebuilding, maxSeen, more, faults>>
    BY <1>8 DEF ApplyNext
  <2>2. e \in queue /\ e \in Requests /\ e \in log
    BY <1>a, <2>1, EarliestRequest DEF WorkerIsTyped
  <2>3. CASE /\ stale' = TRUE
             /\ pc' = IF okBatch = <<>> THEN "dlq" ELSE "flush"
             /\ UNCHANGED <<okBatch, queue>>
    BY <1>a, <2>1, <2>3 DEF WorkerIsTyped, ControlIsConsistent
  <2>4. CASE /\ okBatch' = Append(okBatch, e) /\ queue' = queue \ {e}
             /\ UNCHANGED <<pc, stale>>
    <3>1. okBatch' \in Seq(Requests) /\ ToSet(okBatch') \subseteq log
      <4> HIDE DEF e
      <4>1. /\ okBatch' \in Seq(Requests)
            /\ DOMAIN okBatch = 1 .. Len(okBatch) /\ Len(okBatch) \in Nat
            /\ Len(okBatch') = Len(okBatch) + 1 /\ DOMAIN okBatch' = 1 .. Len(okBatch')
            /\ \A i \in 1 .. Len(okBatch) : okBatch'[i] = okBatch[i]
            /\ okBatch'[Len(okBatch) + 1] = e
        BY <1>b, <2>2, <2>4, AppendProperties, LenProperties
      <4>2. \A i \in DOMAIN okBatch : okBatch[i] \in log
        BY TypeInvFacts
      <4>3. \A i \in DOMAIN okBatch' : okBatch'[i] \in log
        <5>1. \A i \in DOMAIN okBatch' : i \in DOMAIN okBatch \/ i = Len(okBatch) + 1
          BY <4>1
        <5> QED
          BY <2>2, <4>1, <4>2, <5>1
      <4> QED
        BY <4>1, <4>3 DEF ToSet
    <3>2. ~stale
      BY <1>a, <2>1 DEF ControlIsConsistent
    <3>3. WorkerIsTyped'
      <4>1. queue' \subseteq log' /\ ToSet(okBatch') \subseteq log'
        BY <1>a, <2>1, <2>4, <3>1 DEF WorkerIsTyped
      <4> QED
        BY <1>a, <2>1, <2>4, <3>1, <4>1 DEF WorkerIsTyped
    <3> QED
      BY <1>a, <2>1, <2>4, <3>2, <3>3 DEF ControlIsConsistent
  <2> QED
    BY <1>8, <2>3, <2>4 DEF ApplyNext
<1>9. CASE ApplyDone
  <2>1. UNCHANGED <<world, database, faults>> /\ pc = "apply" /\ queue = {}
    BY <1>9 DEF ApplyDone
  <2>2. CASE PassEnds
    BY <1>a, <1>b, <2>1, <2>2, PassOverKeepsType
  <2>3. CASE /\ pc' = IF okBatch # <<>> THEN "flush" ELSE "max"
             /\ UNCHANGED <<memory, pass>>
    BY <1>a, <2>1, <2>3 DEF WorkerIsTyped, ControlIsConsistent
  <2> QED
    BY <1>9, <2>2, <2>3 DEF ApplyDone
<1>10. CASE Flush
  <2>1. /\ pc = "flush" /\ CommitBatch /\ cur' = LastKey /\ okBatch' = <<>>
        /\ pc' = (IF stale THEN "dlq" ELSE "apply")
        /\ UNCHANGED <<world, known, rebuilding, maxSeen, queue, stale, more, faults>>
    BY <1>10 DEF Flush
  <2>2. TablesAreTyped'
    BY <2>1, CommitBatchType
  <2>3. cur' \in Nat \X Nat
    BY <2>1, <2>2 DEF CommitBatch, TablesAreTyped
  <2>4. ToSet(okBatch') = {} /\ okBatch' \in Seq(Requests)
    BY <2>1, EmptyBatch
  <2>5. WorkerIsTyped' /\ ControlIsConsistent'
    BY <1>a, <2>1, <2>3, <2>4 DEF WorkerIsTyped, ControlIsConsistent
  <2> QED
    BY <1>a, <2>2, <2>5
<1>11. CASE FlushRefused
  BY <1>11, <1>a, <1>b, PassOverKeepsType DEF FlushRefused
<1>12. CASE DeadLetter
  <2>1. /\ pc = "dlq" /\ CommitDLQ /\ cur' = Key(EarliestOf(queue))
        /\ queue' = queue \ {EarliestOf(queue)} /\ stale' = FALSE /\ pc' = "apply"
        /\ UNCHANGED <<world, known, rebuilding, maxSeen, okBatch, more, faults>>
    BY <1>12 DEF DeadLetter
  <2>2. TablesAreTyped' /\ cur' \in Nat \X Nat
    BY <2>1, CommitDLQType
  <2>3. WorkerIsTyped' /\ ControlIsConsistent'
    BY <1>a, <2>1, <2>2 DEF WorkerIsTyped, ControlIsConsistent
  <2> QED
    BY <1>a, <2>2, <2>3
<1>13. CASE Crash
  <2>1. /\ pc' = "down" /\ rebuilding' = FALSE /\ known' = FALSE /\ cur' = ZeroCursor
        /\ queue' = {} /\ okBatch' = <<>> /\ stale' = FALSE /\ more' = FALSE
        /\ maxSeen' = 0 /\ UNCHANGED <<world, database>>
    BY <1>13 DEF Crash, ClearPass
  <2>2. faults' \in Nat
    BY <1>13, <1>c DEF Crash
  <2>3. ToSet(okBatch') = {} /\ okBatch' \in Seq(Requests) /\ cur' \in Nat \X Nat
    BY <2>1, EmptyBatch DEF ZeroCursor
  <2>4. WorkerIsTyped'
    <3>1. /\ log' \subseteq Requests /\ overtaken' \subseteq log' /\ now' \in Nat
          /\ queue' \subseteq log' /\ ToSet(okBatch') \subseteq log'
      BY <1>a, <2>1, <2>3 DEF WorkerIsTyped
    <3>2. {known', rebuilding', stale', more'} \subseteq BOOLEAN
      BY <1>a, <2>1 DEF WorkerIsTyped
    <3>3. {maxSeen', now', faults'} \subseteq Nat /\ pc' = "down"
      BY <2>1, <2>2, <3>1
    <3> QED
      BY <2>3, <3>1, <3>2, <3>3 DEF WorkerIsTyped
  <2>5. ControlIsConsistent'
    BY <2>1 DEF ControlIsConsistent
  <2> QED
    BY <1>a, <2>1, <2>4, <2>5
<1>14. CASE ReadFails
  <2>1. faults' \in Nat
    BY <1>14, <1>c DEF ReadFails
  <2> QED
    BY <1>14, <1>a, <2>1, PassOverKeepsType DEF ReadFails
<1>15. CASE FlushFails
  <2>1. faults' \in Nat
    BY <1>15, <1>c DEF FlushFails
  <2> QED
    BY <1>15, <1>a, <2>1, PassOverKeepsType DEF FlushFails
<1>16. CASE FlushAckLost
  <2>1. faults' \in Nat
    BY <1>16, <1>c DEF FlushAckLost
  <2>2. TablesAreTyped'
    BY <1>16, CommitBatchType DEF FlushAckLost
  <2> QED
    BY <1>16, <2>1, <2>2, PassOverKeepsType DEF FlushAckLost
<1>17. CASE DeadLetterFails
  <2>1. faults' \in Nat
    BY <1>17, <1>c DEF DeadLetterFails
  <2>2. TablesAreTyped'
    BY <1>17, <1>a, CommitDLQType DEF DeadLetterFails
  <2> QED
    BY <1>17, <2>1, <2>2, PassOverKeepsType DEF DeadLetterFails
<1>18. CASE UNCHANGED vars
  BY <1>18, <1>a DEF vars, WorkerIsTyped, ControlIsConsistent, database
<1> QED
  BY <1>1, <1>2, <1>3, <1>4, <1>5, <1>6, <1>7, <1>8, <1>9, <1>10, <1>11, <1>12,
     <1>13, <1>14, <1>15, <1>16, <1>17, <1>18
  DEF Next, Worker, Failure

\* Every variable keeps its type; in particular symbol_returns has one row per
\* symbol and date and never more than Window of a symbol, whatever prices
\* arrive in whatever order, and every verdict is on a logged price.
THEOREM TypeCorrect == Spec => []TypeOK
<1>1. TypeInv => TypeOK
  BY DEF TypeInv
<1> QED
  BY InitTypeInv, NextTypeInv, <1>1, PTL DEF Spec

-----------------------------------------------------------------------------
(* Exactly once and in order.                                              *)

SettledEvents == {settled[i].event : i \in DOMAIN settled}

\* Everything settled is at or behind the cursor.
LEMMA SettledIsBehindCursor ==
  ASSUME TypeInv, SettledInOrder, NEW i \in DOMAIN settled
  PROVE  Key(settled[i].event) = dbCur \/ Before(Key(settled[i].event), dbCur)
<1>1. DOMAIN settled = 1 .. Len(settled) /\ Len(settled) \in Nat
  BY TypeInvFacts
<1>2. Len(settled) \in DOMAIN settled /\ settled # <<>>
  BY <1>1, EmptySeq
<1>3. dbCur = Key(settled[Len(settled)].event)
  BY <1>2 DEF SettledInOrder
<1>4. i = Len(settled) \/ i < Len(settled)
  BY <1>1
<1> QED
  BY <1>2, <1>3, <1>4 DEF SettledInOrder

\* The journal after a commit, entry by entry.
LEMMA JournalAfter ==
  ASSUME NEW old \in Seq(JournalEntries), NEW run \in Seq(JournalEntries), run # <<>>
  PROVE  LET n   == Len(old)
             m   == Len(run)
             new == old \o run
         IN  /\ n \in Nat /\ DOMAIN old = 1 .. n
             /\ m \in Nat \ {0} /\ DOMAIN run = 1 .. m
             /\ Len(new) = n + m /\ DOMAIN new = 1 .. n + m /\ new # <<>>
             /\ \A i \in DOMAIN old : i \in DOMAIN new /\ new[i] = old[i]
             /\ \A i \in DOMAIN run : n + i \in DOMAIN new /\ new[n + i] = run[i]
             /\ \A k \in DOMAIN new : \/ k \in DOMAIN old /\ new[k] = old[k]
                                      \/ k - n \in DOMAIN run /\ new[k] = run[k - n] /\ k > n
<1> DEFINE n   == Len(old)
           m   == Len(run)
           new == old \o run
<1>1. /\ n \in Nat /\ DOMAIN old = 1 .. n
      /\ m \in Nat \ {0} /\ DOMAIN run = 1 .. m
  BY LenProperties, EmptySeq
<1>2. /\ new \in Seq(JournalEntries) /\ Len(new) = n + m
      /\ \A i \in 1 .. n + m : new[i] = IF i <= n THEN old[i] ELSE run[i - n]
  BY ConcatProperties
<1>3. DOMAIN new = 1 .. n + m
  BY <1>2, LenProperties
<1>4. new # <<>>
  BY <1>1, <1>2, EmptySeq
<1> HIDE DEF n, m, new
<1>5. \A i \in DOMAIN old : i \in DOMAIN new /\ new[i] = old[i]
  BY <1>1, <1>2, <1>3
<1>6. \A i \in DOMAIN run : n + i \in DOMAIN new /\ new[n + i] = run[i]
  BY <1>1, <1>2, <1>3
<1>7. \A k \in DOMAIN new :
        \/ k \in DOMAIN old /\ new[k] = old[k]
        \/ k - n \in DOMAIN run /\ new[k] = run[k - n] /\ k > n
  BY <1>1, <1>2, <1>3
<1> QED
  BY <1>1, <1>2, <1>3, <1>4, <1>5, <1>6, <1>7 DEF n, m, new

\* A commit appends a run of events that lie beyond the cursor, in order, and
\* that leaves out nothing in between but what was overtaken.
LEMMA CommitsSettle ==
  ASSUME TypeInv, JournalInv,
         NEW run \in Seq(JournalEntries), run # <<>>,
         \A i \in DOMAIN run : /\ run[i].event \in log
                               /\ Before(dbCur, Key(run[i].event)),
         \A i, j \in DOMAIN run :
           i < j => Before(Key(run[i].event), Key(run[j].event)),
         \A e \in log :
           Before(dbCur, Key(e)) => \/ Before(Key(run[Len(run)].event), Key(e))
                                    \/ e \in overtaken
                                    \/ \E i \in DOMAIN run : run[i].event = e,
         settled' = settled \o run,
         dbCur' = Key(run[Len(run)].event),
         log' = log, overtaken' = overtaken
  PROVE  JournalInv'
<1> DEFINE n == Len(settled)
           m == Len(run)
<1>1. /\ n \in Nat /\ DOMAIN settled = 1 .. n
      /\ m \in Nat \ {0} /\ DOMAIN run = 1 .. m
      /\ Len(settled') = n + m /\ DOMAIN settled' = 1 .. n + m /\ settled' # <<>>
      /\ \A i \in DOMAIN settled : i \in DOMAIN settled' /\ settled'[i] = settled[i]
      /\ \A i \in DOMAIN run : n + i \in DOMAIN settled' /\ settled'[n + i] = run[i]
      /\ \A k \in DOMAIN settled' :
           \/ k \in DOMAIN settled /\ settled'[k] = settled[k]
           \/ k - n \in DOMAIN run /\ settled'[k] = run[k - n] /\ k > n
  <2>1. settled \in Seq(JournalEntries)
    BY DEF TypeInv, ListsAreTyped
  <2> QED
    BY <2>1, JournalAfter
<1> HIDE DEF n, m
<1>2. \A i \in DOMAIN settled, j \in DOMAIN run :
        Before(Key(settled[i].event), Key(run[j].event))
  <2> SUFFICES ASSUME NEW i \in DOMAIN settled, NEW j \in DOMAIN run
               PROVE  Before(Key(settled[i].event), Key(run[j].event))
    OBVIOUS
  <2>1. Key(settled[i].event) = dbCur \/ Before(Key(settled[i].event), dbCur)
    BY SettledIsBehindCursor DEF JournalInv
  <2>2. Before(dbCur, Key(run[j].event))
    OBVIOUS
  <2>3. Key(settled[i].event) \in Cursors /\ Key(run[j].event) \in Cursors /\ dbCur \in Cursors
    BY TypeInvFacts
  <2> QED
    BY <2>1, <2>2, <2>3, BeforeIsOrder
<1>3. ASSUME NEW i \in DOMAIN settled', NEW j \in DOMAIN settled', i < j
      PROVE  Before(Key(settled'[i].event), Key(settled'[j].event))
  <2>1. CASE j \in DOMAIN settled
    <3>1. i \in DOMAIN settled /\ settled'[i] = settled[i] /\ settled'[j] = settled[j]
      BY <1>1, <1>3, <2>1
    <3> QED
      BY <1>3, <2>1, <3>1 DEF JournalInv, SettledInOrder
  <2>2. CASE j - n \in DOMAIN run /\ settled'[j] = run[j - n] /\ j > n
    <3>1. CASE i \in DOMAIN settled /\ settled'[i] = settled[i]
      BY <1>2, <2>2, <3>1
    <3>2. CASE i - n \in DOMAIN run /\ settled'[i] = run[i - n] /\ i > n
      <4>1. i - n < j - n
        BY <1>1, <1>3
      <4> QED
        BY <2>2, <3>2, <4>1
    <3> QED
      BY <1>1, <3>1, <3>2
  <2> QED
    BY <1>1, <2>1, <2>2
<1>4. settled'[Len(settled')] = run[Len(run)]
  <2>1. m \in DOMAIN run
    BY <1>1
  <2> QED
    BY <1>1, <2>1 DEF m
<1>5. SettledInOrder'
  BY <1>1, <1>3, <1>4 DEF SettledInOrder
<1>6. ASSUME NEW e \in log, ~Before(dbCur', Key(e)), e \notin overtaken
      PROVE  \E i \in DOMAIN settled' : settled'[i].event = e
  <2>1. CASE Before(dbCur, Key(e))
    <3>1. PICK i \in DOMAIN run : run[i].event = e
      BY <1>6, <2>1
    <3> QED
      BY <1>1, <3>1
  <2>2. CASE ~Before(dbCur, Key(e))
    <3>1. PICK i \in DOMAIN settled : settled[i].event = e
      BY <1>6, <2>2 DEF JournalInv, NoPriceIsSkipped
    <3> QED
      BY <1>1, <3>1
  <2> QED
    BY <2>1, <2>2
<1> QED
  BY <1>5, <1>6 DEF JournalInv, NoPriceIsSkipped

LEMMA JournalUntouched ==
  ASSUME JournalInv, UNCHANGED <<log, dbCur, settled, overtaken>>
  PROVE  JournalInv'
BY DEF JournalInv, SettledInOrder, NoPriceIsSkipped

LEMMA PageUntouched ==
  ASSUME PageInv, UNCHANGED <<log, dbCur, queue, okBatch, overtaken>>
  PROVE  PageInv'
BY DEF PageInv, BatchIsOrdered, PageIsClosed, Fetched, ToSet

LEMMA NoPage ==
  ASSUME queue' = {}, okBatch' = <<>>
  PROVE  PageInv'
BY DEF PageInv, BatchIsOrdered, PageIsClosed, Fetched, ToSet

\* The transaction of a batch settles it and leaves the queue beyond the cursor.
LEMMA CommitBatchSettles ==
  ASSUME OrderInv, pc = "flush", CommitBatch, log' = log, overtaken' = overtaken
  PROVE  /\ JournalInv'
         /\ \A e \in queue : Before(dbCur', Key(e))
         /\ \A e \in log, f \in queue :
              Before(dbCur', Key(e)) /\ Before(Key(e), Key(f))
                => e \in queue \cup overtaken
<1> DEFINE run == [i \in DOMAIN okBatch |-> Entry(okBatch[i], "APPLIED")]
           m == Len(okBatch)
<1>1. okBatch \in Seq(Requests) /\ okBatch # <<>> /\ dbCur \in Cursors
  BY TypeInvFacts DEF OrderInv, TypeInv, ListsAreTyped, ControlIsConsistent
<1>2. /\ m \in Nat \ {0} /\ DOMAIN okBatch = 1 .. m
      /\ \A i \in 1 .. m : okBatch[i] \in Requests /\ okBatch[i] \in log
      /\ ToSet(okBatch) = {okBatch[i] : i \in 1 .. m} /\ Last(okBatch) = okBatch[m]
  BY <1>1, ToSetFacts, EmptySeq DEF OrderInv, PageInv, BatchIsOrdered
<1>3. /\ run \in Seq(JournalEntries) /\ Len(run) = m /\ DOMAIN run = 1 .. m
      /\ \A i \in 1 .. m : run[i].event = okBatch[i]
  BY <1>1, <1>2, BatchEntries
<1>4. run # <<>>
  BY <1>2, <1>3, EmptySeq
<1>5. settled' = settled \o run /\ dbCur' = Key(okBatch[m])
  BY <1>2 DEF CommitBatch, LastKey
<1> HIDE DEF run, m
<1>6. m \in 1 .. m /\ okBatch[m] \in Fetched
  BY <1>2 DEF Fetched
<1>7. \A i \in 1 .. m :
        /\ Before(dbCur, Key(okBatch[i]))
        /\ \A j \in 1 .. m : i < j => Before(Key(okBatch[i]), Key(okBatch[j]))
  BY <1>2 DEF OrderInv, PageInv, BatchIsOrdered
<1>8. \A e \in queue : Before(Key(okBatch[m]), Key(e))
  BY <1>2, <1>6 DEF OrderInv, PageInv, BatchIsOrdered
<1>9. \A e \in log : e \in Requests /\ Key(e) \in Cursors
  BY TypeInvFacts DEF OrderInv
<1>10. ASSUME NEW e \in log, Before(dbCur, Key(e)), ~Before(Key(okBatch[m]), Key(e)),
              e \notin overtaken
       PROVE  \E i \in 1 .. m : okBatch[i] = e
  <2>1. e = okBatch[m] \/ Before(Key(e), Key(okBatch[m]))
    BY <1>2, <1>6, <1>9, <1>10, RequestsAreOrdered
  <2>2. CASE Before(Key(e), Key(okBatch[m]))
    <3>1. e \in Fetched
      BY <1>6, <1>10, <2>2 DEF OrderInv, PageInv, PageIsClosed
    <3>2. e \notin queue
      BY <1>8, <1>10
    <3> QED
      BY <1>2, <3>1, <3>2 DEF Fetched
  <2> QED
    BY <1>6, <2>1, <2>2
<1>11. JournalInv'
  <2>1. TypeInv /\ JournalInv
    BY DEF OrderInv
  <2>2. \A e \in log :
          Before(dbCur, Key(e)) => \/ Before(Key(run[Len(run)].event), Key(e))
                                   \/ e \in overtaken
                                   \/ \E i \in DOMAIN run : run[i].event = e
    BY <1>3, <1>6, <1>10
  <2>3. dbCur' = Key(run[Len(run)].event)
    BY <1>3, <1>5, <1>6
  <2>4. /\ \A i \in DOMAIN run : run[i].event \in log /\ Before(dbCur, Key(run[i].event))
        /\ \A i, j \in DOMAIN run : i < j => Before(Key(run[i].event), Key(run[j].event))
    BY <1>2, <1>3, <1>7
  <2> QED
    BY <1>3, <1>4, <1>5, <2>1, <2>2, <2>3, <2>4, CommitsSettle
<1>12. ASSUME NEW e \in log, NEW f \in queue,
              Before(dbCur', Key(e)), Before(Key(e), Key(f))
       PROVE  e \in queue \cup overtaken
  <2>1. Before(dbCur, Key(e))
    BY <1>1, <1>2, <1>5, <1>6, <1>7, <1>9, <1>12, BeforeIsOrder
  <2>2. e \in Fetched \cup overtaken
    BY <1>12, <2>1 DEF Fetched, OrderInv, PageInv, PageIsClosed
  <2>3. ASSUME NEW i \in 1 .. m PROVE okBatch[i] # e
    <3>1. i = m \/ i < m
      BY <1>2
    <3>2. Key(okBatch[i]) = Key(okBatch[m]) \/ Before(Key(okBatch[i]), Key(okBatch[m]))
      BY <1>6, <1>7, <3>1
    <3> QED
      BY <1>2, <1>5, <1>6, <1>9, <1>12, <3>2, BeforeIsOrder
  <2> QED
    BY <1>2, <2>2, <2>3 DEF Fetched
<1> QED
  BY <1>5, <1>8, <1>11, <1>12

\* So does the transaction of a dead letter.
LEMMA CommitDLQSettles ==
  ASSUME OrderInv, pc = "dlq", CommitDLQ, log' = log, overtaken' = overtaken
  PROVE  LET rest == queue \ {EarliestOf(queue)}
         IN  /\ JournalInv'
             /\ \A e \in rest : Before(dbCur', Key(e))
             /\ \A e \in log, f \in rest :
                  Before(dbCur', Key(e)) /\ Before(Key(e), Key(f))
                    => e \in rest \cup overtaken
<1> DEFINE d == EarliestOf(queue)
           run == <<Entry(d, "EVENT_TOO_STALE")>>
<1>1. /\ queue # {} /\ queue \subseteq log /\ log \subseteq Requests
      /\ okBatch = <<>> /\ dbCur \in Cursors
      /\ \A e \in log : Key(e) \in Cursors
  BY TypeInvFacts DEF OrderInv, TypeInv, ControlIsConsistent
<1>2. d \in queue /\ \A f \in queue : f = d \/ Before(Key(d), Key(f))
  BY <1>1, EarliestRequest
<1>3. Fetched = queue
  BY <1>1 DEF Fetched, ToSet
<1> HIDE DEF d
<1>4. Before(dbCur, Key(d))
  BY <1>2 DEF OrderInv, PageInv, BatchIsOrdered
<1>5. ASSUME NEW e \in log, Before(dbCur, Key(e)), ~Before(Key(d), Key(e)),
             e \notin overtaken
      PROVE  e = d
  <2>1. e = d \/ Before(Key(e), Key(d))
    BY <1>1, <1>2, <1>5, RequestsAreOrdered
  <2>2. CASE Before(Key(e), Key(d))
    <3>1. e \in queue
      BY <1>2, <1>3, <1>5, <2>2 DEF OrderInv, PageInv, PageIsClosed
    <3> QED
      BY <1>2, <1>5, <3>1
  <2> QED
    BY <2>1, <2>2
<1>6. dbCur' = Key(d) /\ settled' = Append(settled, Entry(d, "EVENT_TOO_STALE"))
  BY DEF CommitDLQ, d
<1>7. JournalInv'
  <2>1. TypeInv /\ JournalInv /\ settled \in Seq(JournalEntries)
    BY DEF OrderInv, TypeInv, ListsAreTyped
  <2>2. Entry(d, "EVENT_TOO_STALE") \in JournalEntries
        /\ Entry(d, "EVENT_TOO_STALE").event = d
    BY <1>1, <1>2 DEF Entry, JournalEntries, Verdicts
  <2>3. /\ run \in Seq(JournalEntries) /\ run # <<>> /\ Len(run) = 1
        /\ DOMAIN run = {1} /\ run[1].event = d
    BY <2>2
  <2>4. settled' = settled \o run
    BY <1>6, <2>1, <2>2, AppendIsConcat
  <2> HIDE DEF run
  <2>5. \A e \in log :
          Before(dbCur, Key(e)) => \/ Before(Key(run[Len(run)].event), Key(e))
                                   \/ e \in overtaken
                                   \/ \E i \in DOMAIN run : run[i].event = e
    BY <1>5, <2>3
  <2>6. /\ \A i \in DOMAIN run : run[i].event \in log /\ Before(dbCur, Key(run[i].event))
        /\ \A i, j \in DOMAIN run : i < j => Before(Key(run[i].event), Key(run[j].event))
    BY <1>1, <1>2, <1>4, <2>3
  <2>7. dbCur' = Key(run[Len(run)].event)
    BY <1>6, <2>3
  <2> QED
    BY <2>1, <2>3, <2>4, <2>5, <2>6, <2>7, CommitsSettle
<1>8. ASSUME NEW e \in log, NEW f \in queue \ {d},
             Before(dbCur', Key(e)), Before(Key(e), Key(f))
      PROVE  e \in (queue \ {d}) \cup overtaken
  <2>1. Before(dbCur, Key(e)) /\ e # d
    BY <1>1, <1>2, <1>4, <1>6, <1>8, BeforeIsOrder
  <2>2. e \in Fetched \cup overtaken
    BY <1>3, <1>8, <2>1 DEF OrderInv, PageInv, PageIsClosed
  <2> QED
    BY <1>3, <2>1, <2>2
<1> QED
  BY <1>2, <1>6, <1>7, <1>8 DEF d

\* A request that arrives behind what the worker holds or has settled is the
\* one case in which a page or the journal is not complete: it is overtaken.
LEMMA ArrivalKeepsOrder ==
  ASSUME OrderInv, NEW e \in Requests, PostPrice(e)
  PROVE  JournalInv' /\ PageInv'
<1>1. UNCHANGED <<dbCur, settled, queue, okBatch>>
  BY DEF PostPrice, database, pass
<1>2. CASE log' = log
  <2>1. overtaken' = overtaken
    BY <1>2 DEF PostPrice
  <2> QED
    BY <1>1, <1>2, <2>1, JournalUntouched, PageUntouched DEF OrderInv
<1>3. CASE log' # log
  <2>1. log' = log \cup {e} /\ e \notin log
    BY <1>3 DEF PostPrice, AppendEvent
  <2>2. /\ overtaken \subseteq overtaken'
        /\ Before(Key(e), dbCur) => e \in overtaken'
        /\ \A f \in Fetched : Before(Key(e), Key(f)) => e \in overtaken'
    BY <1>3 DEF PostPrice
  <2>3. Fetched' = Fetched
    BY <1>1 DEF Fetched
  <2>4. PageIsClosed'
    BY <1>1, <2>1, <2>2, <2>3 DEF OrderInv, PageInv, PageIsClosed
  <2>5. BatchIsOrdered'
    BY <1>1, <2>1 DEF OrderInv, PageInv, BatchIsOrdered
  <2>6. SettledInOrder'
    BY <1>1 DEF OrderInv, JournalInv, SettledInOrder
  <2>7. Key(e) # dbCur
    <3>1. CASE settled = <<>>
      BY <3>1, RequestFacts DEF OrderInv, JournalInv, SettledInOrder
    <3>2. CASE settled # <<>>
      <4>1. Len(settled) \in DOMAIN settled
        BY <3>2, EmptySeq, LenProperties DEF OrderInv, TypeInv, ListsAreTyped
      <4>2. /\ dbCur = Key(settled[Len(settled)].event)
            /\ settled[Len(settled)].event \in log /\ log \subseteq Requests
        BY <3>2, <4>1, TypeInvFacts DEF OrderInv, JournalInv, SettledInOrder
      <4>3. IsLog(Requests)
        BY RequestsAreLog
      <4> QED
        BY <2>1, <4>2, <4>3, KeysAreDistinct
    <3> QED
      BY <3>1, <3>2
  <2>8. Key(e) \in Cursors /\ dbCur \in Cursors
    BY RequestFacts, TypeInvFacts DEF OrderInv
  <2>9. Before(dbCur, Key(e)) \/ e \in overtaken'
    BY <2>2, <2>7, <2>8, BeforeIsOrder
  <2>10. NoPriceIsSkipped'
    BY <1>1, <2>1, <2>2, <2>9 DEF OrderInv, JournalInv, NoPriceIsSkipped
  <2> QED
    BY <2>4, <2>5, <2>6, <2>10 DEF JournalInv, PageInv
<1> QED
  BY <1>2, <1>3

\* A new page starts at the cursor and is closed.
LEMMA PageKeepsOrder ==
  ASSUME OrderInv, okBatch' = <<>>,
         UNCHANGED <<log, dbCur, overtaken>>,
         \/ /\ cur = dbCur
            /\ queue' = EligibleBatchAfterWatermark(FetchAfter(log, cur, PageLimit),
                          maxSeen - Watermark, Watermark, PageLimit)
         \/ dbCur = ZeroCursor /\ queue' = log
  PROVE  PageInv'
<1>1. /\ log \subseteq Requests /\ dbCur \in Cursors /\ cur \in Cursors
      /\ maxSeen \in Nat
  BY TypeInvFacts DEF OrderInv, TypeInv, TypeOK
<1>2. IsLog(log) /\ IsFiniteSet(log)
  BY <1>1, RequestsAreLog
<1>3. Fetched' = queue'
  BY DEF Fetched, ToSet
<1>4. /\ queue' \subseteq log
      /\ \A e \in queue' : Before(dbCur, Key(e))
      /\ \A e \in log, f \in queue' :
           Before(dbCur, Key(e)) /\ Before(Key(e), Key(f)) => e \in queue'
  <2>1. CASE dbCur = ZeroCursor /\ queue' = log
    BY <1>1, <2>1, RequestFacts, ZeroIsFirst
  <2>2. CASE /\ cur = dbCur
             /\ queue' = EligibleBatchAfterWatermark(FetchAfter(log, cur, PageLimit),
                           maxSeen - Watermark, Watermark, PageLimit)
    <3> DEFINE batch == FetchAfter(log, cur, PageLimit)
    <3>1. PageLimit \in Nat /\ maxSeen - Watermark \in Int
      BY <1>1, PricesAssumption
    <3>2. /\ batch \subseteq log
          /\ \A e \in batch : Before(dbCur, Key(e))
          /\ \A e \in batch, f \in log :
               Before(dbCur, Key(f)) /\ Before(Key(f), Key(e)) => f \in batch
      BY <1>1, <1>2, <2>2, <3>1, PageIsPrefix
    <3> HIDE DEF batch
    <3>3. IsLog(batch)
      BY <1>2, <3>2, SubsetIsLog
    <3>4. /\ queue' \subseteq batch
          /\ \A e \in queue', f \in batch : Before(Key(f), Key(e)) => f \in queue'
      BY <2>2, <3>1, <3>3, EligibleIsPrefix DEF batch
    <3> QED
      BY <3>2, <3>4
  <2> QED
    BY <2>1, <2>2
<1> QED
  BY <1>3, <1>4 DEF PageInv, BatchIsOrdered, PageIsClosed

\* Moving the first event of the queue to the end of the batch.
LEMMA ApplyKeepsOrder ==
  ASSUME OrderInv, queue # {}, UNCHANGED <<log, dbCur, overtaken>>,
         okBatch' = Append(okBatch, EarliestOf(queue)),
         queue' = queue \ {EarliestOf(queue)}
  PROVE  PageInv'
<1> DEFINE d == EarliestOf(queue)
           n == Len(okBatch)
<1>1. queue \subseteq log /\ log \subseteq Requests /\ okBatch \in Seq(Requests)
  BY TypeInvFacts DEF OrderInv, TypeInv, ListsAreTyped
<1>2. d \in queue /\ d \in Requests /\ \A f \in queue : f = d \/ Before(Key(d), Key(f))
  BY <1>1, EarliestRequest
<1> HIDE DEF d
<1>3. /\ n \in Nat /\ DOMAIN okBatch = 1 .. n
      /\ okBatch' \in Seq(Requests) /\ Len(okBatch') = n + 1
      /\ \A i \in 1 .. n : okBatch'[i] = okBatch[i]
      /\ okBatch'[n + 1] = d
  BY <1>1, <1>2, AppendProperties, LenProperties DEF d
<1>4. DOMAIN okBatch' = 1 .. n + 1
  BY <1>3, LenProperties
<1> HIDE DEF n
<1>5. Fetched' = Fetched
  <2>1. ToSet(okBatch') = ToSet(okBatch) \cup {d}
    <3>1. \A i \in DOMAIN okBatch : i \in DOMAIN okBatch' /\ okBatch'[i] = okBatch[i]
      BY <1>3, <1>4
    <3>2. n + 1 \in DOMAIN okBatch' /\ okBatch'[n + 1] = d
      BY <1>3, <1>4
    <3>3. \A i \in DOMAIN okBatch' : i \in DOMAIN okBatch \/ i = n + 1
      BY <1>3, <1>4
    <3> QED
      BY <3>1, <3>2, <3>3 DEF ToSet
  <2> QED
    BY <1>2, <2>1 DEF Fetched, d
<1>6. \A i \in DOMAIN okBatch' : \/ i \in DOMAIN okBatch /\ okBatch'[i] = okBatch[i]
                                 \/ i = n + 1 /\ okBatch'[i] = d
  BY <1>3, <1>4
<1>7. \A i, j \in DOMAIN okBatch' :
        i < j => i \in DOMAIN okBatch /\ okBatch'[i] = okBatch[i]
  BY <1>3, <1>4
<1>8. \A i, j \in DOMAIN okBatch' :
        i < j => Before(Key(okBatch'[i]), Key(okBatch'[j]))
  BY <1>2, <1>6, <1>7 DEF OrderInv, PageInv, BatchIsOrdered
<1>9. \A i \in DOMAIN okBatch' :
        okBatch'[i] \in log /\ Before(dbCur, Key(okBatch'[i]))
  BY <1>1, <1>2, <1>6 DEF OrderInv, PageInv, BatchIsOrdered
<1>10. \A i \in DOMAIN okBatch', e \in queue \ {d} :
         Before(Key(okBatch'[i]), Key(e))
  BY <1>2, <1>6 DEF OrderInv, PageInv, BatchIsOrdered
<1>11. BatchIsOrdered'
  BY <1>8, <1>9, <1>10 DEF OrderInv, PageInv, BatchIsOrdered, d
<1>12. PageIsClosed'
  BY <1>5 DEF OrderInv, PageInv, PageIsClosed
<1> QED
  BY <1>11, <1>12 DEF PageInv

\* A failed pass leaves no page; the worker it leaves agrees with a database
\* that did not move, or is forgotten.
LEMMA FailedPassKeepsOrder ==
  ASSUME OrderInv, PassFails, pc \in InPass \cup {"rebuild"},
         rebuilding \/ (pc # "rebuild" /\ dbCur' = dbCur)
  PROVE  PageInv' /\ CursorIsCached'
<1>1. queue' = {} /\ okBatch' = <<>> /\ pc' = "idle"
  BY DEF PassFails, ClearPass
<1>2. CASE rebuilding
  <2>1. known' = FALSE
    BY <1>2 DEF PassFails
  <2> QED
    BY <1>1, <2>1, NoPage DEF CursorIsCached, InPass
<1>3. CASE ~rebuilding
  <2>1. known' = known /\ cur' = cur
    BY <1>3 DEF PassFails, memory
  <2> QED
    BY <1>1, <1>3, <2>1, NoPage DEF OrderInv, CursorIsCached, InPass
<1> QED
  BY <1>2, <1>3

LEMMA EndedPassKeepsOrder ==
  ASSUME OrderInv, PassEnds, pc \in InPass, dbCur' = dbCur
  PROVE  PageInv' /\ CursorIsCached'
<1>1. queue' = {} /\ okBatch' = <<>> /\ pc' \in {"max", "idle"}
  BY DEF PassEnds, ClearPass
<1>2. known' = known /\ cur' = cur
  BY DEF PassEnds, memory
<1> QED
  BY <1>1, <1>2, NoPage DEF OrderInv, CursorIsCached, InPass

LEMMA InitOrder == Init => OrderInv
<1> SUFFICES ASSUME Init PROVE OrderInv
  OBVIOUS
<1>1. TypeInv
  BY InitTypeInv
<1> QED
  BY <1>1
  DEF Init, OrderInv, CursorIsCached, InPass, JournalInv, SettledInOrder,
      NoPriceIsSkipped, PageInv, BatchIsOrdered, PageIsClosed, Fetched, ToSet

LEMMA NextOrder ==
  ASSUME AcksArrive
  PROVE  OrderInv /\ [Next]_vars => OrderInv'
<1> SUFFICES ASSUME OrderInv, [Next]_vars PROVE OrderInv'
  OBVIOUS
<1> USE DEF world, database, memory, pass
<1>0. TypeInv'
  BY NextTypeInv DEF OrderInv
<1>a. SUFFICES CursorIsCached' /\ JournalInv' /\ PageInv'
  BY <1>0 DEF OrderInv
<1>b. ControlIsConsistent /\ CursorIsCached /\ JournalInv /\ PageInv
  BY DEF OrderInv, TypeInv
<1>1. ASSUME NEW e \in Requests, PostPrice(e)
      PROVE  CursorIsCached' /\ JournalInv' /\ PageInv'
  <2>1. CursorIsCached'
    BY <1>1, <1>b DEF PostPrice, CursorIsCached
  <2> QED
    BY <1>1, <2>1, ArrivalKeepsOrder
<1>2. CASE ClockTicks
  BY <1>2, <1>b, JournalUntouched, PageUntouched DEF ClockTicks, CursorIsCached
<1>3. CASE Start
  BY <1>3, <1>b, JournalUntouched, PageUntouched DEF Start, CursorIsCached, InPass
<1>4. CASE Tick
  BY <1>4, <1>b, JournalUntouched, PageUntouched DEF Tick, CursorIsCached, InPass
<1>5. CASE Rebuild
  <2>1. /\ pc = "rebuild" /\ cur' = dbCur
        /\ UNCHANGED <<world, database, known, okBatch>>
    BY <1>5 DEF Rebuild
  <2>2. CASE IsZero(dbCur)
    <3>1. queue' = log /\ pc' = "apply" /\ dbCur = ZeroCursor
      BY <1>5, <2>2 DEF Rebuild, IsZero
    <3>2. okBatch' = <<>>
      BY <1>b, <2>1 DEF ControlIsConsistent
    <3>3. PageInv'
      BY <2>1, <3>1, <3>2, PageKeepsOrder
    <3> QED
      BY <1>b, <2>1, <3>1, <3>3, JournalUntouched DEF CursorIsCached, InPass
  <2>3. CASE ~IsZero(dbCur)
    <3>1. pc' = "max" /\ queue' = queue
      BY <1>5, <2>3 DEF Rebuild
    <3> QED
      BY <1>b, <2>1, <3>1, JournalUntouched, PageUntouched DEF CursorIsCached, InPass
  <2> QED
    BY <2>2, <2>3
<1>6. CASE ReadMaxEventTime
  BY <1>6, <1>b, JournalUntouched, PageUntouched
  DEF ReadMaxEventTime, CursorIsCached, InPass
<1>7. CASE FetchPage
  <2> DEFINE eligible ==
        EligibleBatchAfterWatermark(FetchAfter(log, cur, PageLimit),
                                    maxSeen - Watermark, Watermark, PageLimit)
  <2>1. pc = "fetch" /\ UNCHANGED <<world, database, faults>>
    BY <1>7 DEF FetchPage
  <2>2. CASE PassEnds
    BY <1>b, <2>1, <2>2, EndedPassKeepsOrder, JournalUntouched DEF InPass
  <2>3. CASE /\ queue' = eligible /\ pc' = "apply"
             /\ UNCHANGED <<memory, okBatch>>
    <3>1. cur = dbCur /\ okBatch' = <<>>
      BY <1>b, <2>1, <2>3 DEF CursorIsCached, InPass, ControlIsConsistent
    <3>2. PageInv'
      BY <2>1, <2>3, <3>1, PageKeepsOrder
    <3> QED
      BY <1>b, <2>1, <2>3, <3>2, JournalUntouched DEF CursorIsCached, InPass
  <2> QED
    BY <1>7, <2>2, <2>3 DEF FetchPage
<1>8. CASE ApplyNext
  <2>1. /\ pc = "apply" /\ queue # {}
        /\ UNCHANGED <<world, database, known, cur>>
    BY <1>8 DEF ApplyNext
  <2>2. JournalInv'
    BY <1>b, <2>1, JournalUntouched
  <2>3. CASE pc' \in {"dlq", "flush"} /\ UNCHANGED <<okBatch, queue>>
    BY <1>b, <2>1, <2>2, <2>3, PageUntouched DEF CursorIsCached, InPass
  <2>4. CASE /\ okBatch' = Append(okBatch, EarliestOf(queue))
             /\ queue' = queue \ {EarliestOf(queue)}
             /\ UNCHANGED <<pc, stale>>
    BY <1>b, <2>1, <2>2, <2>4, ApplyKeepsOrder DEF CursorIsCached, InPass
  <2> QED
    BY <1>8, <2>3, <2>4 DEF ApplyNext
<1>9. CASE ApplyDone
  <2>1. pc = "apply" /\ UNCHANGED <<world, database, faults>>
    BY <1>9 DEF ApplyDone
  <2>2. CASE PassEnds
    BY <1>b, <2>1, <2>2, EndedPassKeepsOrder, JournalUntouched DEF InPass
  <2>3. CASE pc' \in {"flush", "max"} /\ UNCHANGED <<memory, pass>>
    BY <1>b, <2>1, <2>3, JournalUntouched, PageUntouched DEF CursorIsCached, InPass
  <2> QED
    BY <1>9, <2>2, <2>3 DEF ApplyDone
<1>10. CASE Flush
  <2>1. /\ pc = "flush" /\ CommitBatch /\ cur' = LastKey /\ okBatch' = <<>>
        /\ pc' \in {"apply", "dlq"}
        /\ UNCHANGED <<world, known, queue>>
    BY <1>10 DEF Flush
  <2>2. /\ JournalInv'
        /\ \A e \in queue : Before(dbCur', Key(e))
        /\ \A e \in log, f \in queue :
             Before(dbCur', Key(e)) /\ Before(Key(e), Key(f))
               => e \in queue \cup overtaken
    BY <2>1, CommitBatchSettles
  <2>3. Fetched' = queue /\ DOMAIN okBatch' = {}
    BY <2>1 DEF Fetched, ToSet
  <2>4. PageInv'
    BY <2>1, <2>2, <2>3 DEF PageInv, BatchIsOrdered, PageIsClosed
  <2>5. dbCur' = cur'
    BY <2>1 DEF CommitBatch
  <2> QED
    BY <1>b, <2>1, <2>2, <2>4, <2>5 DEF CursorIsCached, InPass
<1>11. CASE FlushRefused
  <2>1. PassFails /\ pc = "flush" /\ UNCHANGED <<world, database>>
    BY <1>11 DEF FlushRefused
  <2> QED
    BY <1>b, <2>1, JournalUntouched, FailedPassKeepsOrder DEF InPass
<1>12. CASE DeadLetter
  <2> DEFINE rest == queue \ {EarliestOf(queue)}
  <2>1. /\ pc = "dlq" /\ pc' = "apply" /\ CommitDLQ /\ queue' = rest
        /\ cur' = Key(EarliestOf(queue))
        /\ UNCHANGED <<world, known, okBatch>>
    BY <1>12 DEF DeadLetter
  <2>2. /\ JournalInv'
        /\ \A e \in rest : Before(dbCur', Key(e))
        /\ \A e \in log, f \in rest :
             Before(dbCur', Key(e)) /\ Before(Key(e), Key(f))
               => e \in rest \cup overtaken
    BY <2>1, CommitDLQSettles
  <2>3. okBatch' = <<>>
    BY <1>b, <2>1 DEF ControlIsConsistent
  <2>4. dbCur' = cur'
    BY <2>1 DEF CommitDLQ
  <2> HIDE DEF rest
  <2>5. Fetched' = rest /\ DOMAIN okBatch' = {}
    BY <2>1, <2>3 DEF Fetched, ToSet
  <2>6. PageInv'
    BY <2>1, <2>2, <2>3, <2>5 DEF PageInv, BatchIsOrdered, PageIsClosed
  <2> QED
    BY <1>b, <2>1, <2>2, <2>4, <2>6 DEF CursorIsCached, InPass
<1>13. CASE Crash
  <2>1. /\ queue' = {} /\ okBatch' = <<>> /\ pc' = "down" /\ known' = FALSE
        /\ UNCHANGED <<world, database>>
    BY <1>13 DEF Crash, ClearPass
  <2> QED
    BY <1>b, <2>1, JournalUntouched, NoPage DEF CursorIsCached, InPass
<1>14. CASE ReadFails
  <2>1. PassFails /\ pc \in {"rebuild", "max", "fetch"} /\ UNCHANGED <<world, database>>
    BY <1>14 DEF ReadFails
  <2>2. pc = "rebuild" => rebuilding
    BY <1>b DEF CursorIsCached
  <2> QED
    BY <1>b, <2>1, <2>2, JournalUntouched, FailedPassKeepsOrder DEF InPass
<1>15. CASE FlushFails
  <2>1. PassFails /\ pc = "flush" /\ UNCHANGED <<world, database>>
    BY <1>15 DEF FlushFails
  <2> QED
    BY <1>b, <2>1, JournalUntouched, FailedPassKeepsOrder DEF InPass
<1>16. CASE FlushAckLost
  <2>1. PassFails /\ pc = "flush" /\ CommitBatch /\ UNCHANGED world
    BY <1>16 DEF FlushAckLost
  <2>2. rebuilding
    BY <1>16, AcksArrive DEF FlushAckLost, Fault, AcksArrive
  <2> QED
    BY <2>1, <2>2, CommitBatchSettles, FailedPassKeepsOrder DEF InPass
<1>17. CASE DeadLetterFails
  <2>1. PassFails /\ pc = "dlq" /\ UNCHANGED world
    BY <1>17 DEF DeadLetterFails
  <2>2. CASE UNCHANGED database
    BY <1>b, <2>1, <2>2, JournalUntouched, FailedPassKeepsOrder DEF InPass
  <2>3. CASE Fault(IF rebuilding THEN "rebuildDlqAck" ELSE "dlqAck") /\ CommitDLQ
    <3>1. rebuilding
      BY <2>3, AcksArrive DEF Fault, AcksArrive
    <3>2. JournalInv'
      BY <2>1, <2>3, CommitDLQSettles
    <3> QED
      BY <2>1, <3>1, <3>2, FailedPassKeepsOrder DEF InPass
  <2> QED
    BY <1>17, <2>2, <2>3 DEF DeadLetterFails
<1>18. CASE UNCHANGED vars
  BY <1>18, <1>b, JournalUntouched, PageUntouched DEF vars, CursorIsCached
<1> QED
  BY <1>1, <1>2, <1>3, <1>4, <1>5, <1>6, <1>7, <1>8, <1>9, <1>10, <1>11, <1>12,
     <1>13, <1>14, <1>15, <1>16, <1>17, <1>18
  DEF Next, Worker, Failure

\* Whatever crashes and failed calls (other than a commit whose answer is lost
\* in an incremental pass) lie in between, a price is committed at most once.
THEOREM OnceOnly ==
  ASSUME AcksArrive
  PROVE  Spec => []EachPriceOnce
<1>1. OrderInv => EachPriceOnce
  <2> SUFFICES ASSUME OrderInv, NEW i \in DOMAIN settled, NEW j \in DOMAIN settled,
                      settled[i].event = settled[j].event, i # j
               PROVE  FALSE
    BY DEF EachPriceOnce
  <2>1. i < j \/ j < i
    BY TypeInvFacts DEF OrderInv
  <2>2. Before(Key(settled[i].event), Key(settled[i].event))
    BY <2>1 DEF OrderInv, JournalInv, SettledInOrder
  <2> QED
    BY <2>2, TypeInvFacts, BeforeIsOrder DEF OrderInv
<1>2. OrderInv /\ [Next]_vars => OrderInv'
  BY NextOrder
<1> QED
  BY InitOrder, <1>1, <1>2, PTL DEF Spec

-----------------------------------------------------------------------------
(* Nothing is skipped.  No failure is excluded here: a commit whose answer *)
(* is lost leaves the cursor in memory behind the stored one, and the      *)
(* prices in between are settled a second time, never passed over.         *)

\* The batch is in key order and beyond the cursor in memory, the queue beyond
\* both.
PageIsAhead ==
  /\ \A i \in DOMAIN okBatch : Before(cur, Key(okBatch[i]))
  /\ \A i, j \in DOMAIN okBatch : i < j => Before(Key(okBatch[i]), Key(okBatch[j]))
  /\ \A e \in queue : Before(cur, Key(e))
  /\ \A i \in DOMAIN okBatch, e \in queue : Before(Key(okBatch[i]), Key(e))

CursorLags ==
  /\ pc = "down" => ~known
  /\ pc = "rebuild" => rebuilding
  /\ pc \in InPass \cup {"rebuild"} => known
  /\ known /\ pc # "rebuild" => cur = dbCur \/ Before(cur, dbCur)

CursorIsLogged == dbCur = ZeroCursor \/ \E f \in log : Key(f) = dbCur

\* A page leaves nothing out beyond the cursor it was read from.
PageIsComplete ==
  \A e \in log, f \in Fetched :
    Before(cur, Key(e)) /\ Before(Key(e), Key(f)) => e \in Fetched \cup overtaken

NothingLost == CursorIsLogged /\ PageIsComplete /\ NoPriceIsSkipped

Pages == PageIsAhead /\ NothingLost

SkipInv == TypeInv /\ CursorLags /\ Pages

LEMMA NothingSettled ==
  ASSUME NothingLost, UNCHANGED <<log, overtaken, dbCur, settled>>
  PROVE  CursorIsLogged' /\ NoPriceIsSkipped'
BY DEF NothingLost, CursorIsLogged, NoPriceIsSkipped

LEMMA PagesUntouched ==
  ASSUME Pages, UNCHANGED <<log, overtaken, dbCur, settled, cur, queue, okBatch>>
  PROVE  Pages'
<1>1. Fetched' = Fetched
  BY DEF Fetched
<1>2. PageIsAhead' /\ PageIsComplete'
  BY <1>1 DEF Pages, PageIsAhead, NothingLost, PageIsComplete
<1> QED
  BY <1>2, NothingSettled DEF Pages, NothingLost

LEMMA NoPagesLeft ==
  ASSUME queue' = {}, okBatch' = <<>>
  PROVE  PageIsAhead' /\ PageIsComplete'
<1>1. Fetched' = {}
  BY DEF Fetched, ToSet
<1> QED
  BY <1>1 DEF PageIsAhead, PageIsComplete

LEMMA NoPages ==
  ASSUME Pages, UNCHANGED <<log, overtaken, dbCur, settled>>,
         queue' = {}, okBatch' = <<>>
  PROVE  Pages'
BY NoPagesLeft, NothingSettled DEF Pages, NothingLost

\* A price that arrives behind the stored cursor or within a page is overtaken.
LEMMA ArrivalIsNotSkipped ==
  ASSUME TypeInv, Pages, NEW e \in Requests, PostPrice(e)
  PROVE  Pages'
<1>1. UNCHANGED <<dbCur, settled, cur, queue, okBatch>>
  BY DEF PostPrice, database, memory, pass
<1>2. CASE log' = log
  <2>1. overtaken' = overtaken
    BY <1>2 DEF PostPrice
  <2> QED
    BY <1>1, <1>2, <2>1, PagesUntouched
<1>3. CASE log' # log
  <2>1. log' = log \cup {e} /\ e \notin log
    BY <1>3 DEF PostPrice, AppendEvent
  <2>2. /\ overtaken \subseteq overtaken'
        /\ Before(Key(e), dbCur) => e \in overtaken'
        /\ \A f \in Fetched : Before(Key(e), Key(f)) => e \in overtaken'
    BY <1>3 DEF PostPrice
  <2>3. Fetched' = Fetched
    BY <1>1 DEF Fetched
  <2>4. CursorIsLogged' /\ PageIsComplete' /\ PageIsAhead'
    BY <1>1, <2>1, <2>2, <2>3
    DEF Pages, NothingLost, CursorIsLogged, PageIsComplete, PageIsAhead
  <2>5. Key(e) # dbCur
    <3>1. IsLog(Requests) /\ log \subseteq Requests /\ Key(e) # ZeroCursor
      BY RequestsAreLog, RequestFacts, TypeInvFacts
    <3> QED
      BY <2>1, <3>1, KeysAreDistinct DEF Pages, NothingLost, CursorIsLogged
  <2>6. Key(e) \in Cursors /\ dbCur \in Cursors
    BY RequestFacts, TypeInvFacts
  <2>7. Before(dbCur, Key(e)) \/ e \in overtaken'
    BY <2>2, <2>5, <2>6, BeforeIsOrder
  <2>8. NoPriceIsSkipped'
    BY <1>1, <2>1, <2>2, <2>7 DEF Pages, NothingLost, NoPriceIsSkipped
  <2> QED
    BY <2>4, <2>8 DEF Pages, NothingLost
<1> QED
  BY <1>2, <1>3

EventsOf(journal) == {journal[i].event : i \in DOMAIN journal}

\* What a run of entries adds to the settled events.
LEMMA RunIsSettled ==
  ASSUME NEW old \in Seq(JournalEntries), NEW run \in Seq(JournalEntries), run # <<>>
  PROVE  EventsOf(old) \cup EventsOf(run) \subseteq EventsOf(old \o run)
<1> PICK new : new = old \o run
  OBVIOUS
<1> PICK n : n = Len(old)
  OBVIOUS
<1>1. /\ \A i \in DOMAIN old : i \in DOMAIN new /\ new[i] = old[i]
      /\ \A i \in DOMAIN run : n + i \in DOMAIN new /\ new[n + i] = run[i]
  BY JournalAfter
<1>2. ASSUME NEW i \in DOMAIN run PROVE \E k \in DOMAIN new : new[k] = run[i]
  BY <1>1
<1>3. EventsOf(old) \subseteq EventsOf(new)
  BY <1>1 DEF EventsOf
<1>4. EventsOf(run) \subseteq EventsOf(new)
  BY <1>2 DEF EventsOf
<1> QED
  BY <1>3, <1>4

\* A commit takes the stored cursor, forward or back, to a price of the page
\* that is being worked on, and settles what the page has up to there.
LEMMA CommitSkipsNothing ==
  ASSUME TypeInv, NoPriceIsSkipped, cur = dbCur \/ Before(cur, dbCur),
         NEW run \in Seq(JournalEntries), run # <<>>, settled' = settled \o run,
         NEW last \in log, dbCur' = Key(last), UNCHANGED <<log, overtaken>>,
         \A e \in log : Before(cur, Key(e)) /\ ~Before(Key(last), Key(e))
                          => e \in EventsOf(run) \cup overtaken
  PROVE  CursorIsLogged' /\ NoPriceIsSkipped'
<1>1. CursorIsLogged'
  BY DEF CursorIsLogged
<1>2. EventsOf(settled) \cup EventsOf(run) \subseteq EventsOf(settled \o run)
  <2>1. settled \in Seq(JournalEntries)
    BY DEF TypeInv, ListsAreTyped
  <2> QED
    BY <2>1, RunIsSettled
<1>3. ASSUME NEW e \in log, ~Before(Key(last), Key(e)), e \notin overtaken
      PROVE  e \in EventsOf(settled) \cup EventsOf(run)
  <2>1. CASE Before(cur, Key(e))
    BY <1>3, <2>1
  <2>2. CASE ~Before(cur, Key(e))
    <3>1. Key(e) \in Cursors /\ cur \in Cursors /\ dbCur \in Cursors
      BY TypeInvFacts
    <3>2. ~Before(dbCur, Key(e))
      BY <2>2, <3>1, BeforeIsOrder
    <3> QED
      BY <1>3, <3>2 DEF NoPriceIsSkipped, EventsOf
  <2> QED
    BY <2>1, <2>2
<1>4. ASSUME NEW e \in log, ~Before(Key(last), Key(e)), e \notin overtaken
      PROVE  \E i \in DOMAIN settled' : settled'[i].event = e
  <2>1. e \in EventsOf(settled')
    BY <1>2, <1>3, <1>4
  <2> QED
    BY <2>1 DEF EventsOf
<1>5. NoPriceIsSkipped'
  BY <1>4 DEF NoPriceIsSkipped
<1> QED
  BY <1>1, <1>5

\* The newest price of a batch is its last one.
LEMMA BatchEndsLast ==
  ASSUME TypeInv, PageIsAhead, okBatch # <<>>
  PROVE  LET last == Last(okBatch)
         IN  /\ last \in ToSet(okBatch) /\ last \in log /\ Before(cur, Key(last))
             /\ \A e \in ToSet(okBatch) : ~Before(Key(last), Key(e))
             /\ \A e \in queue : Before(Key(last), Key(e))
<1> PICK n : n = Len(okBatch)
  OBVIOUS
<1>1. /\ DOMAIN okBatch = 1 .. n /\ n \in Nat /\ n \in DOMAIN okBatch
      /\ Last(okBatch) = okBatch[n] /\ ToSet(okBatch) = {okBatch[i] : i \in DOMAIN okBatch}
  BY ToSetFacts DEF TypeInv, ListsAreTyped
<1>2. \A i \in DOMAIN okBatch : okBatch[i] \in log /\ Key(okBatch[i]) \in Cursors
  BY TypeInvFacts
<1>3. ASSUME NEW i \in DOMAIN okBatch PROVE ~Before(Key(okBatch[n]), Key(okBatch[i]))
  <2>1. i = n \/ i < n
    BY <1>1
  <2>2. CASE i = n
    BY <1>1, <1>2, <2>2, BeforeIsOrder
  <2>3. CASE i < n
    <3>1. Before(Key(okBatch[i]), Key(okBatch[n]))
      BY <1>1, <2>3 DEF PageIsAhead
    <3> QED
      BY <1>1, <1>2, <3>1, BeforeIsOrder
  <2> QED
    BY <2>1, <2>2, <2>3
<1>4. /\ okBatch[n] \in log /\ Before(cur, Key(okBatch[n]))
      /\ \A e \in queue : Before(Key(okBatch[n]), Key(e))
  BY <1>1, <1>2 DEF PageIsAhead
<1> QED
  BY <1>1, <1>3, <1>4

\* What a batch leaves of the page: the queue.
LEMMA BatchSkipsNothing ==
  ASSUME SkipInv, pc = "flush", CommitBatch, UNCHANGED <<log, overtaken>>
  PROVE  /\ CursorIsLogged' /\ NoPriceIsSkipped' /\ Before(cur, dbCur')
         /\ cur' = LastKey /\ queue' = queue /\ okBatch' = <<>>
              => PageIsComplete' /\ PageIsAhead'
<1>1. /\ TypeInv /\ PageIsAhead /\ CursorLags /\ PageIsComplete /\ NoPriceIsSkipped
      /\ okBatch # <<>> /\ okBatch \in Seq(Requests)
  BY DEF SkipInv, Pages, NothingLost, TypeInv, ListsAreTyped, ControlIsConsistent
<1>2. /\ queue \subseteq log /\ log \subseteq Requests /\ cur \in Cursors
      /\ \A e \in log : Key(e) \in Cursors
  BY <1>1, TypeInvFacts
<1> PICK last : last = Last(okBatch)
  OBVIOUS
<1>3. /\ last \in ToSet(okBatch) /\ last \in log /\ Before(cur, Key(last))
      /\ \A e \in ToSet(okBatch) : ~Before(Key(last), Key(e))
      /\ \A e \in queue : Before(Key(last), Key(e))
  BY <1>1, BatchEndsLast
<1>4. LastKey = Key(last) /\ dbCur' = Key(last)
  BY DEF LastKey, CommitBatch
<1>5. ASSUME NEW e \in log, Before(cur, Key(e)), ~Before(Key(last), Key(e))
      PROVE  e \in ToSet(okBatch) \cup overtaken
  <2>1. e = last \/ Before(Key(e), Key(last))
    BY <1>2, <1>3, <1>5, RequestsAreOrdered
  <2>2. CASE Before(Key(e), Key(last))
    <3>1. e \in Fetched \cup overtaken
      BY <1>1, <1>3, <1>5, <2>2 DEF PageIsComplete, Fetched
    <3>2. e \notin queue
      BY <1>3, <1>5
    <3> QED
      BY <3>1, <3>2 DEF Fetched
  <2> QED
    BY <1>3, <2>1, <2>2
<1>6. CursorIsLogged' /\ NoPriceIsSkipped'
  <2> PICK run : run = [i \in DOMAIN okBatch |-> Entry(okBatch[i], "APPLIED")]
    OBVIOUS
  <2>1. settled' = settled \o run
    BY DEF CommitBatch
  <2>2. /\ run \in Seq(JournalEntries) /\ Len(run) = Len(okBatch)
        /\ DOMAIN run = 1 .. Len(okBatch) /\ DOMAIN okBatch = 1 .. Len(okBatch)
        /\ \A i \in DOMAIN okBatch : run[i].event = okBatch[i]
    BY <1>1, BatchEntries, ToSetFacts
  <2>3. run # <<>>
    BY <1>1, <2>2, EmptySeq
  <2>4. ToSet(okBatch) \subseteq EventsOf(run)
    BY <2>2 DEF EventsOf, ToSet
  <2>5. cur = dbCur \/ Before(cur, dbCur)
    BY <1>1 DEF CursorLags, InPass
  <2>6. \A e \in log : Before(cur, Key(e)) /\ ~Before(Key(last), Key(e))
                         => e \in EventsOf(run) \cup overtaken
    BY <1>5, <2>4
  <2> QED
    BY <1>1, <1>3, <1>4, <2>1, <2>2, <2>3, <2>5, <2>6, CommitSkipsNothing
<1>7. ASSUME cur' = LastKey, queue' = queue, okBatch' = <<>>
      PROVE  PageIsComplete' /\ PageIsAhead'
  <2>1. Fetched' = queue /\ DOMAIN okBatch' = {}
    BY <1>7 DEF Fetched, ToSet
  <2>2. ASSUME NEW e \in log, NEW f \in queue, Before(Key(last), Key(e)), Before(Key(e), Key(f))
        PROVE  e \in queue \cup overtaken
    <3>1. Before(cur, Key(e))
      BY <1>2, <1>3, <2>2, BeforeIsOrder
    <3>2. e \in Fetched \cup overtaken
      BY <1>1, <2>2, <3>1 DEF PageIsComplete, Fetched
    <3>3. e \notin ToSet(okBatch)
      BY <1>3, <2>2
    <3> QED
      BY <3>2, <3>3 DEF Fetched
  <2>3. PageIsComplete'
    BY <1>4, <1>7, <2>1, <2>2 DEF PageIsComplete
  <2>4. PageIsAhead'
    BY <1>3, <1>4, <1>7, <2>1 DEF PageIsAhead
  <2> QED
    BY <2>3, <2>4
<1> QED
  BY <1>3, <1>4, <1>6, <1>7

\* So does a dead letter.
LEMMA DeadLetterSkipsNothing ==
  ASSUME SkipInv, pc = "dlq", CommitDLQ, UNCHANGED <<log, overtaken>>
  PROVE  LET d == EarliestOf(queue)
         IN  /\ CursorIsLogged' /\ NoPriceIsSkipped' /\ Before(cur, dbCur')
             /\ cur' = Key(d) /\ queue' = queue \ {d} /\ okBatch' = okBatch
                  => PageIsComplete' /\ PageIsAhead'
<1> PICK d : d = EarliestOf(queue)
  OBVIOUS
<1>1. /\ TypeInv /\ PageIsAhead /\ CursorLags /\ PageIsComplete /\ NoPriceIsSkipped
      /\ queue # {} /\ okBatch = <<>>
  BY DEF SkipInv, Pages, NothingLost, TypeInv, ControlIsConsistent
<1>2. /\ queue \subseteq log /\ log \subseteq Requests /\ cur \in Cursors
      /\ \A e \in log : Key(e) \in Cursors
  BY <1>1, TypeInvFacts
<1>3. /\ d \in queue /\ d \in log /\ Before(cur, Key(d))
      /\ \A f \in queue : f = d \/ Before(Key(d), Key(f))
  BY <1>1, <1>2, EarliestRequest DEF PageIsAhead
<1>4. Fetched = queue
  BY <1>1 DEF ToSet, Fetched
<1>5. dbCur' = Key(d) /\ settled' = Append(settled, Entry(d, "EVENT_TOO_STALE"))
  BY DEF CommitDLQ
<1>6. ASSUME NEW e \in log, Before(cur, Key(e)), ~Before(Key(d), Key(e))
      PROVE  e \in {d} \cup overtaken
  <2>1. e = d \/ Before(Key(e), Key(d))
    BY <1>2, <1>3, <1>6, RequestsAreOrdered
  <2>2. CASE Before(Key(e), Key(d))
    <3>1. e \in queue \cup overtaken
      BY <1>1, <1>3, <1>4, <1>6, <2>2 DEF PageIsComplete
    <3> QED
      BY <1>3, <1>6, <3>1
  <2> QED
    BY <2>1, <2>2
<1>7. CursorIsLogged' /\ NoPriceIsSkipped'
  <2> PICK letter : letter = Entry(d, "EVENT_TOO_STALE")
    OBVIOUS
  <2> PICK run : run = <<letter>>
    OBVIOUS
  <2>1. letter \in JournalEntries /\ letter.event = d
    BY <1>2, <1>3 DEF Entry, JournalEntries, Verdicts
  <2>2. run \in Seq(JournalEntries) /\ run # <<>> /\ EventsOf(run) = {d}
    BY <2>1 DEF EventsOf
  <2>3. settled' = settled \o run
    BY <1>1, <1>5, <2>1, AppendIsConcat DEF TypeInv, ListsAreTyped
  <2>4. cur = dbCur \/ Before(cur, dbCur)
    BY <1>1 DEF CursorLags, InPass
  <2>5. \A e \in log : Before(cur, Key(e)) /\ ~Before(Key(d), Key(e))
                         => e \in EventsOf(run) \cup overtaken
    BY <1>6, <2>2
  <2> QED
    BY <1>1, <1>3, <1>5, <2>2, <2>3, <2>4, <2>5, CommitSkipsNothing
<1>8. ASSUME cur' = Key(d), queue' = queue \ {d}, okBatch' = okBatch
      PROVE  PageIsComplete' /\ PageIsAhead'
  <2>1. Fetched' = queue \ {d} /\ DOMAIN okBatch' = {}
    BY <1>1, <1>8 DEF Fetched, ToSet
  <2>2. ASSUME NEW e \in log, NEW f \in queue, Before(Key(d), Key(e)), Before(Key(e), Key(f))
        PROVE  e \in (queue \ {d}) \cup overtaken
    <3>1. Before(cur, Key(e)) /\ e # d
      BY <1>2, <1>3, <2>2, BeforeIsOrder
    <3> QED
      BY <1>1, <1>4, <2>2, <3>1 DEF PageIsComplete
  <2>3. PageIsComplete'
    BY <1>8, <2>1, <2>2 DEF PageIsComplete
  <2>4. PageIsAhead'
    BY <1>3, <1>8, <2>1 DEF PageIsAhead
  <2> QED
    BY <2>3, <2>4
<1> QED
  BY <1>3, <1>5, <1>7, <1>8

\* A page begins at the cursor of the worker; the whole log is one as well.
LEMMA PageSkipsNothing ==
  ASSUME TypeInv, Pages, okBatch' = <<>>,
         UNCHANGED <<log, dbCur, settled, overtaken>>,
         \/ /\ cur' = cur
            /\ queue' = EligibleBatchAfterWatermark(FetchAfter(log, cur, PageLimit),
                          maxSeen - Watermark, Watermark, PageLimit)
         \/ cur' = ZeroCursor /\ queue' = log
  PROVE  Pages'
<1>1. /\ log \subseteq Requests /\ cur \in Cursors /\ maxSeen \in Nat
  BY TypeInvFacts DEF TypeInv, TypeOK
<1>2. Fetched' = queue' /\ DOMAIN okBatch' = {}
  BY DEF Fetched, ToSet
<1>3. CASE cur' = ZeroCursor /\ queue' = log
  <2>1. \A e \in log : Before(ZeroCursor, Key(e))
    BY <1>1, RequestFacts, ZeroIsFirst
  <2>2. PageIsComplete' /\ PageIsAhead'
    BY <1>2, <1>3, <2>1 DEF PageIsComplete, PageIsAhead
  <2> QED
    BY <2>2, NothingSettled DEF Pages, NothingLost
<1>4. CASE /\ cur' = cur
           /\ queue' = EligibleBatchAfterWatermark(FetchAfter(log, cur, PageLimit),
                         maxSeen - Watermark, Watermark, PageLimit)
  <2> PICK batch : batch = FetchAfter(log, cur, PageLimit)
    OBVIOUS
  <2>1. PageLimit \in Nat /\ maxSeen - Watermark \in Int
    BY <1>1, PricesAssumption
  <2>2. IsLog(log) /\ IsFiniteSet(log)
    BY <1>1, RequestsAreLog
  <2>3. /\ batch \subseteq log
        /\ \A e \in batch : Before(cur, Key(e))
        /\ \A e \in batch, f \in log :
             Before(cur, Key(f)) /\ Before(Key(f), Key(e)) => f \in batch
    BY <1>1, <2>1, <2>2, PageIsPrefix
  <2>4. IsLog(batch)
    BY <2>2, <2>3, SubsetIsLog
  <2>5. /\ queue' \subseteq batch
        /\ \A e \in queue', f \in batch : Before(Key(f), Key(e)) => f \in queue'
    BY <1>4, <2>1, <2>4, EligibleIsPrefix
  <2>6. PageIsComplete' /\ PageIsAhead'
    BY <1>2, <1>4, <2>3, <2>5 DEF PageIsComplete, PageIsAhead
  <2> QED
    BY <2>6, NothingSettled DEF Pages, NothingLost
<1> QED
  BY <1>3, <1>4

\* Collecting a price takes nothing off the page.
LEMMA CollectedIsNotSkipped ==
  ASSUME TypeInv, Pages, queue # {},
         UNCHANGED <<log, overtaken, dbCur, settled, cur>>,
         okBatch' = Append(okBatch, EarliestOf(queue)),
         queue' = queue \ {EarliestOf(queue)}
  PROVE  Pages'
<1> PICK d : d = EarliestOf(queue)
  OBVIOUS
<1> PICK n : n = Len(okBatch)
  OBVIOUS
<1>1. /\ queue \subseteq log /\ log \subseteq Requests /\ okBatch \in Seq(Requests)
      /\ PageIsAhead /\ PageIsComplete
  BY TypeInvFacts DEF TypeInv, ListsAreTyped, Pages, NothingLost
<1>2. d \in queue /\ d \in Requests /\ \A f \in queue : f = d \/ Before(Key(d), Key(f))
  BY <1>1, EarliestRequest
<1>3. /\ n \in Nat /\ DOMAIN okBatch = 1 .. n
      /\ okBatch' \in Seq(Requests) /\ Len(okBatch') = n + 1
      /\ \A i \in 1 .. n : okBatch'[i] = okBatch[i]
      /\ okBatch'[n + 1] = d
  BY <1>1, <1>2, AppendProperties, LenProperties
<1>4. DOMAIN okBatch' = 1 .. n + 1
  BY <1>3, LenProperties
<1>5. \A i \in DOMAIN okBatch' : \/ i \in DOMAIN okBatch /\ okBatch'[i] = okBatch[i]
                                 \/ i = n + 1 /\ okBatch'[i] = d
  BY <1>3, <1>4
<1>6. \A i, j \in DOMAIN okBatch' :
        i < j => i \in DOMAIN okBatch /\ okBatch'[i] = okBatch[i]
  BY <1>3, <1>4
<1>7. Fetched' = Fetched
  <2>1. \A i \in DOMAIN okBatch : i \in DOMAIN okBatch' /\ okBatch'[i] = okBatch[i]
    BY <1>3, <1>4
  <2>2. n + 1 \in DOMAIN okBatch' /\ okBatch'[n + 1] = d
    BY <1>3, <1>4
  <2>3. ToSet(okBatch') = ToSet(okBatch) \cup {d}
    BY <1>5, <2>1, <2>2 DEF ToSet
  <2> QED
    BY <1>2, <2>3 DEF Fetched
<1>8. \A i, j \in DOMAIN okBatch' : i < j => Before(Key(okBatch'[i]), Key(okBatch'[j]))
  BY <1>1, <1>2, <1>5, <1>6 DEF PageIsAhead
<1>9. \A i \in DOMAIN okBatch' : Before(cur, Key(okBatch'[i]))
  BY <1>1, <1>2, <1>5 DEF PageIsAhead
<1>10. \A i \in DOMAIN okBatch', e \in queue \ {d} : Before(Key(okBatch'[i]), Key(e))
  BY <1>1, <1>2, <1>5 DEF PageIsAhead
<1>11. PageIsAhead'
  BY <1>1, <1>8, <1>9, <1>10 DEF PageIsAhead
<1>12. PageIsComplete'
  BY <1>1, <1>7 DEF PageIsComplete
<1> QED
  BY <1>11, <1>12, NothingSettled DEF Pages, NothingLost

\* A failed pass leaves a cursor no further than the stored one, or no worker.
LEMMA FailedPassLags ==
  ASSUME CursorLags, PassFails, pc \in InPass \cup {"rebuild"},
         dbCur' = dbCur \/ (pc # "rebuild" /\ Before(cur, dbCur'))
  PROVE  CursorLags' /\ PageIsAhead' /\ PageIsComplete'
<1>1. pc' = "idle" /\ queue' = {} /\ okBatch' = <<>>
  BY DEF PassFails, ClearPass
<1>2. CASE rebuilding
  <2>1. known' = FALSE
    BY <1>2 DEF PassFails
  <2> QED
    BY <1>1, <2>1, NoPagesLeft DEF CursorLags, InPass
<1>3. CASE ~rebuilding
  <2>1. UNCHANGED <<known, cur>> /\ pc # "rebuild" /\ known
    BY <1>3 DEF PassFails, memory, CursorLags
  <2> QED
    BY <1>1, <2>1, NoPagesLeft DEF CursorLags, InPass
<1> QED
  BY <1>2, <1>3

LEMMA EndedPassLags ==
  ASSUME CursorLags, Pages, PassEnds, pc \in InPass,
         UNCHANGED <<log, overtaken, dbCur, settled>>
  PROVE  CursorLags' /\ Pages'
<1>1. /\ queue' = {} /\ okBatch' = <<>> /\ pc' \in {"max", "idle"}
      /\ UNCHANGED <<known, cur>>
  BY DEF PassEnds, ClearPass, memory
<1> QED
  BY <1>1, NoPages DEF CursorLags, InPass

LEMMA NextSkip == SkipInv /\ [Next]_vars => SkipInv'
<1> SUFFICES ASSUME SkipInv, [Next]_vars PROVE SkipInv'
  OBVIOUS
<1> USE DEF world, database, memory, pass
<1>0. TypeInv'
  BY NextTypeInv DEF SkipInv
<1>a. SUFFICES CursorLags' /\ Pages'
  BY <1>0 DEF SkipInv
<1>b. TypeInv /\ ControlIsConsistent /\ CursorLags /\ Pages
  BY DEF SkipInv, TypeInv
<1>1. ASSUME NEW e \in Requests, PostPrice(e) PROVE CursorLags' /\ Pages'
  <2>1. CursorLags'
    BY <1>1, <1>b DEF PostPrice, CursorLags
  <2> QED
    BY <1>1, <1>b, <2>1, ArrivalIsNotSkipped
<1>2. CASE ClockTicks
  BY <1>2, <1>b, PagesUntouched DEF ClockTicks, CursorLags
<1>3. CASE Start
  BY <1>3, <1>b, PagesUntouched DEF Start, CursorLags, InPass
<1>4. CASE Tick
  BY <1>4, <1>b, PagesUntouched DEF Tick, CursorLags, InPass
<1>5. CASE Rebuild
  <2>1. /\ pc = "rebuild" /\ cur' = dbCur /\ okBatch' = <<>> /\ queue = {}
        /\ pc' \in {"apply", "max"}
        /\ UNCHANGED <<world, database, known>>
    BY <1>5, <1>b DEF Rebuild, ControlIsConsistent
  <2>2. CursorLags'
    BY <1>b, <2>1 DEF CursorLags, InPass
  <2>3. CASE cur' = ZeroCursor /\ queue' = log
    BY <1>b, <2>1, <2>2, <2>3, PageSkipsNothing
  <2>4. CASE queue' = queue
    BY <1>b, <2>1, <2>2, <2>4, NoPages
  <2> QED
    BY <1>5, <2>1, <2>3, <2>4 DEF Rebuild, IsZero
<1>6. CASE ReadMaxEventTime
  BY <1>6, <1>b, PagesUntouched DEF ReadMaxEventTime, CursorLags, InPass
<1>7. CASE FetchPage
  <2>1. pc = "fetch" /\ UNCHANGED <<world, database, faults>> /\ okBatch = <<>>
    BY <1>7, <1>b DEF FetchPage, ControlIsConsistent
  <2>2. CASE PassEnds
    BY <1>b, <2>1, <2>2, EndedPassLags DEF InPass
  <2>3. CASE /\ queue' = EligibleBatchAfterWatermark(FetchAfter(log, cur, PageLimit),
                           maxSeen - Watermark, Watermark, PageLimit)
             /\ pc' = "apply" /\ UNCHANGED <<memory, okBatch>>
    <3>1. CursorLags'
      BY <1>b, <2>1, <2>3 DEF CursorLags, InPass
    <3> QED
      BY <1>b, <2>1, <2>3, <3>1, PageSkipsNothing
  <2> QED
    BY <1>7, <2>2, <2>3 DEF FetchPage
<1>8. CASE ApplyNext
  <2>1. /\ pc = "apply" /\ queue # {} /\ pc' \in {"apply", "dlq", "flush"}
        /\ UNCHANGED <<world, database, known, cur>>
    BY <1>8 DEF ApplyNext
  <2>2. CursorLags'
    BY <1>b, <2>1 DEF CursorLags, InPass
  <2>3. CASE UNCHANGED <<queue, okBatch>>
    BY <1>b, <2>1, <2>2, <2>3, PagesUntouched
  <2>4. CASE /\ okBatch' = Append(okBatch, EarliestOf(queue))
             /\ queue' = queue \ {EarliestOf(queue)}
    BY <1>b, <2>1, <2>2, <2>4, CollectedIsNotSkipped
  <2> QED
    BY <1>8, <2>3, <2>4 DEF ApplyNext
<1>9. CASE ApplyDone
  <2>1. pc = "apply" /\ UNCHANGED <<world, database, faults>>
    BY <1>9 DEF ApplyDone
  <2>2. CASE PassEnds
    BY <1>b, <2>1, <2>2, EndedPassLags DEF InPass
  <2>3. CASE pc' \in {"flush", "max"} /\ UNCHANGED <<memory, pass>>
    BY <1>b, <2>1, <2>3, PagesUntouched DEF CursorLags, InPass
  <2> QED
    BY <1>9, <2>2, <2>3 DEF ApplyDone
<1>10. CASE Flush
  <2>1. /\ pc = "flush" /\ CommitBatch /\ cur' = LastKey /\ okBatch' = <<>>
        /\ UNCHANGED <<world, known, queue>>
        /\ pc' \in {"apply", "dlq"}
    BY <1>10 DEF Flush
  <2>2. Pages'
    BY <2>1, BatchSkipsNothing DEF Pages, NothingLost
  <2>3. cur' = dbCur'
    BY <2>1 DEF CommitBatch
  <2> QED
    BY <1>b, <2>1, <2>2, <2>3 DEF CursorLags, InPass
<1>11. CASE DeadLetter
  <2>1. /\ pc = "dlq" /\ pc' = "apply" /\ CommitDLQ
        /\ cur' = Key(EarliestOf(queue)) /\ queue' = queue \ {EarliestOf(queue)}
        /\ UNCHANGED <<world, known, okBatch>>
    BY <1>11 DEF DeadLetter
  <2>2. Pages'
    BY <2>1, DeadLetterSkipsNothing DEF Pages, NothingLost
  <2>3. cur' = dbCur'
    BY <2>1 DEF CommitDLQ
  <2> QED
    BY <1>b, <2>1, <2>2, <2>3 DEF CursorLags, InPass
<1>12. CASE Crash
  <2>1. /\ queue' = {} /\ okBatch' = <<>> /\ pc' = "down" /\ known' = FALSE
        /\ UNCHANGED <<world, database>>
    BY <1>12 DEF Crash, ClearPass
  <2> QED
    BY <1>b, <2>1, NoPages DEF CursorLags, InPass
<1>13. CASE PassFails /\ pc \in InPass \cup {"rebuild"} /\ UNCHANGED <<world, database>>
  BY <1>13, <1>b, FailedPassLags, NothingSettled DEF Pages, NothingLost
<1>14. CASE pc = "flush" /\ PassFails /\ CommitBatch /\ UNCHANGED world
  <2>1. CursorIsLogged' /\ NoPriceIsSkipped' /\ Before(cur, dbCur')
    BY <1>14, BatchSkipsNothing
  <2> QED
    BY <1>b, <1>14, <2>1, FailedPassLags DEF Pages, NothingLost, InPass
<1>15. CASE pc = "dlq" /\ PassFails /\ CommitDLQ /\ UNCHANGED world
  <2>1. CursorIsLogged' /\ NoPriceIsSkipped' /\ Before(cur, dbCur')
    BY <1>15, DeadLetterSkipsNothing
  <2> QED
    BY <1>b, <1>15, <2>1, FailedPassLags DEF Pages, NothingLost, InPass
<1>16. CASE ReadFails \/ FlushRefused \/ FlushFails
  BY <1>13, <1>16 DEF ReadFails, FlushRefused, FlushFails, InPass
<1>17. CASE FlushAckLost
  BY <1>14, <1>17 DEF FlushAckLost
<1>18. CASE DeadLetterFails
  BY <1>13, <1>15, <1>18 DEF DeadLetterFails, InPass
<1>19. CASE UNCHANGED vars
  BY <1>19, <1>b, PagesUntouched DEF vars, CursorLags
<1> QED
  BY <1>1, <1>2, <1>3, <1>4, <1>5, <1>6, <1>7, <1>8, <1>9, <1>10, <1>11, <1>12,
     <1>16, <1>17, <1>18, <1>19
  DEF Next, Worker, Failure

LEMMA InitSkip == Init => SkipInv
<1> SUFFICES ASSUME Init PROVE SkipInv
  OBVIOUS
<1>1. TypeInv
  BY InitTypeInv
<1>2. queue = {} /\ okBatch = <<>> /\ log = {} /\ dbCur = ZeroCursor
      /\ pc = "down" /\ ~known
  BY DEF Init
<1>3. PageIsAhead /\ PageIsComplete /\ CursorIsLogged /\ NoPriceIsSkipped /\ CursorLags
  BY <1>2
  DEF PageIsAhead, PageIsComplete, CursorIsLogged, NoPriceIsSkipped, CursorLags, InPass
<1> QED
  BY <1>1, <1>3 DEF SkipInv, Pages, NothingLost

\* The worker steps over no price that had arrived when it read the page: what
\* lies at or behind the stored cursor has a verdict or was overtaken, even
\* when a batch cannot be committed at all, whatever call fails and whatever
\* answer is lost.
THEOREM NothingIsSkipped == Spec => []NoPriceIsSkipped
<1>1. SkipInv => NoPriceIsSkipped
  BY DEF SkipInv, Pages, NothingLost
<1> QED
  BY <1>1, InitSkip, NextSkip, PTL DEF Spec

-----------------------------------------------------------------------------
(* A pass runs down, from what SkipInv says of batch and queue.            *)

\* What every step within a pass does, unless it is one of the environment's.
StepRunsDown == {pc, pc'} \subseteq InPass /\ UNCHANGED world => RunsDown \/ UNCHANGED vars

\* A return ends the pass, or turns the pass of a rebuild into the one after it.
LEMMA ReturnRunsDown ==
  ASSUME PassEnds \/ PassFails
  PROVE  StepRunsDown
<1>1. pc' \in InPass => rebuilding /\ ~rebuilding'
  BY DEF PassEnds, PassFails, InPass
<1> QED
  BY <1>1 DEF StepRunsDown, RunsDown

\* A step that goes on to a later stage of the round with the same page.
LEMMA StageRunsDown ==
  ASSUME UNCHANGED <<log, cur, rebuilding, queue, okBatch>>,
         {pc, pc'} \subseteq InPass => Stage' < Stage
  PROVE  StepRunsDown
<1>1. UNCHANGED Unfetched
  BY DEF Unfetched, Fetched
<1> QED
  BY <1>1 DEF StepRunsDown, RunsDown

\* A page is taken off what waits.
LEMMA PageRunsDown ==
  ASSUME SkipInv, FetchPage
  PROVE  StepRunsDown
<1> PICK page : page = EligibleBatchAfterWatermark(FetchAfter(log, cur, PageLimit),
                         maxSeen - Watermark, Watermark, PageLimit)
  OBVIOUS
<1>1. page \subseteq Beyond(log, cur)
  BY DEF EligibleBatchAfterWatermark, EligiblePrefix, FetchAfter
<1>2. pc = "fetch" /\ queue = {} /\ okBatch = <<>>
  BY DEF FetchPage, SkipInv, TypeInv, ControlIsConsistent
<1>3. CASE page = {}
  BY <1>3, ReturnRunsDown DEF FetchPage
<1>4. CASE page # {}
  <2>1. queue' = page /\ UNCHANGED <<log, cur, okBatch, rebuilding>>
    BY <1>4 DEF FetchPage, world, memory
  <2>2. Unfetched = Beyond(log, cur) /\ Unfetched' = Beyond(log, cur) \ page
    BY <1>2, <2>1 DEF Unfetched, Fetched, ToSet
  <2>3. Shrinks(Unfetched', Unfetched)
    BY <1>1, <1>4, <2>2 DEF Shrinks
  <2> QED
    BY <2>1, <2>3 DEF StepRunsDown, RunsDown
<1> QED
  BY <1>3, <1>4

\* Appending to a batch adds to what it holds.
LEMMA BatchGrows ==
  ASSUME NEW b \in Seq(Requests), NEW d \in Requests
  PROVE  ToSet(Append(b, d)) = ToSet(b) \cup {d}
<1> PICK n : n = Len(b)
  OBVIOUS
<1> PICK new : new = Append(b, d)
  OBVIOUS
<1>1. /\ n \in Nat /\ DOMAIN b = 1 .. n
      /\ new \in Seq(Requests) /\ Len(new) = n + 1
      /\ \A i \in 1 .. n : new[i] = b[i]
      /\ new[n + 1] = d
  BY AppendProperties, LenProperties
<1>2. DOMAIN new = 1 .. n + 1
  BY <1>1, LenProperties
<1>3. \A i \in DOMAIN new : \/ i \in DOMAIN b /\ new[i] = b[i]
                            \/ i = n + 1 /\ new[i] = d
  BY <1>1, <1>2
<1>4. \A i \in DOMAIN b : i \in DOMAIN new /\ new[i] = b[i]
  BY <1>1, <1>2
<1>5. n + 1 \in DOMAIN new /\ new[n + 1] = d
  BY <1>1, <1>2
<1> QED
  BY <1>3, <1>4, <1>5 DEF ToSet

\* A price taken off the queue joins the batch.
LEMMA CollectedRunsDown ==
  ASSUME SkipInv, queue # {}, UNCHANGED <<log, cur, rebuilding>>,
         okBatch' = Append(okBatch, EarliestOf(queue)),
         queue' = queue \ {EarliestOf(queue)}
  PROVE  RunsDown
<1> PICK d : d = EarliestOf(queue)
  OBVIOUS
<1>1. okBatch \in Seq(Requests) /\ queue \subseteq Requests
  BY TypeInvFacts DEF SkipInv, TypeInv, ListsAreTyped
<1>2. d \in queue /\ d \in Requests
  BY <1>1, EarliestRequest
<1>3. ToSet(okBatch') = ToSet(okBatch) \cup {d}
  BY <1>1, <1>2, BatchGrows
<1>4. UNCHANGED Unfetched
  BY <1>2, <1>3 DEF Unfetched, Fetched
<1>5. Shrinks(queue', queue)
  BY <1>2 DEF Shrinks
<1> QED
  BY <1>4, <1>5 DEF RunsDown

\* Moving the cursor past prices that were fetched brings none back.
LEMMA NothingComesBack ==
  ASSUME TypeInv, NEW last \in log, Before(cur, Key(last)), cur' = Key(last),
         UNCHANGED log, NEW left, Fetched' = left,
         \A e \in Fetched : e \in left \/ ~Before(Key(last), Key(e))
  PROVE  Unfetched' \subseteq Unfetched
<1>1. cur \in Cursors /\ \A e \in log : Key(e) \in Cursors
  BY TypeInvFacts
<1>2. Unfetched' = {e \in log : Before(Key(last), Key(e))} \ left
  BY DEF Unfetched, Beyond
<1>3. ASSUME NEW e \in log, Before(Key(last), Key(e)), e \notin left
      PROVE  Before(cur, Key(e)) /\ e \notin Fetched
  BY <1>1, <1>3, BeforeIsOrder
<1> QED
  BY <1>2, <1>3 DEF Unfetched, Beyond

\* A commit leaves nothing of its batch behind the cursor.
LEMMA CommitRunsDown ==
  ASSUME SkipInv, Flush
  PROVE  RunsDown
<1>1. /\ pc = "flush" /\ cur' = LastKey /\ okBatch' = <<>>
      /\ UNCHANGED <<log, rebuilding, queue>>
  BY DEF Flush, world
<1>2. TypeInv /\ PageIsAhead /\ okBatch # <<>>
  BY <1>1 DEF SkipInv, Pages, TypeInv, ControlIsConsistent
<1> PICK last : last = Last(okBatch)
  OBVIOUS
<1>3. /\ last \in log /\ Before(cur, Key(last))
      /\ \A e \in ToSet(okBatch) : ~Before(Key(last), Key(e))
  BY <1>2, BatchEndsLast
<1>4. cur' = Key(last)
  BY <1>1 DEF LastKey
<1>5. Fetched' = queue
  BY <1>1 DEF Fetched, ToSet
<1>6. \A e \in Fetched : e \in queue \/ ~Before(Key(last), Key(e))
  BY <1>3 DEF Fetched
<1>7. Unfetched' \subseteq Unfetched
  BY <1>1, <1>2, <1>3, <1>4, <1>5, <1>6, NothingComesBack
<1> QED
  BY <1>1, <1>2, <1>7 DEF RunsDown, Shrinks

\* A dead letter takes the head off the queue and the cursor to it.
LEMMA DeadLetterRunsDown ==
  ASSUME SkipInv, DeadLetter
  PROVE  RunsDown
<1> PICK d : d = EarliestOf(queue)
  OBVIOUS
<1>1. /\ pc = "dlq" /\ cur' = Key(d) /\ queue' = queue \ {d}
      /\ UNCHANGED <<log, rebuilding, okBatch>>
  BY DEF DeadLetter, world
<1>2. TypeInv /\ PageIsAhead /\ okBatch = <<>> /\ queue # {}
  BY <1>1 DEF SkipInv, Pages, TypeInv, ControlIsConsistent
<1>3. queue \subseteq log /\ log \subseteq Requests /\ \A e \in log : Key(e) \in Cursors
  BY <1>2, TypeInvFacts
<1>4. d \in queue /\ d \in log /\ Before(cur, Key(d))
  BY <1>2, <1>3, EarliestRequest DEF PageIsAhead
<1>5. Fetched = queue /\ Fetched' = queue \ {d}
  BY <1>1, <1>2 DEF Fetched, ToSet
<1>6. ~Before(Key(d), Key(d))
  BY <1>3, <1>4, BeforeIsOrder
<1>7. \A e \in Fetched : e \in queue \ {d} \/ ~Before(Key(d), Key(e))
  BY <1>5, <1>6
<1>8. Unfetched' \subseteq Unfetched
  BY <1>1, <1>2, <1>4, <1>5, <1>7, NothingComesBack
<1>9. Shrinks(queue', queue)
  BY <1>1, <1>4 DEF Shrinks
<1> QED
  BY <1>1, <1>8, <1>9 DEF RunsDown, Shrinks

LEMMA NextRunsDown ==
  ASSUME SkipInv, [Next]_vars
  PROVE  StepRunsDown
<1> USE DEF world, database, memory, pass
<1>0. TypeOK /\ ControlIsConsistent
  BY DEF SkipInv, TypeInv
<1>1. ASSUME NEW e \in Requests, PostPrice(e) PROVE StepRunsDown
  <2>1. UNCHANGED <<database, pc, memory, pass, now, faults>>
    BY <1>1 DEF PostPrice
  <2> QED
    BY <2>1 DEF StepRunsDown, vars
<1>2. CASE ClockTicks
  <2>1. now' # now
    BY <1>0, <1>2 DEF ClockTicks, TypeOK
  <2> QED
    BY <2>1 DEF StepRunsDown
<1>3. CASE Start \/ Tick \/ Rebuild \/ Crash
  BY <1>3 DEF Start, Tick, Rebuild, Crash, StepRunsDown, InPass
<1>4. CASE ReadMaxEventTime
  BY <1>4, StageRunsDown DEF ReadMaxEventTime, Stage
<1>5. CASE FetchPage
  BY <1>5, PageRunsDown
<1>6. CASE ApplyNext
  <2>1. pc = "apply" /\ queue # {} /\ UNCHANGED <<log, cur, rebuilding>>
    BY <1>6 DEF ApplyNext
  <2>2. CASE pc' \in {"dlq", "flush"} /\ UNCHANGED <<okBatch, queue>>
    BY <2>1, <2>2, StageRunsDown DEF Stage
  <2>3. CASE /\ okBatch' = Append(okBatch, EarliestOf(queue))
             /\ queue' = queue \ {EarliestOf(queue)}
    BY <2>1, <2>3, CollectedRunsDown DEF StepRunsDown
  <2> QED
    BY <1>6, <2>2, <2>3 DEF ApplyNext
<1>7. CASE ApplyDone
  <2>1. CASE pc = "apply" /\ pc' \in {"flush", "max"} /\ UNCHANGED <<log, memory, pass>>
    BY <2>1, StageRunsDown DEF Stage
  <2> QED
    BY <1>7, <2>1, ReturnRunsDown DEF ApplyDone
<1>8. CASE Flush
  BY <1>8, CommitRunsDown DEF StepRunsDown
<1>9. CASE DeadLetter
  BY <1>9, DeadLetterRunsDown DEF StepRunsDown
<1>10. CASE ReadFails \/ FlushRefused \/ FlushFails \/ FlushAckLost \/ DeadLetterFails
  BY <1>10, ReturnRunsDown
  DEF ReadFails, FlushRefused, FlushFails, FlushAckLost, DeadLetterFails
<1>11. CASE UNCHANGED vars
  BY <1>11 DEF StepRunsDown
<1> QED
  BY <1>1, <1>2, <1>3, <1>4, <1>5, <1>6, <1>7, <1>8, <1>9, <1>10, <1>11
  DEF Next, Worker, Failure

\* The loops of a pass end, whatever fails: a batch that can never be committed
\* ends the pass each time, so it stops its own partition and not the shard.
THEOREM PassesEnd == Spec => PassesRunDown
<1>1. SkipInv /\ [Next]_vars
        => [({pc, pc'} \subseteq InPass /\ UNCHANGED world) => RunsDown]_vars
  BY NextRunsDown DEF StepRunsDown
<1> QED
  BY <1>1, InitSkip, NextSkip, PTL DEF Spec, PassesRunDown

-----------------------------------------------------------------------------
(* The projections.                                                        *)

Applied == {settled[i].event : i \in {j \in DOMAIN settled :
                                        settled[j].verdict = "APPLIED"}}

LEMMA AppliedBySymbol == \A s : AppliedTo(s) = Of(Applied, s)
BY DEF AppliedTo, Of, Applied

LEMMA AppliedType == TypeInv => Applied \subseteq Requests
BY TypeInvFacts DEF Applied

\* The projections change only in the transaction of a batch; a dead letter is
\* the one other commit.
LEMMA ProjectionSteps ==
  ASSUME [Next]_vars
  PROVE  \/ pc = "flush" /\ CommitBatch /\ UNCHANGED world
         \/ pc = "dlq" /\ CommitDLQ
         \/ UNCHANGED database
<1> USE DEF database, world
<1>1. CASE Flush \/ FlushAckLost
  BY <1>1 DEF Flush, FlushAckLost
<1>2. CASE DeadLetter \/ DeadLetterFails
  BY <1>2 DEF DeadLetter, DeadLetterFails
<1>3. CASE \E e \in Requests : PostPrice(e)
  BY <1>3 DEF PostPrice
<1>4. CASE ClockTicks \/ Start \/ Tick \/ Rebuild \/ ReadMaxEventTime \/ FetchPage
  BY <1>4 DEF ClockTicks, Start, Tick, Rebuild, ReadMaxEventTime, FetchPage
<1>5. CASE ApplyNext \/ ApplyDone \/ FlushRefused
  BY <1>5 DEF ApplyNext, ApplyDone, FlushRefused
<1>6. CASE Crash \/ ReadFails \/ FlushFails
  BY <1>6 DEF Crash, ReadFails, FlushFails
<1>7. CASE UNCHANGED vars
  BY <1>7 DEF vars
<1> QED
  BY <1>1, <1>2, <1>3, <1>4, <1>5, <1>6, <1>7 DEF Next, Worker, Failure

\* A batch adds its events to what is applied, and they come after all of it.
LEMMA BatchIsApplied ==
  ASSUME OrderInv, pc = "flush", CommitBatch
  PROVE  /\ Applied' = Applied \cup {okBatch[i] : i \in DOMAIN okBatch}
         /\ okBatch \in Seq(Requests)
         /\ \A i, j \in DOMAIN okBatch : i < j => Before(Key(okBatch[i]), Key(okBatch[j]))
         /\ \A f \in Applied, i \in DOMAIN okBatch : Before(Key(f), Key(okBatch[i]))
<1> DEFINE run == [i \in DOMAIN okBatch |-> Entry(okBatch[i], "APPLIED")]
           n == Len(settled)
<1>1. okBatch \in Seq(Requests) /\ okBatch # <<>> /\ settled \in Seq(JournalEntries)
  BY DEF OrderInv, TypeInv, ListsAreTyped, ControlIsConsistent
<1>2. /\ run \in Seq(JournalEntries) /\ Len(run) = Len(okBatch)
      /\ \A i \in DOMAIN okBatch : run[i].event = okBatch[i] /\ run[i].verdict = "APPLIED"
  BY <1>1, BatchEntries
<1>3. DOMAIN run = DOMAIN okBatch
  OBVIOUS
<1>4. settled' = settled \o run
  BY DEF CommitBatch
<1> HIDE DEF run, n
<1>5. run # <<>>
  BY <1>1, <1>2, EmptySeq
<1>6. /\ \A i \in DOMAIN settled : i \in DOMAIN settled' /\ settled'[i] = settled[i]
      /\ \A i \in DOMAIN run : n + i \in DOMAIN settled' /\ settled'[n + i] = run[i]
      /\ \A k \in DOMAIN settled' : \/ k \in DOMAIN settled /\ settled'[k] = settled[k]
                                    \/ k - n \in DOMAIN run /\ settled'[k] = run[k - n]
  BY <1>1, <1>2, <1>4, <1>5, JournalAfter DEF n
<1>7. Applied' = Applied \cup {okBatch[i] : i \in DOMAIN okBatch}
  <2>1. ASSUME NEW e \in Applied'
        PROVE  e \in Applied \cup {okBatch[i] : i \in DOMAIN okBatch}
    <3>1. PICK k \in DOMAIN settled' : settled'[k].event = e /\ settled'[k].verdict = "APPLIED"
      BY <2>1 DEF Applied
    <3> QED
      BY <1>2, <1>3, <1>6, <3>1 DEF Applied
  <2>2. ASSUME NEW e \in Applied PROVE e \in Applied'
    BY <1>6 DEF Applied
  <2>3. ASSUME NEW i \in DOMAIN okBatch PROVE okBatch[i] \in Applied'
    BY <1>2, <1>3, <1>6 DEF Applied
  <2> QED
    BY <2>1, <2>2, <2>3
<1>8. ASSUME NEW f \in Applied, NEW i \in DOMAIN okBatch
      PROVE  Before(Key(f), Key(okBatch[i]))
  <2>1. PICK j \in DOMAIN settled : settled[j].event = f
    BY DEF Applied
  <2>2. Key(f) = dbCur \/ Before(Key(f), dbCur)
    BY <2>1, SettledIsBehindCursor DEF OrderInv, JournalInv
  <2>3. Before(dbCur, Key(okBatch[i])) /\ okBatch[i] \in log
    BY DEF OrderInv, PageInv, BatchIsOrdered
  <2>4. Key(f) \in Cursors /\ dbCur \in Cursors /\ Key(okBatch[i]) \in Cursors
    BY <2>1, <2>3, TypeInvFacts DEF OrderInv
  <2> QED
    BY <2>2, <2>3, <2>4, BeforeIsOrder
<1>9. \A i, j \in DOMAIN okBatch : i < j => Before(Key(okBatch[i]), Key(okBatch[j]))
  BY DEF OrderInv, PageInv, BatchIsOrdered
<1> QED
  BY <1>1, <1>7, <1>8, <1>9

\* A dead letter adds nothing.
LEMMA DeadLetterIsNotApplied ==
  ASSUME TypeInv, CommitDLQ
  PROVE  Applied' = Applied /\ UNCHANGED <<marks, returns>>
<1> DEFINE entry == Entry(EarliestOf(queue), "EVENT_TOO_STALE")
           n == Len(settled)
<1>1. DOMAIN settled = 1 .. n /\ n \in Nat
  BY TypeInvFacts
<1>2. settled' = Append(settled, entry) /\ UNCHANGED <<marks, returns>>
  BY DEF CommitDLQ
<1>3. entry.verdict # "APPLIED"
  BY DEF Entry
<1> HIDE DEF entry
<1>4. /\ DOMAIN settled' = 1 .. n + 1
      /\ \A i \in DOMAIN settled : settled'[i] = settled[i]
      /\ settled'[n + 1] = entry
  <2>1. settled \in Seq({settled[i] : i \in DOMAIN settled} \cup {entry})
    <3>1. settled \in Seq(JournalEntries)
      BY DEF TypeInv, ListsAreTyped
    <3> QED
      BY <1>1, <3>1
  <2>2. /\ Len(settled') = n + 1
        /\ \A i \in 1 .. n : settled'[i] = settled[i]
        /\ settled'[n + 1] = entry
        /\ settled' \in Seq({settled[i] : i \in DOMAIN settled} \cup {entry})
    BY <1>2, <2>1, AppendProperties
  <2>3. DOMAIN settled' = 1 .. n + 1
    BY <2>2, LenProperties
  <2> QED
    BY <1>1, <2>2, <2>3
<1>5. \A i \in DOMAIN settled' : i \in DOMAIN settled \/ i = n + 1
  BY <1>1, <1>4
<1>6. DOMAIN settled \subseteq DOMAIN settled'
  BY <1>1, <1>4
<1>7. Applied' = Applied
  BY <1>3, <1>4, <1>5, <1>6 DEF Applied
<1> QED
  BY <1>2, <1>7

\* The newest applied price of a symbol, in another form: the mark of a symbol
\* against all that is applied to it.
IsMark(m, prices) ==
  \/ prices = {} /\ m = NoEvent
  \/ m \in prices /\ \A e \in prices : e = m \/ Before(Key(e), Key(m))

LEMMA MarksByIsMark ==
  MarkIsNewest <=> \A s \in Symbols : IsMark(marks[s], Of(Applied, s))
BY AppliedBySymbol DEF MarkIsNewest, IsMark

\* One transaction, one symbol: the last of its events in the batch is newer
\* than all that was applied before.
LEMMA BatchKeepsMarks ==
  ASSUME NEW ms, NEW A, NEW b \in Seq(Requests), NEW s \in Symbols,
         IsMark(ms[s], Of(A, s)),
         \A i, j \in DOMAIN b : i < j => Before(Key(b[i]), Key(b[j])),
         \A f \in A, i \in DOMAIN b : Before(Key(f), Key(b[i]))
  PROVE  IsMark(MarksAfter(ms, b)[s], Of(A \cup {b[i] : i \in DOMAIN b}, s))
<1> DEFINE new == {b[i] : i \in DOMAIN b}
<1>1. DOMAIN b \subseteq Nat
  BY LenProperties
<1>2. CASE OfSymbol(b, s) = {}
  <2>1. Of(A \cup new, s) = Of(A, s)
    BY <1>2 DEF Of, OfSymbol
  <2> QED
    BY <1>2, <2>1, MarksFacts
<1>3. CASE OfSymbol(b, s) # {}
  <2>1. PICK i \in OfSymbol(b, s) : /\ MarksAfter(ms, b)[s] = b[i]
                                    /\ \A j \in OfSymbol(b, s) : j <= i
    BY <1>3, MarksFacts
  <2>2. i \in DOMAIN b /\ b[i].sym = s
    BY DEF OfSymbol
  <2>3. b[i] \in Of(A \cup new, s)
    BY <2>2 DEF Of
  <2>4. ASSUME NEW e \in Of(A \cup new, s)
        PROVE  e = b[i] \/ Before(Key(e), Key(b[i]))
    <3>1. CASE e \in A
      BY <2>2, <3>1
    <3>2. CASE e \in new
      <4>1. PICK j \in DOMAIN b : e = b[j]
        BY <3>2
      <4>2. j \in OfSymbol(b, s)
        BY <4>1 DEF OfSymbol, Of
      <4>3. j = i \/ j < i
        BY <1>1, <2>1, <2>2, <4>1, <4>2
      <4> QED
        BY <2>2, <4>1, <4>3
    <3> QED
      BY <3>1, <3>2 DEF Of
  <2> QED
    BY <2>1, <2>3, <2>4 DEF IsMark
<1> QED
  BY <1>2, <1>3

\* Although a batch overwrites the marks without comparing, restarts and
\* repeated passes never put an older price over a newer one.
THEOREM MarksAreNewest ==
  ASSUME AcksArrive
  PROVE  Spec => []MarkIsNewest
<1>1. Init => MarkIsNewest
  BY DEF Init, MarkIsNewest, AppliedTo
<1>2. OrderInv /\ MarkIsNewest /\ [Next]_vars => MarkIsNewest'
  <2> SUFFICES ASSUME OrderInv, MarkIsNewest, [Next]_vars PROVE MarkIsNewest'
    OBVIOUS
  <2>1. (\A s \in Symbols : IsMark(marks'[s], Of(Applied', s))) => MarkIsNewest'
    <3>1. \A s : AppliedTo(s)' = Of(Applied', s)
      BY DEF AppliedTo, Of, Applied
    <3> QED
      BY <3>1 DEF MarkIsNewest, IsMark
  <2>2. \A s \in Symbols : IsMark(marks[s], Of(Applied, s))
    BY MarksByIsMark
  <2>3. CASE pc = "flush" /\ CommitBatch
    <3>1. marks' = MarksAfter(marks, okBatch)
      BY <2>3 DEF CommitBatch
    <3>2. /\ Applied' = Applied \cup {okBatch[i] : i \in DOMAIN okBatch}
          /\ okBatch \in Seq(Requests)
          /\ \A i, j \in DOMAIN okBatch : i < j => Before(Key(okBatch[i]), Key(okBatch[j]))
          /\ \A f \in Applied, i \in DOMAIN okBatch : Before(Key(f), Key(okBatch[i]))
      BY <2>3, BatchIsApplied
    <3>3. ASSUME NEW s \in Symbols PROVE IsMark(marks'[s], Of(Applied', s))
      <4> HIDE DEF Applied
      <4>1. IsMark(MarksAfter(marks, okBatch)[s],
                   Of(Applied \cup {okBatch[i] : i \in DOMAIN okBatch}, s))
        BY <2>2, <3>2, BatchKeepsMarks
      <4> QED
        BY <3>1, <3>2, <4>1
    <3> QED
      BY <2>1, <3>3
  <2>4. CASE CommitDLQ
    <3>1. Applied' = Applied /\ marks' = marks
      BY <2>4, DeadLetterIsNotApplied DEF OrderInv
    <3> QED
      BY <2>1, <2>2, <3>1
  <2>5. CASE UNCHANGED database
    BY <2>5 DEF database, MarkIsNewest, AppliedTo
  <2> QED
    BY <2>3, <2>4, <2>5, ProjectionSteps
<1>3. OrderInv /\ [Next]_vars => OrderInv'
  BY NextOrder
<1> QED
  BY InitOrder, <1>1, <1>2, <1>3, PTL DEF Spec

\* Live state equals replayed state: the daily returns are those a replay of
\* the applied prices yields, whatever the batches and the restarts were.
THEOREM ReturnsReplayed ==
  ASSUME AcksArrive, WindowHoldsTwoDays
  PROVE  Spec => []ReturnsAreReplayed
<1>1. Init => ReturnsAreReplayed
  <2> SUFFICES ASSUME Init, NEW s \in Symbols
               PROVE  {r \in returns : r.sym = s} = DailyRows(AppliedTo(s))
    BY DEF ReturnsAreReplayed
  <2>1. AppliedTo(s) = {}
    BY DEF Init, AppliedTo
  <2>2. DailyRows({}) = {}
    BY DEF DailyRows, Closing
  <2> QED
    BY <2>1, <2>2 DEF Init
<1>2. OrderInv /\ ReturnsAreReplayed /\ [Next]_vars => ReturnsAreReplayed'
  <2> SUFFICES ASSUME OrderInv, ReturnsAreReplayed, [Next]_vars
               PROVE  ReturnsAreReplayed'
    OBVIOUS
  <2>1. \A s : AppliedTo(s) = Of(Applied, s)
    BY AppliedBySymbol
  <2>2. \A s : AppliedTo(s)' = Of(Applied', s)
    BY DEF AppliedTo, Of, Applied
  <2>3. CASE pc = "flush" /\ CommitBatch
    <3>1. returns' = ReturnsAfter(returns, okBatch)
      BY <2>3 DEF CommitBatch
    <3>2. IsReplay(returns, Applied)
      BY <2>1 DEF ReturnsAreReplayed, IsReplay
    <3>3. Applied \subseteq Requests
      BY AppliedType DEF OrderInv
    <3>4. /\ okBatch \in Seq(Requests)
          /\ \A i, j \in DOMAIN okBatch : i < j => Before(Key(okBatch[i]), Key(okBatch[j]))
          /\ \A f \in Applied, i \in DOMAIN okBatch : Before(Key(f), Key(okBatch[i]))
      BY <2>3, BatchIsApplied
    <3>5. Applied' = Applied \cup {okBatch[i] : i \in DOMAIN okBatch}
      BY <2>3, BatchIsApplied
    <3>6. IsReplay(returns', Applied')
      <4> HIDE DEF Applied
      <4>1. IsReplay(ReturnsAfter(returns, okBatch),
                     Applied \cup {okBatch[i] : i \in DOMAIN okBatch})
        BY <3>2, <3>3, <3>4, BatchIsReplayed
      <4> QED
        BY <3>1, <3>5, <4>1
    <3> QED
      BY <2>2, <3>6 DEF ReturnsAreReplayed, IsReplay
  <2>4. CASE CommitDLQ
    <3>1. Applied' = Applied /\ returns' = returns
      BY <2>4, DeadLetterIsNotApplied DEF OrderInv
    <3> QED
      BY <2>1, <2>2, <3>1 DEF ReturnsAreReplayed
  <2>5. CASE UNCHANGED database
    BY <2>5 DEF database, ReturnsAreReplayed, AppliedTo
  <2> QED
    BY <2>3, <2>4, <2>5, ProjectionSteps
<1>3. OrderInv /\ [Next]_vars => OrderInv'
  BY NextOrder
<1> QED
  BY InitOrder, <1>1, <1>2, <1>3, PTL DEF Spec
=============================================================================
