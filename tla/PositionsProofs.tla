-------------------------- MODULE PositionsProofs --------------------------
(***************************************************************************)
(* Facts about lots: applying and storing keep them lots, and storing a    *)
(* stored lot changes nothing.                                             *)
(***************************************************************************)
EXTENDS Positions, TLAPS

LEMMA ProductType ==
  ASSUME NEW x \in Int, NEW y \in Int
  PROVE  x * y \in Int
OBVIOUS

LEMMA RoundedDivType ==
  ASSUME NEW x \in Int, NEW y \in Nat \ {0}
  PROVE  RoundedDiv(x, y) \in Int
<1>1. 2 * y > 0 /\ 2 * y \in Nat /\ 2 * x + y \in Int /\ 2 * (-x) + y \in Int
  OBVIOUS
<1>2. \A n \in Int, d \in Nat : d > 0 => n \div d \in Int
  OBVIOUS
<1> QED
  BY <1>1, <1>2 DEF RoundedDiv

LEMMA UnitTypes ==
  QtyUnit \in Nat \ {0} /\ CostUnit \in Nat \ {0} /\ ResultUnit \in Nat \ {0}
BY UnitsAssumption

LEMMA RoundToType ==
  ASSUME NEW unit \in Nat \ {0}
  PROVE  /\ \A x \in Int : RoundTo(x, unit) \in Int
         /\ \A x \in Nat : RoundTo(x, unit) \in Nat
<1>1. ASSUME NEW x \in Int PROVE RoundTo(x, unit) \in Int
  BY RoundedDivType, ProductType DEF RoundTo
<1>2. ASSUME NEW x \in Nat PROVE RoundTo(x, unit) \in Nat
  <2>1. 2 * unit > 0 /\ 2 * unit \in Nat /\ 2 * x + unit \in Nat /\ x >= 0
    OBVIOUS
  <2>2. \A n \in Nat, d \in Nat : d > 0 => n \div d \in Nat
    OBVIOUS
  <2>3. RoundedDiv(x, unit) \in Nat
    BY <2>1, <2>2 DEF RoundedDiv
  <2>4. \A n \in Nat, d \in Nat : n * d \in Nat
    OBVIOUS
  <2> QED
    BY <2>3, <2>4 DEF RoundTo
<1> QED
  BY <1>1, <1>2

LEMMA StoredLotType ==
  ASSUME NEW lot \in LotType
  PROVE  StoredLot(lot) \in LotType
BY UnitTypes, RoundToType DEF LotType, StoredLot

\* A value that is a number of units rounds to itself.
LEMMA RoundedDivExact ==
  ASSUME NEW k \in Int, NEW y \in Nat \ {0}
  PROVE  RoundedDiv(k * y, y) = k
<1>1. k * y \in Int
  BY ProductType
<1>2. ASSUME NEW n \in Nat PROVE (2 * (n * y) + y) \div (2 * y) = n
  <2> DEFINE d == 2 * y
  <2>1. d \in Nat /\ d > 0 /\ y \in Nat /\ 0 <= y /\ y < d
    OBVIOUS
  <2>2. 2 * (n * y) + y = d * n + y
    OBVIOUS
  <2>3. \A r \in 0 .. d - 1 : (d * n + r) \div d = n
    OBVIOUS
  <2> QED
    BY <2>1, <2>2, <2>3
<1>3. CASE k >= 0
  <2>1. k \in Nat /\ k * y >= 0
    BY <1>3
  <2>2. (2 * (k * y) + y) \div (2 * y) = k
    BY <1>2, <2>1
  <2> QED
    BY <2>1, <2>2 DEF RoundedDiv
<1>4. CASE k < 0
  <2>1. -k \in Nat /\ ~(k * y >= 0)
    BY <1>4
  <2>2. -(k * y) = (-k) * y
    OBVIOUS
  <2>3. (2 * (-(k * y)) + y) \div (2 * y) = -k
    BY <1>2, <2>1, <2>2
  <2>4. RoundedDiv(k * y, y) = -((2 * (-(k * y)) + y) \div (2 * y))
    BY <2>1 DEF RoundedDiv
  <2> QED
    BY <2>3, <2>4
<1> QED
  BY <1>3, <1>4

\* What rounding leaves alone is a number of units, and only that.
LEMMA RoundToFixes ==
  ASSUME NEW unit \in Nat \ {0}
  PROVE  /\ \A k \in Int : RoundTo(k * unit, unit) = k * unit
         /\ \A x \in Int : RoundTo(x, unit) = x => \E k \in Int : x = k * unit
<1>1. \A k \in Int : RoundTo(k * unit, unit) = k * unit
  BY RoundedDivExact DEF RoundTo
<1>2. \A x \in Int : RoundTo(x, unit) = x => \E k \in Int : x = k * unit
  BY RoundedDivType DEF RoundTo
<1> QED
  BY <1>1, <1>2

LEMMA RoundingIsIdempotent ==
  ASSUME NEW unit \in Nat \ {0}, NEW x \in Int
  PROVE  RoundTo(RoundTo(x, unit), unit) = RoundTo(x, unit)
<1>1. RoundedDiv(x, unit) \in Int
  BY RoundedDivType
<1> QED
  BY <1>1, RoundToFixes DEF RoundTo

\* Numbers of units add up to numbers of units.
LEMMA UnitsAddUp ==
  ASSUME NEW unit \in Nat \ {0}, NEW x \in Int, NEW y \in Int,
         RoundTo(x, unit) = x, RoundTo(y, unit) = y
  PROVE  RoundTo(x + y, unit) = x + y /\ RoundTo(x - y, unit) = x - y
<1>1. PICK j \in Int : x = j * unit
  BY RoundToFixes
<1>2. PICK k \in Int : y = k * unit
  BY RoundToFixes
<1>3. j + k \in Int /\ j - k \in Int
  OBVIOUS
<1>4. x + y = (j + k) * unit /\ x - y = (j - k) * unit
  BY <1>1, <1>2
<1> QED
  BY <1>3, <1>4, RoundToFixes

LEMMA OneUnitIsExact == \A x \in Int : RoundTo(x, 1) = x
<1> SUFFICES ASSUME NEW x \in Int PROVE RoundTo(x, 1) = x
  OBVIOUS
<1>1. x * 1 = x /\ 1 \in Nat \ {0}
  OBVIOUS
<1>2. RoundTo(x * 1, 1) = x * 1
  BY <1>1, RoundToFixes
<1> QED
  BY <1>1, <1>2

LEMMA ZeroIsStored == \A unit \in Nat \ {0} : RoundTo(0, unit) = 0
<1> SUFFICES ASSUME NEW unit \in Nat \ {0} PROVE RoundTo(0, unit) = 0
  OBVIOUS
<1>1. 0 * unit = 0
  OBVIOUS
<1>2. RoundTo(0 * unit, unit) = 0 * unit
  BY RoundToFixes
<1> QED
  BY <1>1, <1>2

\* What has been read back is stored as it is.
LEMMA StoringIsIdempotent ==
  ASSUME NEW lot \in LotType
  PROVE  StoredLot(StoredLot(lot)) = StoredLot(lot)
<1>1. lot.qty \in Int /\ lot.avg \in Int /\ lot.realized \in Int
  BY DEF LotType
<1>2. /\ RoundTo(RoundTo(lot.qty, QtyUnit), QtyUnit) = RoundTo(lot.qty, QtyUnit)
      /\ RoundTo(RoundTo(lot.avg, CostUnit), CostUnit) = RoundTo(lot.avg, CostUnit)
      /\ RoundTo(RoundTo(lot.realized, ResultUnit), ResultUnit)
           = RoundTo(lot.realized, ResultUnit)
  BY <1>1, UnitTypes, RoundingIsIdempotent
<1> QED
  BY <1>2 DEF StoredLot

LEMMA StoredPositionsType ==
  ASSUME NEW p \in [Symbols -> LotType]
  PROVE  StoredPositions(p) \in [Symbols -> LotType]
BY StoredLotType DEF StoredPositions

LEMMA NoPositionsType == NoPositions \in [Symbols -> LotType]
BY DEF NoPositions, ZeroLot, LotType

\* A trade that does not underflow leaves a long-only book.
LEMMA ApplyTradeType ==
  ASSUME NEW p \in [Symbols -> LotType],
         NEW t, t.sym \in Symbols, t.side \in {"BUY", "SELL"},
         t.qty \in Nat \ {0}, t.price \in Nat,
         ~Underflows(p, t)
  PROVE  ApplyTrade(p, t) \in [Symbols -> LotType]
<1> DEFINE lot == p[t.sym]
<1>0. lot \in LotType /\ lot.qty \in Nat /\ lot.avg \in Int /\ lot.realized \in Int
  BY DEF LotType
<1>1. Bought(lot, t) \in LotType
  <2>1. lot.qty * lot.avg \in Int /\ t.qty * t.price \in Int
    BY <1>0, ProductType
  <2>2. lot.qty * lot.avg + t.qty * t.price \in Int /\ lot.qty + t.qty \in Nat \ {0}
    BY <1>0, <2>1
  <2>3. RoundedDiv(lot.qty * lot.avg + t.qty * t.price, lot.qty + t.qty) \in Int
    BY <2>2, RoundedDivType
  <2> HIDE DEF lot
  <2> QED
    BY <1>0, <2>2, <2>3 DEF Bought, LotType
<1>2. CASE t.side = "SELL"
  <2>1. lot.qty - t.qty \in Nat
    BY <1>0, <1>2 DEF Underflows
  <2>2. t.price - lot.avg \in Int /\ t.qty \in Int
    BY <1>0
  <2>3. (t.price - lot.avg) * t.qty \in Int
    BY <2>2, ProductType
  <2>4. lot.realized + (t.price - lot.avg) * t.qty \in Int
    BY <1>0, <2>3
  <2>5. Sold(lot, t) \in LotType
    BY <1>0, <2>1, <2>4 DEF Sold, LotType
  <2> QED
    BY <1>2, <2>5 DEF ApplyTrade
<1>3. CASE t.side = "BUY"
  BY <1>1, <1>3 DEF ApplyTrade
<1> QED
  BY <1>2, <1>3
=============================================================================
