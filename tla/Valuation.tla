------------------------------ MODULE Valuation -------------------------------
(***************************************************************************)
(* The arithmetic of the read side: a portfolio view from positions and    *)
(* marks, the same under shocked marks, and the risk snapshot.  Positions  *)
(* and marks are functions on the symbols that have a row.  Symbols are    *)
(* numbers, in their alphabetical order; amounts are whole numbers.        *)
(***************************************************************************)
EXTENDS Integers, Sequences, FiniteSets, FiniteSetsExt, Functions

CONSTANTS
  Symbols,
  Parts,       \* A shock's value is a multiple of 1/Parts.
  Scale,       \* A weight is a multiple of 1/Scale (decimal: 16 digits).
  TopN         \* defaultTopN.

ASSUME ValuationAssumption ==
  /\ Symbols \subseteq Nat \ {0} /\ IsFiniteSet(Symbols)
  /\ {Parts, Scale, TopN} \subseteq Nat \ {0}

NoEvent == 0
None    == << >>   \* The function on no symbols.

\* The sums of a function on symbols, up to each of them.
Highest == Max(Symbols \cup {0})

Upto(f) ==
  LET upto[n \in 0..Highest] ==
        IF n = 0 THEN 0 ELSE upto[n - 1] + (IF n \in DOMAIN f THEN f[n] ELSE 0)
  IN  upto

SumOf(f) == Upto(f)[Highest]

-----------------------------------------------------------------------------
(* The portfolio view.  Its input: rows, marks, and the trade cursor.      *)

Open(rows) == {s \in DOMAIN rows : rows[s].qty # 0}

\* A mark that the column rounded to zero is no price.
HasPrice(in, s) == s \in DOMAIN in.marks /\ in.marks[s].price # 0

\* MarkToMarket, with the row it starts from.
MarkToMarket(in, s) ==
  LET row  == in.rows[s]
      last == IF HasPrice(in, s) THEN in.marks[s].price ELSE 0
      live == HasPrice(in, s) /\ row.qty # 0
  IN  [row |-> row, last |-> last,
       value |-> IF live THEN last * row.qty ELSE 0,
       gain  |-> IF live THEN (last - row.cost) * row.qty ELSE 0]

\* Mutant: a symbol that was sold out no longer counts.
SumTotalsOfOpen(mtm) ==
  LET open == {s \in DOMAIN mtm : mtm[s].row.qty # 0}
  IN  [value    |-> SumOf([s \in open |-> mtm[s].value]),
       gain     |-> SumOf([s \in open |-> mtm[s].gain]),
       realized |-> SumOf([s \in open |-> mtm[s].row.realized])]

SumTotals(mtm) ==
  [value    |-> SumOf([s \in DOMAIN mtm |-> mtm[s].value]),
   gain     |-> SumOf([s \in DOMAIN mtm |-> mtm[s].gain]),
   realized |-> SumOf([s \in DOMAIN mtm |-> mtm[s].row.realized])]

\* The events of the marks that were read, priced or not.
MarkEvents(in) == [s \in DOMAIN in.marks |-> in.marks[s].event]

\* collectDrivingEventIDs.
Driving(in) == (Range(MarkEvents(in)) \cup {in.cursor}) \ {NoEvent}

\* Mutant: the newest of everything that was read.
AsOfFused(in) == IF Driving(in) = {} THEN NoEvent ELSE Max(Driving(in))

\* The single as-of event: only if one partition contributed. Events are
\* numbered in apply order (mergeAsOfCursor takes the last).
AsOf(in) ==
  IF in.cursor # NoEvent /\ in.marks # None THEN NoEvent
  ELSE IF in.cursor # NoEvent THEN in.cursor
  ELSE IF in.marks # None THEN Max(Range(MarkEvents(in)))
  ELSE NoEvent

AssemblePortfolioView(in) ==
  LET mtm == [s \in DOMAIN in.rows |-> MarkToMarket(in, s)]
  IN  [positions |-> mtm,
       unpriced  |-> {s \in Open(in.rows) : ~HasPrice(in, s)},
       totals    |-> SumTotals(mtm),
       driving   |-> Driving(in),
       asOfPos   |-> in.cursor,
       asOfPrices |-> MarkEvents(in),
       asOf      |-> AsOf(in)]

-----------------------------------------------------------------------------
(* Scenarios.  A shock is [symbol, value]; symbol 0 stands for a blank one *)
(* and for a shock of another type than PCT, which is refused alike.       *)

\* ValidateShocks.
ValidShocks(shocks) ==
  /\ shocks # << >>
  /\ \A i \in DOMAIN shocks : shocks[i].symbol # 0
  /\ \A i, j \in DOMAIN shocks : shocks[i].symbol = shocks[j].symbol => i = j

\* The shocked symbols without a mark to shock: 422.
MissingMarks(in, shocks) ==
  {s \in {shocks[i].symbol : i \in DOMAIN shocks} : ~HasPrice(in, s)}

\* Mutant: the value is added to the price.
ShockMarkByAmount(marks, shock) ==
  [marks EXCEPT ![shock.symbol].price = @ + shock.value]

\* No bound on the value: a mark may become zero or negative.
ShockMark(marks, shock) ==
  [marks EXCEPT ![shock.symbol].price = (@ * (Parts + shock.value)) \div Parts]

\* The marks after each of the shocks.
AfterShocks(marks, shocks) ==
  LET after[n \in 0..Len(shocks)] ==
        IF n = 0 THEN marks ELSE ShockMark(after[n - 1], shocks[n])
  IN  after

\* ShockedPortfolioInput, when no mark is missing.
Shocked(in, shocks) == [in EXCEPT !.marks = AfterShocks(@, shocks)[Len(shocks)]]

\* The deltas of the response.
Delta(base, shocked) ==
  [value    |-> shocked.totals.value - base.totals.value,
   gain     |-> shocked.totals.gain - base.totals.gain,
   realized |-> shocked.totals.realized - base.totals.realized]

-----------------------------------------------------------------------------
(* The risk snapshot.                                                      *)

\* Div rounds half away from zero; quantities and prices are not negative.
Weight(part, total) ==
  IF total > 0 THEN (2 * part * Scale + total) \div (2 * total) ELSE 0

\* Heavier, and equal weights in alphabetical order.
Outranks(weights, s, t) ==
  weights[s] > weights[t] \/ (weights[s] = weights[t] /\ s < t)

\* topByWeight; the list is kept as the set of its symbols.
TopByWeight(weights) ==
  {s \in DOMAIN weights :
     Cardinality({t \in DOMAIN weights : Outranks(weights, t, s)}) < TopN}

Square(n) == n * n

\* BuildSnapshot, for the open positions, all of them priced. The square root
\* and the factors of sigma and VaR are left to the reader: variance is
\* sigmaPortfolioUncorrelated before its root.
BuildSnapshot(in, sigma) ==
  LET exposure == [s \in Open(in.rows) |-> in.rows[s].qty * in.marks[s].price]
      total    == SumOf(exposure)
      weights  == [s \in DOMAIN exposure |-> Weight(exposure[s], total)]
  IN  [exposure |-> exposure, total |-> total, weights |-> weights, sigma |-> sigma,
       variance |-> SumOf([s \in DOMAIN weights |-> Square(weights[s] * sigma[s])]),
       hhi      |-> SumOf([s \in DOMAIN weights |-> Square(weights[s])]),
       top      |-> TopByWeight(weights)]
=============================================================================
