----------------------------- MODULE Positions -----------------------------
(***************************************************************************)
(* The long-only position lots of one portfolio: what a trade does to a    *)
(* lot in memory and what is left of a lot once it has been written to a   *)
(* numeric(20,8) column or a snapshot.                                     *)
(*                                                                         *)
(* Quantities, average costs and realised results each count the last      *)
(* decimal place that memory keeps of them: a quantity has the places of   *)
(* the trades, a quotient 16, and a product those of its factors.  A row   *)
(* or a snapshot keeps 8 places, which are QtyUnit, CostUnit and           *)
(* ResultUnit of those in memory.  The map from symbols to lots is a total *)
(* function: a symbol without an entry and one with the zero lot read the  *)
(* same (Lot, Quantity).                                                   *)
(***************************************************************************)
EXTENDS Integers

CONSTANTS
  Symbols,    \* Ticker symbols.
  QtyUnit,    \* In-memory units per unit of a stored quantity,
  CostUnit,   \* of a stored average cost,
  ResultUnit  \* and of a stored realised result.

ASSUME UnitsAssumption == {QtyUnit, CostUnit, ResultUnit} \subseteq Nat \ {0}

LotType == [qty : Nat, avg : Int, realized : Int]

ZeroLot == [qty |-> 0, avg |-> 0, realized |-> 0]

NoPositions == [s \in Symbols |-> ZeroLot]

\* x / y rounded half away from zero, y > 0.
RoundedDiv(x, y) ==
  IF x >= 0 THEN (2 * x + y) \div (2 * y) ELSE -((2 * (-x) + y) \div (2 * y))

\* BUY: weighted average cost.
Bought(lot, t) ==
  [lot EXCEPT !.qty = @ + t.qty,
              !.avg = RoundedDiv(lot.qty * lot.avg + t.qty * t.price,
                                 lot.qty + t.qty)]

\* SELL: the result is realised against the average cost; a lot sold out keeps
\* only its realised result.
Sold(lot, t) ==
  [qty      |-> lot.qty - t.qty,
   avg      |-> IF lot.qty = t.qty THEN 0 ELSE lot.avg,
   realized |-> lot.realized + (t.price - lot.avg) * t.qty]

\* Mutant: the check of the held quantity is missing.
NeverUnderflows(positions, t) == FALSE

\* ErrPositionUnderflow: no shorting.
Underflows(positions, t) == t.side = "SELL" /\ positions[t.sym].qty < t.qty

\* ApplyTrade on the lot of the traded symbol.
ApplyTrade(positions, t) ==
  [positions EXCEPT ![t.sym] = IF t.side = "BUY" THEN Bought(@, t) ELSE Sold(@, t)]

\* ROUND(x, 8) and StringFixed(8).
RoundTo(x, unit) == RoundedDiv(x, unit) * unit

\* The lot read back from a row or a snapshot it was written to.
StoredLot(lot) ==
  [qty      |-> RoundTo(lot.qty, QtyUnit),
   avg      |-> RoundTo(lot.avg, CostUnit),
   realized |-> RoundTo(lot.realized, ResultUnit)]

\* Snapshot: every lot goes through its stored form.
StoredPositions(positions) == [s \in Symbols |-> StoredLot(positions[s])]
=============================================================================
