---------------------------- MODULE MCTradeApply ----------------------------
(* Small instances of TradeApply: one portfolio, two symbols.              *)
EXTENDS TradeLedger

Trade(time, id, key, sym, side, qty, price) ==
  [time |-> time, id |-> id, key |-> key, sym |-> sym,
   side |-> side, qty |-> qty, price |-> price]

\* Two sells that cannot both be covered (their order decides which one goes to
\* the DLQ), a retry of the first under a new event id, a sell-out and rebuy.
MixedTrades ==
  {Trade(1, 2, "k1", "A", "BUY",  2, 10),
   Trade(2, 1, "k2", "A", "SELL", 1, 13),
   Trade(2, 4, "k2", "A", "SELL", 1, 13),
   Trade(2, 3, "k3", "A", "SELL", 2, 12),
   Trade(3, 5, "k4", "B", "BUY",  1, 5),
   Trade(3, 6, "k5", "A", "BUY",  1, 11)}

\* With units of 10 the averages of A, 50/3 and 70/3, do not fit the column, and
\* no quantity of B does: 15 is stored as 20.
UnevenTrades ==
  {Trade(1, 1, "k1", "A", "BUY",  10, 10),
   Trade(2, 2, "k2", "A", "BUY",  20, 20),
   Trade(3, 3, "k3", "A", "SELL", 30, 30),
   Trade(3, 4, "k4", "B", "BUY",  15, 20),
   Trade(4, 5, "k5", "A", "BUY",  30, 20),
   Trade(5, 6, "k6", "A", "SELL", 10, 40)}

\* Two buys within the watermark of each other and a later one.
CloseTrades ==
  {Trade(2, 1, "k1", "A", "BUY", 1, 10),
   Trade(3, 2, "k2", "A", "BUY", 1, 10),
   Trade(4, 3, "k3", "A", "BUY", 1, 10)}
=============================================================================
