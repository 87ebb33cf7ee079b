---------------------------- MODULE MCPriceApply ----------------------------
(* Small instances of PriceApply: one partition; a day has two instants.   *)
EXTENDS PriceApply

Price(time, id, key, sym, price) ==
  [time |-> time, id |-> id, key |-> key, sym |-> sym, price |-> price]

\* Two prices of A on its first day (the second replaces the close), one on
\* each of the next two, and ties that fill a page of two.  Two keys come with
\* either of two prices.  With a DbUnit of 10 a close of B is stored as zero or
\* as 1, so that the next price of B has no return or a return of 7; and the
\* last price of A is 400, or does not fit the column.
DailyPrices ==
  {Price(2, 2, "k1", "A", 100),
   Price(3, 1, "k2", "A", 200),
   Price(4, 3, "k3", "A", 300),
   Price(4, 4, "k4", "B", 6),
   Price(4, 5, "k4", "B", 4),
   Price(6, 6, "k5", "B", 80),
   Price(6, 7, "k6", "A", 400),
   Price(6, 8, "k6", "A", 1000)}

\* One price a day.
FourDays ==
  {Price(2, 1, "k1", "A", 10),
   Price(4, 2, "k2", "A", 20),
   Price(6, 3, "k3", "A", 30),
   Price(8, 4, "k4", "A", 40)}
=============================================================================
