----------------------------- MODULE MCReadPath -------------------------------
(* Small instances of ReadPath.                                            *)
EXTENDS ReadPath

\* A position held at a gain or a loss, one that was sold out at a loss.
SomeRows  == {[qty |-> 2, cost |-> 3, realized |-> 0],
              [qty |-> 1, cost |-> 1, realized |-> 2],
              [qty |-> 0, cost |-> 0, realized |-> -1]}

\* A half up, a total loss, more than that; a repeated and a blank symbol.
Shock(s, v) == [symbol |-> s, value |-> v]
SomeShocks  == {<< >>, <<Shock(1, 1)>>, <<Shock(1, -2), Shock(2, -3)>>,
                <<Shock(2, 1), Shock(1, 1)>>, <<Shock(1, 1), Shock(1, 1)>>,
                <<Shock(0, 1)>>}

\* A new symbol; a day short of a sigma; with one.
SomeHistories == {<< >>, <<{}, {1}>>, <<{}, {1}, {0}>>}

\* Replies that name a symbol the book may lack (1) or one in two pieces (2), as
\* they came or behind an escape; that are worded wrongly; that claim admitted
\* metrics, others or none.
Reply(names, wording, metrics) ==
  [names |-> names, wording |-> wording, hiddenNames |-> {}, hiddenWording |-> "plain",
   metrics |-> metrics]
SomeReplies ==
  {Reply({}, "plain", {}), Reply({1}, "banned", {"risk."}), Reply({}, "sql", {"risk."}),
   Reply({1}, "plain", {"risk."}), Reply({1, 2}, "plain", {"portfolio.", "recent_events["}),
   Reply({}, "plain", {"risk.", "other"}),
   [Reply({2}, "plain", {"risk."}) EXCEPT !.hiddenNames = {1}],
   [Reply({1}, "plain", {"risk."}) EXCEPT !.hiddenWording = "banned"]}
=============================================================================
