------------------------------- MODULE ReadPath -------------------------------
(***************************************************************************)
(* The requests that read: a portfolio's view, its risk, a scenario and an *)
(* explanation of it, and the price list and detail.  Each runs through    *)
(* statements of its own outside a transaction, while the apply workers    *)
(* commit batches (modules TradeApply and PriceApply; here a batch leaves  *)
(* any rows).  Requests share nothing but the database, so a behaviour has *)
(* one, on a database in the middle of its life; its caller has been let   *)
(* through to the portfolio (module Accounts).                             *)
(***************************************************************************)
EXTENDS Valuation, Insights, SequencesExt

CONSTANTS
  Rows,        \* Rows of positions_projection.
  Prices,      \* 0: a price that the column rounded to zero.
  Changes,     \* Daily returns.
  Shocks,      \* The shocks that clients send, valid or not.
  Kinds,       \* The requests that clients send, from the set below.
  Window,      \* symbolReturnsWindowN: rows of symbol_returns per symbol.
  SigmaWindow, \* RISK_SIGMA_WINDOW_N.
  Limits, Offsets,   \* What clients ask of the price list.
  Histories,   \* The returns a symbol may have at the start, {} for NULL.
  MaxCommits   \* Bound on the batches that are committed.

AllKinds == {"view", "risk", "scenario", "explain", "prices", "price"}
MinDailyReturnsForVolatility == 2

ASSUME ReadAssumption ==
  /\ Symbols \subseteq Named
  /\ Rows \subseteq [qty : Nat, cost : Nat, realized : Int]
  /\ Prices \subseteq Nat /\ Changes \subseteq Int
  /\ \A p \in Prices : p % Parts = 0   \* In a unit in which a shock is exact.
  /\ Shocks \subseteq Seq([symbol : Symbols \cup {0}, value : Int])
  /\ Kinds \subseteq AllKinds
  /\ {Window, SigmaWindow} \subseteq Nat \ (0..1)
  /\ Limits \subseteq Nat \ {0} /\ Offsets \subseteq Nat
  /\ Histories \subseteq {h \in UNION {[1..n -> SUBSET Changes] : n \in 0..Window} :
                            \A i \in DOMAIN h : IF i = 1 THEN h[i] = {}
                                                ELSE \E c \in Changes : h[i] = {c}}
  /\ MaxCommits \in Nat

VARIABLES
  \* The database.
  catalogued,  \* Whether the portfolio is in the catalog.
  logged,      \* Symbols of the newest events of its partition.
  positions,   \* positions_projection.
  cursor,      \* projection_cursor of the partition; 0 for no row.
  marks,       \* prices_projection.
  returns,     \* symbol_returns: the days of each symbol, the newest last.
  req,         \* The request in progress.
  answer,      \* The answer of 200 that the last step gave, if any.
  last,        \* The last event that was applied.
  \* History variables.
  books,       \* The rows that each trade batch left.
  quoted       \* What each applied price event said.

database == <<catalogued, logged, positions, cursor, marks, returns>>
vars     == <<catalogued, logged, positions, cursor, marks, returns, req, answer,
              last, books, quoted>>

Idle     == [at |-> "idle"]
Done     == [at |-> "done"]
NoAnswer == [kind |-> "none"]

\* The events that the tables at the start stem from: a trade batch, then a
\* price of each symbol and day.
EventOf(s, day) == 1 + Window * Cardinality({t \in Symbols : t < s}) + day
LastEvent0      == 1 + Window * Cardinality(Symbols)

\* What is committed before the first table is read is a matter of where it
\* starts, and what is committed after the last one makes no difference.
MayCommit ==
  /\ last < LastEvent0 + MaxCommits
  /\ req.at \notin {"idle", "exists", "positions", "build", "events", "model", "done"}

\* The requests for prices read neither events nor positions.
ReadsBook == req.at \notin {"count", "list", "head", "history"}

-----------------------------------------------------------------------------
(* The apply workers.                                                      *)

\* Append: an event of a trade in s.
TradeArrives(s) ==
  /\ catalogued /\ s \notin logged /\ ReadsBook
  /\ logged' = logged \cup {s}
  /\ answer' = NoAnswer
  /\ UNCHANGED <<catalogued, positions, cursor, marks, returns, req, last, books,
                 quoted>>

\* ApplyBatch: rows and cursor in one transaction.
CommitTrades ==
  /\ MayCommit /\ ReadsBook
  /\ answer' = NoAnswer
  /\ last' = last + 1
  /\ cursor' = last + 1
  /\ \E held \in SUBSET logged : held # {} /\ positions' \in [held -> Rows]
  /\ DOMAIN positions \subseteq DOMAIN positions'
  /\ books' = [e \in DOMAIN books \cup {cursor'} |->
                 IF e = cursor' THEN positions' ELSE books[e]]
  /\ UNCHANGED <<catalogued, logged, marks, returns, req, quoted>>

\* trimSymbolReturnsWindow.
Keep(days) == IF Len(days) > Window THEN Tail(days) ELSE days

\* upsertSymbolReturn: a new day or the newest one again; the first known day has
\* no return.
AfterPrice(days, event) ==
  LET Day(earlier) ==
        {[event |-> event, ret |-> r] : r \in IF earlier THEN {{c} : c \in Changes} ELSE {{}}}
  IN  {Keep(Append(days, d)) : d \in Day(days # << >>)}
        \cup (IF days = << >> THEN {}
              ELSE {[days EXCEPT ![Len(days)] = d] : d \in Day(Len(days) > 1)})

\* ApplyPriceBatch: mark and day in one transaction.
CommitPrice(s) ==
  /\ MayCommit
  /\ answer' = NoAnswer
  /\ last' = last + 1
  /\ \E p \in Prices :
       /\ marks' = [t \in DOMAIN marks \cup {s} |->
                      IF t = s THEN [price |-> p, event |-> last + 1] ELSE marks[t]]
       /\ quoted' = [e \in DOMAIN quoted \cup {last + 1} |->
                       IF e = last + 1 THEN [symbol |-> s, price |-> p] ELSE quoted[e]]
  /\ \E days \in AfterPrice(returns[s], last + 1) : returns' = [returns EXCEPT ![s] = days]
  /\ UNCHANGED <<catalogued, logged, positions, cursor, req, books>>

-----------------------------------------------------------------------------
(* A portfolio is read.                                                    *)

Reads == UNCHANGED <<database, last, books, quoted>>

Goes(r)     == req' = r /\ answer' = NoAnswer /\ Reads
Refuses     == Goes(Done)
Responds(a) == req' = Done /\ answer' = a /\ Reads

\* A scenario is validated before anything is read: 400.
Ask(kind, shocks) ==
  /\ req = Idle
  /\ kind = "scenario" => ValidShocks(shocks)
  /\ Goes([at |-> "exists", kind |-> kind, shocks |-> shocks])

AsksForPortfolio ==
  \E kind \in Kinds \ {"prices", "price"} :
    \E shocks \in IF kind = "scenario" THEN Shocks ELSE {<< >>} : Ask(kind, shocks)

\* 404 for a portfolio that is neither in the catalog nor in the log.
CheckExists ==
  /\ req.at = "exists"
  /\ IF catalogued \/ logged # {} THEN Goes([req EXCEPT !.at = "positions"]) ELSE Refuses

\* loadPositionsForPortfolio; no marks are asked for where nothing is open.
LoadPositions ==
  /\ req.at = "positions"
  /\ Goes([at |-> IF Open(positions) = {} THEN "cursor" ELSE "marks",
           kind |-> req.kind, shocks |-> req.shocks,
           in |-> [rows |-> positions, marks |-> None, cursor |-> NoEvent]])

\* loadPriceMarksBySymbol, for the open symbols.
LoadMarks ==
  /\ req.at = "marks"
  /\ Goes([req EXCEPT !.at = "cursor",
             !.in.marks = [s \in DOMAIN marks \cap Open(req.in.rows) |-> marks[s]]])

AnswerWith(in) == [kind |-> req.kind, in |-> in, view |-> AssemblePortfolioView(in)]

\* postScenarioHandler from Eval on: 422 for a symbol without a mark.
RunScenario(in) ==
  IF MissingMarks(in, req.shocks) # {} THEN Refuses
  ELSE LET shocked == AssemblePortfolioView(Shocked(in, req.shocks))
           base    == AssemblePortfolioView(in)
       IN  Responds([kind |-> "scenario", in |-> in, view |-> base, shocked |-> shocked,
                     delta |-> Delta(base, shocked), shocks |-> req.shocks])

\* BuildRiskHTTPResponse up to its first statement: 409 (422 for an explanation)
\* for an open position without a price; no statistics for an empty book.
GroundRisk(in) ==
  IF \E s \in Open(in.rows) : ~HasPrice(in, s) THEN Refuses
  ELSE Goes([at |-> IF Open(in.rows) = {} THEN "build" ELSE "counts",
             kind |-> req.kind, in |-> in, sigma |-> None, samples |-> None])

\* LoadProjectionCursor, and the assembly.
LoadCursor ==
  /\ req.at = "cursor"
  /\ LET in == [req.in EXCEPT !.cursor = cursor]
     IN  CASE req.kind = "view"     -> Responds(AnswerWith(in))
           [] req.kind = "scenario" -> RunScenario(in)
           [] OTHER                 -> GroundRisk(in)

\* A statement fails: 500.
StatementFails == req \notin {Idle, Done} /\ Refuses

-----------------------------------------------------------------------------
(* Its risk.                                                               *)

\* The newest returns that are not NULL, by their place among the days.
Samples(s) ==
  LET days   == returns[s]
      known  == {i \in DOMAIN days : days[i].ret # {}}
      newest == {i \in known : Cardinality({j \in known : j > i}) < SigmaWindow}
  IN  [i \in newest |-> CHOOSE r \in days[i].ret : TRUE]

\* For STDDEV_SAMP, which like this is zero for equal samples only (and for one).
Spread(samples) ==
  IF DOMAIN samples = {} THEN 0 ELSE Max(Range(samples)) - Min(Range(samples))

SamplesOfOpen == [s \in Open(req.in.rows) |-> Samples(s)]

Enough(samples) == Cardinality(DOMAIN samples) >= MinDailyReturnsForVolatility

\* Mutant: the sigmas are read before the samples are counted.
CountAfterSigma ==
  /\ req.at = "counts"
  /\ IF req.sigma = None
     THEN Goes([req EXCEPT !.samples = SamplesOfOpen,
                           !.sigma = [s \in DOMAIN SamplesOfOpen |-> Spread(Samples(s))]])
     ELSE IF \E s \in Open(req.in.rows) : ~Enough(Samples(s))
     THEN Refuses ELSE Goes([req EXCEPT !.at = "build"])

\* LoadSymbolReturnSampleCounts: 422 for a history that is too short.
CountSamples ==
  /\ req.at = "counts"
  /\ IF \E s \in Open(req.in.rows) : ~Enough(Samples(s))
     THEN Refuses ELSE Goes([req EXCEPT !.at = "sigmas"])

\* LoadSymbolSigma1D.
LoadSigmas ==
  /\ req.at = "sigmas"
  /\ Goes([req EXCEPT !.at = "build", !.samples = SamplesOfOpen,
             !.sigma = [s \in DOMAIN SamplesOfOpen |-> Spread(Samples(s))]])

RiskAnswer ==
  [kind |-> req.kind, in |-> req.in, view |-> AssemblePortfolioView(req.in),
   samples |-> req.samples, risk |-> BuildSnapshot(req.in, req.sigma)]

\* BuildSnapshot: the answer to getRiskHandler, a part of it to an explanation.
BuildRisk ==
  /\ req.at = "build"
  /\ IF req.kind = "risk" THEN Responds(RiskAnswer)
     ELSE Goes([req EXCEPT !.at = "events"])

-----------------------------------------------------------------------------
(* Its explanation.                                                        *)

\* ListRecentEventsForPortfolio, and SymbolAllowlistFromInsightsContext.
LoadEvents ==
  /\ req.at = "events"
  /\ Goes([at |-> "model", kind |-> "explain",
           context |-> [recent |-> logged, allowed |-> DOMAIN req.in.rows]])

\* The provider answers: 400 for a reply that does not validate. No provider is
\* configured (503), or it fails (502): see StatementFails.
ModelReplies ==
  /\ req.at = "model"
  /\ \E reply \in Replies :
       LET out == Explain(reply, req.context)
       IN  IF out.verdict # "ok" THEN Refuses
           ELSE Responds([kind |-> "explain", context |-> req.context, reply |-> reply,
                          wording |-> out.wording, names |-> out.names,
                          metrics |-> out.metrics])

-----------------------------------------------------------------------------
(* Prices are read.                                                        *)

AsksForPrices ==
  /\ req = Idle
  /\ \/ /\ "prices" \in Kinds
        /\ \E n \in Limits, k \in Offsets :
             Goes([at |-> "count", kind |-> "prices", limit |-> n, offset |-> k])
     \/ /\ "price" \in Kinds
        /\ \E s \in Symbols : Goes([at |-> "head", kind |-> "price", symbol |-> s])

\* The symbols on a page of the rows, which are ordered by them.
Page(limit, offset) ==
  {s \in DOMAIN marks :
     Cardinality({t \in DOMAIN marks : t < s}) \in offset..offset + limit - 1}

\* Mutant: the rows are listed before they are counted.
CountAfterList ==
  /\ req.at = "count"
  /\ \E total \in {Cardinality(DOMAIN marks)} :
       IF "items" \notin DOMAIN req
       THEN Goes([at |-> "count", kind |-> "prices", limit |-> req.limit,
                  offset |-> req.offset, items |-> Page(req.limit, req.offset)])
       ELSE Responds([kind |-> "prices", total |-> total, limit |-> req.limit,
                      offset |-> req.offset, items |-> req.items])

\* ListPriceMarks: COUNT(*) first.
CountMarks ==
  /\ req.at = "count"
  /\ Goes([at |-> "list", kind |-> "prices", limit |-> req.limit, offset |-> req.offset,
           total |-> Cardinality(DOMAIN marks)])

\* Then a page of the rows; no filter.
ListMarks ==
  /\ req.at = "list"
  /\ Responds([kind |-> "prices", total |-> req.total, limit |-> req.limit,
               offset |-> req.offset, items |-> Page(req.limit, req.offset)])

\* GetPriceSymbolDetail: the mark, 404 without one.
LoadHead ==
  /\ req.at = "head"
  /\ IF req.symbol \in DOMAIN marks
     THEN Goes([at |-> "history", kind |-> "price", symbol |-> req.symbol,
                head |-> marks[req.symbol].event])
     ELSE Refuses

\* Then its days, the newest first.
LoadHistory ==
  /\ req.at = "history"
  /\ Responds([kind |-> "price", symbol |-> req.symbol, head |-> req.head,
               history |-> Reverse([i \in DOMAIN returns[req.symbol] |->
                                      returns[req.symbol][i].event])])

-----------------------------------------------------------------------------
\* A database in the middle of its life: a book or none, and a history of each
\* symbol with a price of its last day.
Init ==
  /\ \E held \in SUBSET Symbols :
       /\ catalogued \in BOOLEAN /\ (held # {} => catalogued)
       /\ logged = held
       /\ positions \in [held -> Rows]
       /\ cursor = IF held = {} THEN NoEvent ELSE 1
       /\ books = [e \in {cursor} \ {NoEvent} |-> positions]
  /\ \E hist \in [Symbols -> Histories] :
       LET known    == {s \in Symbols : hist[s] # << >>}
           Newest(s) == EventOf(s, Len(hist[s]))
       IN  /\ returns = [s \in Symbols |-> [i \in DOMAIN hist[s] |->
                           [event |-> EventOf(s, i), ret |-> hist[s][i]]]]
           /\ \E price \in [known -> Prices] :
                /\ marks = [s \in known |-> [price |-> price[s], event |-> Newest(s)]]
                /\ quoted = [e \in {Newest(s) : s \in known} |->
                              LET s == CHOOSE s \in known : Newest(s) = e
                              IN  [symbol |-> s, price |-> price[s]]]
  /\ req = Idle /\ answer = NoAnswer /\ last = LastEvent0

Handler ==
  \/ AsksForPortfolio \/ CheckExists \/ LoadPositions \/ LoadMarks \/ LoadCursor
  \/ CountSamples \/ LoadSigmas \/ BuildRisk \/ LoadEvents \/ ModelReplies
  \/ AsksForPrices \/ CountMarks \/ ListMarks \/ LoadHead \/ LoadHistory
  \/ StatementFails

Next == Handler \/ CommitTrades \/ \E s \in Symbols : TradeArrives(s) \/ CommitPrice(s)

Spec == Init /\ [][Next]_vars

-----------------------------------------------------------------------------
Stages == {"idle", "done", "exists", "positions", "marks", "cursor", "counts", "sigmas", "build",
           "events", "model", "count", "list", "head", "history"}

\* The shapes of the tables; there are no rows without a cursor, and no days
\* without a mark.
TypeOK ==
  /\ catalogued \in BOOLEAN /\ logged \subseteq Symbols
  /\ DOMAIN positions \subseteq logged /\ Range(positions) \subseteq Rows
  /\ cursor \in 0..last /\ (cursor = NoEvent => positions = None)
  /\ DOMAIN marks \subseteq Symbols
  /\ \A s \in DOMAIN marks : marks[s].price \in Prices /\ marks[s].event \in 1..last
  /\ \A s \in Symbols :
       /\ Len(returns[s]) \in 0..Window
       /\ (returns[s] = << >>) = (s \notin DOMAIN marks)
  /\ req.at \in Stages
  /\ last \in LastEvent0..LastEvent0 + MaxCommits

\* The price of a symbol by the as-of event of its mark.
PriceOf(v, s) == IF s \in DOMAIN v.asOfPrices THEN quoted[v.asOfPrices[s]].price ELSE 0

\* A view is the arithmetic of a book.
IsValueOf(v, book) ==
  LET held == {s \in DOMAIN book : book[s].qty # 0 /\ PriceOf(v, s) # 0}
  IN  /\ DOMAIN v.positions = DOMAIN book
      /\ \A s \in DOMAIN book : v.positions[s].row = book[s]
      /\ v.unpriced = {s \in DOMAIN book : book[s].qty # 0 /\ PriceOf(v, s) = 0}
      /\ v.totals.value = SumOf([s \in held |-> PriceOf(v, s) * book[s].qty])
      /\ v.totals.value - v.totals.gain = SumOf([s \in held |-> book[s].cost * book[s].qty])
      /\ v.totals.realized = SumOf([s \in DOMAIN book |-> book[s].realized])

\* An answer about a portfolio is the arithmetic of one book that was committed,
\* by the as-of event or before it, at prices that its as-of events carried.
AnswersAreOfOneBook ==
  answer.kind \in {"view", "risk", "scenario"} =>
    LET v == answer.view
    IN  \/ \E e \in DOMAIN books : e <= v.asOfPos /\ IsValueOf(v, books[e])
        \/ IsValueOf(v, None)

\* A single as-of event is named only when no number depends on another
\* partition; the driving events are those of the cursor and of the marks.
LineageIsHonest ==
  answer.kind \in {"view", "risk", "scenario"} =>
    LET v == answer.view
    IN  /\ v.asOf # NoEvent => /\ v.driving = {v.asOf}
                               /\ \A s \in DOMAIN v.positions : v.positions[s].last = 0
        /\ v.driving = (Range(v.asOfPrices) \cup {v.asOfPos}) \ {NoEvent}
        /\ \A s \in DOMAIN v.asOfPrices : quoted[v.asOfPrices[s]].symbol = s

\* Views before and after shocks, and their difference.
MovesMarksOnly(b, x, d, shocks) ==
  LET Of(s)    == CHOOSE i \in DOMAIN shocks : shocks[i].symbol = s
      moved    == {shocks[i].symbol : i \in DOMAIN shocks}
      wipedOut == {s \in moved : shocks[Of(s)].value = -Parts}
  IN  /\ d.realized = 0
      /\ d.value * Parts = SumOf([s \in moved |-> b.positions[s].value * shocks[Of(s)].value])
      /\ wipedOut = {} => d.gain = d.value
      /\ x.unpriced = b.unpriced \cup wipedOut
      /\ \A s \in DOMAIN b.positions : /\ x.positions[s].row = b.positions[s].row
                                       /\ s \notin moved => x.positions[s] = b.positions[s]
      /\ <<x.driving, x.asOfPos, x.asOfPrices, x.asOf>>
           = <<b.driving, b.asOfPos, b.asOfPrices, b.asOf>>

\* A scenario moves the marks of the shocked symbols by their share and nothing
\* else: unless a mark is wiped out, the gain moves with the value.
ShocksMoveMarksOnly ==
  answer.kind = "scenario" =>
    MovesMarksOnly(answer.view, answer.shocked, answer.delta, answer.shocks)

\* A snapshot and the samples it rests on, for what was read and its view.
CoversTheBook(in, view, samples, r) ==
  LET open == Open(in.rows)
      n    == Cardinality(open)
      sum  == SumOf(r.weights)
  IN  /\ DOMAIN r.exposure = open /\ DOMAIN r.sigma = open
      /\ view.unpriced = {}
      /\ \A s \in open : Enough(samples[s])
      /\ open # {} => 2 * sum \in (2 * Scale - n)..(2 * Scale + n)
      /\ r.hhi <= sum * sum
      /\ \A s \in open \ r.top : /\ \A t \in r.top : r.weights[s] <= r.weights[t]
                                 /\ Cardinality(r.top) = TopN
      /\ r.total = view.totals.value

\* A risk answer covers every open position with a price and enough samples, its
\* weights add up to one but for rounding, and nothing left out of its top weighs
\* more than what is in it.
RiskIsComplete ==
  answer.kind = "risk" =>
    CoversTheBook(answer.in, answer.view, answer.samples, answer.risk)

\* Of what the text of a reply shows, an explanation passes on no wording that is
\* refused and no ticker that the book has no row for, it keeps the tickers of the
\* book, and the parts of the context it says it used are admitted ones. What only
\* shows when the JSON is decoded is not checked.
ExplanationIsGrounded ==
  answer.kind = "explain" =>
    LET shown == answer.names \ answer.reply.hiddenNames
    IN  /\ answer.wording \in {"plain", answer.reply.hiddenWording}
        /\ shown \ Long \subseteq answer.context.allowed
        /\ (answer.reply.names \cap answer.context.allowed) \ Split \subseteq answer.names
        /\ answer.metrics # {} /\ answer.metrics \subseteq Admitted

\* The comment on ValidateInsightOutput, of the whole answer: it is checked before
\* it is returned to clients.
AnswerIsChecked ==
  answer.kind = "explain" =>
    answer.wording = "plain" /\ answer.names \ Long \subseteq answer.context.allowed

\* The comment on DefaultUsedMetricsFromContextJSON: its paths pass the check.
DefaultsAreAdmitted ==
  req.at = "model" =>
    \A reply \in Replies : reply.metrics = {} => MergeUsedMetrics(reply, req.context) \subseteq Admitted

\* What is read later is not older: a page has the rows that the total promised,
\* and the newest day of a symbol's history is that of its mark or newer.
LaterReadsAreNoOlder ==
  /\ answer.kind = "prices" =>
       Cardinality(answer.items) >= Min({answer.limit, answer.total - answer.offset})
  /\ answer.kind = "price" =>
       /\ answer.history # << >>
       /\ answer.history[1] >= answer.head
=============================================================================
