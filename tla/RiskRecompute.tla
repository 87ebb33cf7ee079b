---------------------------- MODULE RiskRecompute ---------------------------
(***************************************************************************)
(* From a committed batch to a row of risk_snapshots: the apply workers    *)
(* trigger the debounced scheduler, its timers fire into goroutines of     *)
(* their own, and each of those reads positions, marks and cursor in       *)
(* separate statements before it writes its row.                           *)
(*                                                                         *)
(* Cursors are the ranks of event keys, and a book is named for the latest *)
(* event it contains; a mark has a version that grows with each new price. *)
(* RISK_SNAPSHOT_WRITE_ENABLED is taken to be on (its default is off: a    *)
(* callback then ends where it would insert).                              *)
(***************************************************************************)
EXTENDS Naturals, FiniteSets

CONSTANTS
  Portfolios,
  Symbols,
  Timers,          \* Timer slots of one portfolio, positive numbers.
  MaxEvents,       \* Bound on the trade events of one portfolio.
  MaxPrices,       \* Bound on the prices of one symbol.
  Repricing,       \* Whether a price event may repeat the current price.
  Disruptions,     \* What may go wrong, from the set below.
  MaxDisruptions   \* Bound on how often.

\* "commit": a batch of trades is rolled back; "ack": it is committed, but
\* reported as failed; "rebuildAck": so is a commit of a rebuild, and the worker
\* starts over behind it; "list" and "recompute": a query fails or times out.
AllDisruptions ==
  {"shutdown", "exit", "commit", "ack", "rebuildAck", "list", "recompute"}

ASSUME BoundsAssumption ==
  /\ Timers \subseteq Nat \ {0}
  /\ IsFiniteSet(Timers)
  /\ {MaxEvents, MaxPrices, MaxDisruptions} \subseteq Nat
  /\ Repricing \in BOOLEAN
  /\ Disruptions \subseteq AllDisruptions

VARIABLES
  \* The database.
  cursor,     \* projection_cursor of each portfolio; 0 for no row.
  book,       \* The latest event contained in positions_projection.
  held,       \* The symbols with a non-zero quantity.
  price,      \* prices_projection; 0 for no row.
  rows,       \* risk_snapshots, with what the author of a row had read.
  \* The trade workers.
  at,         \* pw.cur.
  agg,        \* The latest event contained in pw.agg.
  \* The apply workers, between a commit and its trigger.
  tradeDue,   \* Portfolios about to be scheduled by their trade worker.
  priceDue,   \* Symbols of the price batch whose holders are to be listed.
  holders,    \* The listed portfolios still to be scheduled.
  \* The scheduler.
  entry,      \* DebouncedRiskScheduler.timers: a slot, or 0.
  timer,      \* The timers and the callbacks they fired.
  running,    \* FALSE once stopWorkers has been called.
  disrupted,  \* How many disruptions there have been.
  retried     \* History variable: portfolios whose kept worker saw a commit fail.

tables    == <<cursor, book, held, price>>
workers   == <<at, agg, retried>>
triggers  == <<tradeDue, priceDue, holders>>
scheduler == <<entry, timer>>
vars      == <<cursor, book, held, price, rows, at, agg, tradeDue, priceDue, holders,
               entry, timer, running, disrupted, retried>>

Phases   == {"free", "armed", "positions", "prices", "cursor", "insert", "done"}

TimerType == [phase : Phases, read : Nat, open : SUBSET Symbols,
              marks : [Symbols -> Nat], asOf : Nat]

NoMarks == [s \in Symbols |-> 0]
Fresh(phase) ==
  [phase |-> phase, read |-> 0, open |-> {}, marks |-> NoMarks, asOf |-> 0]

Disrupt(kind) ==
  /\ kind \in Disruptions
  /\ disrupted < MaxDisruptions
  /\ disrupted' = disrupted + 1

-----------------------------------------------------------------------------
(* The apply workers.                                                      *)

\* The aggregate once events up to the n-th are applied: also those it already
\* contains are applied again, none is taken back.
Applied(p, n) == IF n > agg[p] THEN n ELSE agg[p]

\* A worker as it is behind a rebuild, which is the only one to be replaced.
AsRebuilt(p) == at[p] = cursor[p] /\ agg[p] = book[p]

\* ApplyBatch of the events behind pw.cur up to the n-th, and what its answer
\* leads to. The row of the cursor is overwritten, with an older event too.
CommitTrades(p, n) ==
  /\ running
  /\ p \notin tradeDue
  /\ at[p] < n
  /\ cursor' = [cursor EXCEPT ![p] = n]
  /\ agg' = [agg EXCEPT ![p] = Applied(p, n)]
  /\ book' = [book EXCEPT ![p] = Applied(p, n)]
  /\ \E open \in SUBSET Symbols : held' = [held EXCEPT ![p] = open]
  /\ \/ /\ at' = [at EXCEPT ![p] = n]
        /\ tradeDue' = tradeDue \cup {p}
        /\ UNCHANGED <<retried, disrupted>>
     \/ /\ Disrupt("rebuildAck") /\ AsRebuilt(p)
        /\ at' = [at EXCEPT ![p] = n]
        /\ UNCHANGED <<retried, tradeDue>>
     \/ /\ Disrupt("ack")
        /\ retried' = retried \cup {p}
        /\ UNCHANGED <<at, tradeDue>>
  /\ UNCHANGED <<price, rows, priceDue, holders, scheduler, running>>

\* ApplyBatch rolls back; the worker keeps the aggregate it has applied to.
CommitTradesFails(p, n) ==
  /\ running
  /\ p \notin tradeDue
  /\ at[p] < n
  /\ Disrupt("commit")
  /\ agg' = [agg EXCEPT ![p] = Applied(p, n)]
  /\ retried' = retried \cup {p}
  /\ UNCHANGED <<tables, rows, at, triggers, scheduler, running>>

\* PersistApplyDLQ moves the cursor only, and triggers nothing.
CommitDeadLetter(p, n) ==
  /\ running
  /\ p \notin tradeDue
  /\ at[p] < n
  /\ cursor' = [cursor EXCEPT ![p] = n]
  /\ \/ at' = [at EXCEPT ![p] = n] /\ UNCHANGED <<retried, disrupted>>
     \/ Disrupt("ack") /\ retried' = retried \cup {p} /\ UNCHANGED at
  /\ UNCHANGED <<book, held, price, rows, agg, triggers, scheduler, running>>

\* ApplyPriceBatch: new prices for these symbols, or the same ones again.
CommitPrices(batch) ==
  /\ running
  /\ priceDue = {} /\ holders = {}
  /\ \/ /\ \A s \in batch : price[s] < MaxPrices
        /\ price' = [s \in Symbols |-> IF s \in batch THEN price[s] + 1 ELSE price[s]]
     \/ /\ Repricing /\ \A s \in batch : price[s] > 0
        /\ UNCHANGED price
  /\ \/ priceDue' = batch /\ UNCHANGED disrupted
     \/ Disrupt("rebuildAck") /\ UNCHANGED priceDue
  /\ UNCHANGED <<cursor, book, held, rows, workers, tradeDue, holders, scheduler, running>>

\* Mutant: the holders of all of the symbols instead of any.
ListHoldersOfAll ==
  /\ priceDue # {} /\ running
  /\ priceDue' = {}
  /\ holders' = {p \in Portfolios : priceDue \subseteq held[p]}
  /\ UNCHANGED <<tables, rows, workers, tradeDue, scheduler, running, disrupted>>

\* ListPortfolioIDsByOpenSymbols, on the workers' context.
ListHolders ==
  /\ priceDue # {}
  /\ priceDue' = {}
  /\ \/ /\ running
        /\ holders' = {p \in Portfolios : held[p] \cap priceDue # {}}
        /\ UNCHANGED disrupted
     \/ /\ running => Disrupt("list")
        /\ ~running => UNCHANGED disrupted
        /\ UNCHANGED holders
  /\ UNCHANGED <<tables, rows, workers, tradeDue, scheduler, running>>

-----------------------------------------------------------------------------
(* The scheduler.                                                          *)

\* The slots after Stop on the timer the map names: a fired one stays.
Stopped(p) ==
  [i \in Timers |-> IF i = entry[p] /\ timer[p][i].phase = "armed"
                    THEN Fresh("free") ELSE timer[p][i]]

\* Mutant: a portfolio with an entry is left alone.
ScheduleOnce(p) ==
  IF entry[p] # 0 THEN UNCHANGED scheduler
  ELSE \E i \in Timers :
         /\ timer[p][i].phase = "free"
         /\ timer' = [timer EXCEPT ![p][i] = Fresh("armed")]
         /\ entry' = [entry EXCEPT ![p] = i]

\* Schedule: stop the portfolio's timer, if any, and arm a new one (another
\* slot: its delay starts again).
Schedule(p) ==
  \E i \in Timers :
    /\ timer[p][i].phase = "free"
    /\ \A j \in Timers : j < i => timer[p][j].phase # "free"
    /\ timer' = [timer EXCEPT ![p] = [Stopped(p) EXCEPT ![i] = Fresh("armed")]]
    /\ entry' = [entry EXCEPT ![p] = i]

ScheduleAfterTrades(p) ==
  /\ p \in tradeDue
  /\ Schedule(p)
  /\ tradeDue' = tradeDue \ {p}
  /\ UNCHANGED <<tables, rows, workers, priceDue, holders, running, disrupted>>

ScheduleHolder(p) ==
  /\ p \in holders
  /\ Schedule(p)
  /\ holders' = holders \ {p}
  /\ UNCHANGED <<tables, rows, workers, tradeDue, priceDue, running, disrupted>>

\* stopWorkers: the workers' context is cancelled and nobody waits for them;
\* Stop stops the timers of the map and empties it.
Shutdown ==
  /\ running
  /\ Disrupt("shutdown")
  /\ running' = FALSE
  /\ timer' = [p \in Portfolios |-> Stopped(p)]
  /\ entry' = [p \in Portfolios |-> 0]
  /\ UNCHANGED <<tables, rows, workers, triggers>>

\* The process ends, after a shutdown or without one, and a new one starts: the
\* workers rebuild from the cursor and the positions stored.
Exit ==
  /\ Disrupt("exit")
  /\ running' = TRUE
  /\ timer' = [p \in Portfolios |-> [i \in Timers |-> Fresh("free")]]
  /\ entry' = [p \in Portfolios |-> 0]
  /\ at' = cursor /\ agg' = book
  /\ tradeDue' = {} /\ priceDue' = {} /\ holders' = {}
  /\ UNCHANGED <<tables, rows, retried>>

-----------------------------------------------------------------------------
(* The callbacks: recomputeAndMaybePersistRisk, one statement at a time.   *)

Moves(p, i, t) ==
  /\ timer' = [timer EXCEPT ![p][i] = t]
  /\ UNCHANGED <<tables, workers, triggers, running>>

Fire(p, i) ==
  /\ timer[p][i].phase = "armed"
  /\ Moves(p, i, Fresh("positions"))
  /\ UNCHANGED <<rows, entry, disrupted>>

\* Mutant: the cursor is read in the first statement.
LoadCursorFirst(p, i) ==
  /\ timer[p][i].phase = "positions"
  /\ IF timer[p][i].asOf = 0
     THEN Moves(p, i, [timer[p][i] EXCEPT !.asOf = cursor[p],
                       !.phase = IF cursor[p] = 0 THEN "done" ELSE "positions"])
     ELSE Moves(p, i, [timer[p][i] EXCEPT !.read = book[p],
                       !.marks = [s \in Symbols |-> IF s \in held[p] THEN price[s] ELSE 0],
                       !.phase = "insert"])
  /\ UNCHANGED <<rows, entry, disrupted>>

LoadPositions(p, i) ==
  /\ timer[p][i].phase = "positions"
  /\ Moves(p, i, [timer[p][i] EXCEPT
                    !.read = book[p],
                    !.open = held[p],
                    !.phase = IF held[p] = {} THEN "cursor" ELSE "prices"])
  /\ UNCHANGED <<rows, entry, disrupted>>

LoadPrices(p, i) ==
  /\ timer[p][i].phase = "prices"
  /\ Moves(p, i, [timer[p][i] EXCEPT
                    !.marks = [s \in Symbols |->
                                 IF s \in timer[p][i].open THEN price[s] ELSE 0],
                    !.phase = "cursor"])
  /\ UNCHANGED <<rows, entry, disrupted>>

\* No cursor, no row: there is nothing to name as its as-of.
LoadCursor(p, i) ==
  /\ timer[p][i].phase = "cursor"
  /\ Moves(p, i, [timer[p][i] EXCEPT
                    !.asOf = cursor[p],
                    !.phase = IF cursor[p] = 0 THEN "done" ELSE "insert"])
  /\ UNCHANGED <<rows, entry, disrupted>>

\* Sigmas, BuildSnapshot and UpsertRiskSnapshot, which always inserts.
InsertRow(p, i) ==
  LET t == timer[p][i]
  IN  /\ t.phase = "insert"
      /\ rows' = rows \cup {[portfolio |-> p, asOf |-> t.asOf,
                             read |-> t.read, marks |-> t.marks]}
      /\ Moves(p, i, Fresh("done"))
      /\ UNCHANGED <<entry, disrupted>>

\* Logged, and not tried again.
RecomputeFails(p, i) ==
  /\ timer[p][i].phase \in {"positions", "prices", "cursor", "insert"}
  /\ Disrupt("recompute")
  /\ Moves(p, i, Fresh("done"))
  /\ UNCHANGED <<rows, entry>>

\* Mutant: the entry stays when the callback ends.
EndWithoutDelete(p, i) ==
  /\ timer[p][i].phase = "done"
  /\ Moves(p, i, Fresh("free"))
  /\ UNCHANGED <<rows, entry, disrupted>>

\* The end of the callback deletes the portfolio's entry, whichever timer it
\* names by now.
DeleteEntry(p, i) ==
  /\ timer[p][i].phase = "done"
  /\ Moves(p, i, Fresh("free"))
  /\ entry' = [entry EXCEPT ![p] = 0]
  /\ UNCHANGED <<rows, disrupted>>

-----------------------------------------------------------------------------

Init ==
  /\ cursor = [p \in Portfolios |-> 0]
  /\ book = [p \in Portfolios |-> 0]
  /\ held = [p \in Portfolios |-> {}]
  /\ price = NoMarks
  /\ rows = {}
  /\ at = cursor /\ agg = book
  /\ tradeDue = {} /\ priceDue = {} /\ holders = {}
  /\ entry = [p \in Portfolios |-> 0]
  /\ timer = [p \in Portfolios |-> [i \in Timers |-> Fresh("free")]]
  /\ running = TRUE
  /\ disrupted = 0 /\ retried = {}

\* One step of the goroutine a timer started.
Callback(p, i) ==
  \/ LoadPositions(p, i)
  \/ LoadPrices(p, i)
  \/ LoadCursor(p, i)
  \/ InsertRow(p, i)
  \/ DeleteEntry(p, i)

Next ==
  \/ \E p \in Portfolios :
       \/ \E n \in 1 .. MaxEvents :
            CommitTrades(p, n) \/ CommitTradesFails(p, n) \/ CommitDeadLetter(p, n)
       \/ ScheduleAfterTrades(p)
       \/ ScheduleHolder(p)
       \/ \E i \in Timers : Fire(p, i) \/ Callback(p, i) \/ RecomputeFails(p, i)
  \/ \E batch \in SUBSET Symbols \ {{}} : CommitPrices(batch)
  \/ ListHolders
  \/ Shutdown
  \/ Exit

Spec == Init /\ [][Next]_vars

\* A worker that committed goes on to the trigger; a timer that nobody stops
\* fires; a callback runs to its end. Nothing obliges anybody to commit.
FairSpec ==
  /\ Spec
  /\ WF_vars(ListHolders)
  /\ \A p \in Portfolios :
       /\ WF_vars(ScheduleAfterTrades(p))
       /\ WF_vars(ScheduleHolder(p))
       /\ \A i \in Timers : WF_vars(Fire(p, i)) /\ WF_vars(Callback(p, i))

-----------------------------------------------------------------------------
(* Properties.                                                             *)

\* Types, and what the scheduler's map can hold: an entry names a timer that is
\* armed or whose callback has not ended.
TypeOK ==
  /\ cursor \in [Portfolios -> Nat]
  /\ book \in [Portfolios -> Nat]
  /\ held \in [Portfolios -> SUBSET Symbols]
  /\ price \in [Symbols -> Nat]
  /\ rows \subseteq [portfolio : Portfolios, asOf : Nat, read : Nat,
                     marks : [Symbols -> Nat]]
  /\ tradeDue \subseteq Portfolios
  /\ priceDue \subseteq Symbols
  /\ holders \subseteq Portfolios
  /\ entry \in [Portfolios -> Timers \cup {0}]
  /\ timer \in [Portfolios -> [Timers -> TimerType]]
  /\ running \in BOOLEAN
  /\ disrupted \in Nat
  /\ at \in [Portfolios -> Nat]
  /\ agg \in [Portfolios -> Nat]
  /\ retried \subseteq Portfolios
  /\ \A p \in Portfolios : entry[p] # 0 => timer[p][entry[p]].phase # "free"

\* A row never claims less than it contains: its as-of cursor is at or beyond
\* the latest event of the positions it was computed from, because
\* LoadPortfolioAssemblerInput reads the cursor after the rows; and the cursor is
\* never moved back behind it. The exception is a worker that goes on behind a
\* commit reported as failed: its aggregate is ahead of the events it commits
\* again, and where it dead-letters one or takes a smaller batch, the cursor it
\* stores is behind the positions stored with it, or behind the one before.
AsOfCoversPositions ==
  \A r \in rows :
    /\ 0 < r.asOf
    /\ r.portfolio \in retried \/ (r.read <= r.asOf /\ r.asOf <= cursor[r.portfolio])

\* What a timer will report, or has read to report: positions this recent.
WillReport(t, version) ==
  \/ t.phase \in {"armed", "positions"}
  \/ t.phase \in {"prices", "cursor", "insert"} /\ t.read >= version

TradesPending(p) ==
  \/ book[p] = 0
  \/ p \in tradeDue
  \/ \E i \in Timers : WillReport(timer[p][i], book[p])
  \/ \E r \in rows : r.portfolio = p /\ r.read >= book[p]

\* No trade is forgotten: while nothing has failed, the latest committed batch
\* of a portfolio is in a row, or its worker is about to trigger, or a timer is
\* armed or has fired early enough. Replacing timers, finishing callbacks that
\* delete a newer timer's entry, and dead letters do not break it.
TradesArePending == disrupted = 0 => \A p \in Portfolios : TradesPending(p)

\* The same of the current price of a symbol.
WillMark(t, s) ==
  \/ t.phase \in {"armed", "positions"}
  \/ t.phase = "prices" /\ s \in t.open
  \/ t.phase \in {"cursor", "insert"} /\ t.marks[s] = price[s]

PricePending(p, s) ==
  \/ price[s] = 0
  \/ p \in tradeDue \cup holders
  \/ s \in priceDue
  \/ \E i \in Timers : WillMark(timer[p][i], s)
  \/ \E r \in rows : r.portfolio = p /\ r.marks[s] = price[s]

\* No price of a held symbol is forgotten, also when the symbol is bought while
\* the price batch is between its commit and the listing of holders.
PricesArePending ==
  disrupted = 0 => \A p \in Portfolios : \A s \in held[p] : PricePending(p, s)

\* Every committed batch of trades is eventually in a row (LLD 8.1: recompute
\* risk on every TradeExecuted).
EveryTradeIsReported ==
  \A p \in Portfolios : \A v \in 1 .. MaxEvents :
    book[p] = v ~> \E r \in rows : r.portfolio = p /\ r.read >= v

\* Every price of a held symbol is eventually in a row, or the symbol is sold.
EveryMarkIsReported ==
  \A p \in Portfolios : \A s \in Symbols : \A v \in 1 .. MaxPrices :
    s \in held[p] /\ price[s] = v
      ~> \/ s \notin held[p]
         \/ \E r \in rows : r.portfolio = p /\ r.marks[s] >= v

\* The comment on Stop: it cancels all outstanding timers.
StopCancels ==
  [][running /\ ~running' =>
       \A p \in Portfolios : \A i \in Timers : timer'[p][i].phase # "armed"]_vars
=============================================================================
