# Real-time portfolio risk engine: TLA+ models and proofs

This directory holds TLA+ specifications of the portfolio risk engine (Go,
`src/`): its event-sourced core, the feed and the requests around it. With them
are the TLC configurations that check them on small instances, and TLAPS proofs
of every safety property the configurations check, for every instance. Paths
below are relative to `src/`.

Run a model with `tlc -config X.cfg M.tla` (the table in section 4 gives the
module of each configuration) and a proof with `tlapm M.tla`.

## 1. Inventory of the system

One server process and one PostgreSQL database. Clients post trades and prices,
a feed polls market data; both only append to the `events` table. Two pools of
apply workers turn events into projections. A debounced scheduler recomputes
risk. HTTP reads join the projections. No component calls another across the
database; the tables are the interface.

| Component | Code | State it keeps | Operations |
|---|---|---|---|
| Event log | `internal/events/postgres.go`, `cursor.go` | `events`, unique per (portfolio, idempotency key) | `Append`, `FetchAfter`, `FetchAllForPortfolio`, `MaxEventTime` |
| Positions, aggregate | `internal/domain/positions.go`, `internal/portfolio/*.go` | lots: quantity, average cost, realized P&L | `ApplyTrade`, snapshot encoding |
| Trade apply worker | `internal/events/trade_worker_pool.go`, `trade_portfolio_apply.go` | `positions_projection`, `projection_cursor`, `dlq_events`, `portfolio_snapshots`; in memory cursor and aggregate per portfolio | tick, rebuild, pump, apply, flush, dead-letter, snapshot |
| Price apply worker | `internal/events/price_worker_pool.go`, `symbol_returns.go` | `prices_projection`, `symbol_returns`, `projection_cursor`, `dlq_events`; in memory a cursor per partition | tick, rebuild, pump, apply, dead-letter, list holders |
| Risk scheduler, recompute | `internal/events/risk_trigger.go`, `cmd/server/main.go` | a timer per portfolio; `risk_snapshots` | `Schedule`, `Stop`, timer callback |
| Risk engine, scenarios | `internal/risk/engine.go`, `internal/scenario/core.go`, `internal/api/risk_build.go`, `scenario_handler.go` | none | shocks, exposures, weights, sigmas |
| Portfolio view, read path | `internal/portfolio/view.go`, `internal/api/portfolio_read_path.go`, `internal/events/prices_ui_read.go` | none | joins of projections over several statements |
| Insights | `internal/ai/*.go`, `internal/insights/openai.go`, `internal/api/insights_handler.go` | none | gather a context, check and clean a model's reply |
| Price feed | `internal/ingestion/pricefeed/*.go` | watchlist, sequence numbers, dedup table, run status | tick, failover, retry, emit |
| Watchlist | `internal/api/price_read_handler.go` | the runner's list and the row `price_feed_watchlist` of `app_settings` | GET, PUT |
| Ingestion and handlers | `internal/ingestion/service.go`, `internal/api/handlers.go`, `internal/domain/validation.go` | none | validate, append |
| Accounts | `internal/api/auth.go`, `portfolio_catalog_handler.go` | `users`, `user_sessions`, `portfolios` | register, login, logout, create and list portfolios, ownership test |
| Rate limiter | `internal/api/ratelimit.go` | a token bucket per address and route class | `Allow` |
| Process | `cmd/server/main.go` | goroutines, contexts | start, orderly stop |
| Configuration | `internal/config/config.go` | none | load, clamp, derive partitions |
| Market data client, metrics, web UI, migrations | `internal/pricesource`, `internal/observability`, `web`, `migrations` | none the rest depends on | I/O, presentation, schema |

### What is hard here

* **Ordering.** Events are applied in `(event_time, event_id)` order, but arrive
  in any order, while a worker pages through them. `MaxEventTime` and
  `FetchAfter` are two statements. What arrives behind the cursor is never
  fetched.
* **Partial failure.** A trade batch is applied to the aggregate in memory first
  and committed afterwards. A commit can fail, or succeed and lose its answer.
  Cursors of dead letters and batches move separately.
* **Restart.** Rebuild chooses among snapshot, rows and log; rows and snapshots
  are rounded to the columns' scale, the aggregate is not.
* **Liveness.** The newest events of a partition never clear the watermark by
  themselves; a rule about partial pages has to release them.
* **Timers.** A debounce timer may have fired when it is stopped, and its
  callback edits the scheduler's map when it ends, whatever the map holds then.
* **Reads across statements.** A recompute and a portfolio view read positions,
  marks and cursor in separate statements while workers commit; so do the price
  list (count, then page) and a risk answer (sample counts, then deviations).
* **Two rules against repetition.** The feed skips a price it has sent within a
  window, and `Append` drops a second event of a poll interval; the first rule
  remembers as sent what the second has dropped, and a restart forgets it.
* **Memory before the row.** A watchlist is set in memory, read back and stored,
  while other requests do the same and the runner polls it.
* **Checks before statements.** Registration looks an address up and inserts it
  later; a request authenticates, checks the owner, and only then reads or appends.

`PROJECT.json` lists these as hazards, each at its line with the properties that
catch it.

### What makes each component correct

* Event log: one row per idempotency key; pages in key order, no gaps.
* Trade worker: every event is applied or refused once, in order, with a reason
  that is true; stored rows are the replay of what was applied; snapshots are
  replays of a prefix; nothing waits for ever; nothing goes short.
* Price worker: a mark is the newest applied price; returns are the replayed
  ones; nothing is skipped or applied twice.
* Risk: no batch and no mark of a held symbol is forgotten; a row does not claim
  to be older than it is; timers are stopped and coalesced.
* Read path: an answer is the arithmetic of one committed book at prices that
  were quoted, its lineage names the events it depends on, a scenario moves what
  is shocked and nothing else, a risk answer covers the whole book, an
  explanation names nothing the book has not, as far as its check can see.
* Price feed: a price that is quoted for long enough is stored; sequence numbers
  grow with time; the watchlist in memory is the one that is stored; ticks end
  and so does the process.
* Accounts: one account per address, and its owner can use it; a session that was
  logged out admits nobody; nobody reads or writes another's portfolio; the
  limiter admits a burst and its rate, no less and no more.

## 2. Modules

| Module | Role |
|---|---|
| `EventLog` | operators: ordering key, `FetchAfter`, `MaxEventTime`, the watermark rule, staleness, `Append` |
| `Positions` | operators: lots, `ApplyTrade`, rounding to the columns |
| `TradeApply` | state machine: one trade partition, its clients and its failures |
| `Ledger` | abstract specification: what the trade path promises, the shares of every symbol whose quantities the column holds (`Exact`), and every field where the columns keep every digit (units of 1) |
| `TradeLedger` | the refinement mapping from `TradeApply` to `Ledger`, and the properties that compare with a replay |
| `PriceApply` | state machine: one price partition |
| `RiskRecompute` | state machine: triggers, scheduler, timers, callbacks over both kinds of commits |
| `PriceFeed` | state machine: the feed's runner, the watchlist requests, starts and stops of the process |
| `Accounts` | state machine: rate limiter, registration, sessions, catalog, ownership |
| `Valuation` | operators: the portfolio view, shocks, the risk snapshot |
| `Insights` | operators: what becomes of a model's reply |
| `ReadPath` | state machine: one read request among committing workers |
| `MCTradeApply`, `MCPriceApply`, `MCPriceFeed`, `MCAccounts`, `MCReadPath` | the data of the small instances |
| `EventLogProofs`, `PositionsProofs` | lemmas about the operators |
| `TradeApplyProofs` | theorems about `TradeApply`, and that it implements `Ledger` (extends `TradeLedger`) |
| `PriceApplyProofs`, `RiskRecomputeProofs`, `PriceFeedProofs`, `AccountsProofs`, `ReadPathProofs` | theorems about the module each is named for |

`TradeApply`, `PriceApply` and `PriceFeed` extend `EventLog`, so that all three
append by the same rule; `TradeApply` also extends `Positions`, and `ReadPath`
extends `Valuation` and `Insights`. What `PriceFeed` appends is what `PriceApply`
consumes, what `Accounts` lets through is what `TradeApply` logs and `ReadPath`
answers. `RiskRecompute` composes the two commit streams with the scheduler
at a coarser grain: a pass there is one step, a commit or a failed commit, since
the order within a pass does not matter to it.

### TradeApply: state and code

| Variable | Code |
|---|---|
| `log` | `events` of the partition |
| `positions`, `dbCur`, `snapshots` | `positions_projection`, `projection_cursor`, `portfolio_snapshots` |
| `settled` | what was committed, in order: a history of applied events and the rows of `dlq_events` |
| `known`, `agg`, `cur`, `sinceSnapshot` | the entry of the shard's map; `pw.agg`, `pw.cur`, `pw.eventsAppliedSinceSnapshot` |
| `pc`, `rebuilding`, `queue`, `okBatch`, `verdict`, `more`, `maxSeen` | where `shardTick`, `rebuild`, `pumpAfterCursor` and `applyEligible` are, and their local variables |

Each statement to the database is one action, so requests, crashes and failures
fall between any two of them: `Tick` (`shardTick`), `Rebuild` with its three
sources, `ReadMaxEventTime`, `FetchPage`, `ApplyNext` (one turn of
`applyEligible`'s loop), `Flush` (`ApplyBatch` and the count), `WriteSnapshot`,
`DeadLetter`. Every call has a failing twin (`ReadFails`, `ApplyBatchFails`,
`SnapshotFails`, `DeadLetterFails`) and every commit one whose answer is lost
(`...AckLost`). `FaultKinds` says which kinds an instance allows; those of an
incremental commit (`apply`, `applyAck`) are separate from those of a rebuild,
because the code survives only the latter. A page is the set of its rows: its
key order is a total order, so nothing is lost and no sorting has to be modelled.

Decimals are integers that count the last place memory keeps. Rows and snapshots
keep 8 places of a quantity, an average cost and a realised result, which are
`QtyUnit`, `CostUnit` and `ResultUnit` of those; `StoredLot` rounds all three.
Validation only asks that a quantity is positive, so trades may be finer than the
column: after a restart such a symbol has other shares than its replay. `Exact` are
the symbols whose trades the column holds to the last digit, and what `Ledger`
promises of shares and verdicts it promises of these. With units of 1 everything
fits; `TradePaging` uses 10, 10 and 100 and has a symbol of each sort. Portfolios
share only the goroutine that drives them, so one stands for all.

### PriceApply

The same skeleton with what differs: no aggregate (a daily return is computed in
the database from the close before it), the cursor moves after the trigger, one
kind of dead letter. `marks` is `prices_projection`, `returns` is
`symbol_returns` with a return kept as the pair of closes it is the ratio of.
Time is cut into days of `DayLength` instants, the 60-day window is `Window`. Closes
are rounded to `DbUnit`; a mark or a close from `CloseLimit` on, and a return from
`ReturnLimit` on, do not fit their columns. A batch with one of these, or with a
return onto a close of zero, is rolled back as a whole each time (`FlushRefused`).
Undecodable payloads and events of another type are left out: validation keeps
them out of a price partition.

### RiskRecompute

`cursor`, `book`, `held`, `price`, `rows` are the tables. Cursors are ranks of event
keys, a book is named for the latest event in it, a price has a version. `at` and
`agg` are cursor and aggregate of each portfolio's trade worker: a batch or a dead
letter goes from `at` to any later event and overwrites the stored cursor, with an
older event too. When a batch is rolled back (`CommitTradesFails`), or committed and
reported as failed, the worker goes on with an aggregate ahead of its cursor;
`retried` remembers the portfolios this has happened to. A failed commit of a rebuild
makes the worker start over from the database. A price batch that is committed and
reported as failed by an incremental pass is left out: no property here reads the age
of a mark after a failure. `tradeDue`, `priceDue` and `holders` are the workers
between a commit and its `Schedule` calls. `entry` is the map of the scheduler; `timer` has one
record per timer with the phase of its callback and what it has read. `Schedule`
stops the timer the map names only if it has not fired; `DeleteEntry` (the end
of a callback) clears the entry without looking which timer it names. A callback
is four reads and an insert, one action each. `Shutdown` is `stopWorkers`,
`Exit` the end of the process. RISK_SNAPSHOT_WRITE_ENABLED is taken to be on.

### PriceFeed

| Variable | Code |
|---|---|
| `log`, `row` | the feed's events in `events`; the stored watchlist in `app_settings` |
| `pc`, `cancelled`, `nextFire` | where the goroutine of `Start` is, `feedCtx`, its ticker |
| `provider`, `attempt`, `want`, `quotes`, `asOf` | local variables of `fetchWithFailover`, `fetchFromProviderWithRetry` and `runTick` |
| `symbols`, `lastSeq`, `dedup`, `status` | the fields of `PriceIngestor` and `RuntimeTracker` |
| `put` | the open PUT requests: set, then read back, then stored |
| `steady`, `promise` | histories: since when a symbol is polled at one price; the list of the last undisturbed request |

A tick is `BeginTick`, fetches with `FetchIsRetried`, `Backoff` and
`ProviderFails` (the next provider, or the end of the tick), and then one step a
quote: dropped as stale, skipped as unchanged, ingested, failed, or cancelled. A
quote's sequence number is taken before `Ingest` and kept when that fails.
`AppendEvent` of `EventLog` drops a second event of a key, and the key holds the
poll interval (`Bucket`). `Terminate` and `Exit` are the orderly stop, `Crash` any
other end; `Vanish` keeps database and clock only. With the feed disabled (`pc =
"off"`) the runner is a nil pointer, which the handlers take for a runner.

### Accounts

`users`, `sessions` and `owner` are tables, as functions on the ids in use;
`req` holds the requests in progress, each at a statement of its handler; `bucket`
is `byIP` of both limiters. A request passes the limiter (`Arrive`), then either
`RegisterLooksUp` and an insert, `LoginLooksUp` and `LoginCreatesSession`, or
`Authenticate` and its handler. `Row` and `Accepts` keep what registration
normalises and login does not. `served`, `registered`, `out` and `passed` are
histories of what clients were told.

### Valuation, Insights and ReadPath

`Valuation` is the arithmetic of `view.go`, `core.go` and `engine.go` on whole
numbers: a shock is a multiple of 1/`Parts`, a weight is rounded to 1/`Scale` as
decimals are rounded to 16 digits. Sums run over the symbols in their order
(`Upto`); a page and a top-N list are the sets of their rows, each defined by how
many rows come before it (`Page`, `Outranks`), since the order is total; the
shocks of a list take effect one after the other (`AfterShocks`). `Insights` keeps of a reply the symbols it
names, the kind of its wording and how its metric paths begin, and of the first two
apart what the raw text shows and what shows only once the escapes of its JSON are
gone: the check reads the former, the client is sent both. Defaults stand in for
missing paths, one of which (`recent_events`) the check refuses. Symbols that a reply
names inside its metric paths only are left out: the check reads them and nothing shows
them. `ReadPath` runs
one request through its statements: `CheckExists`, `LoadPositions`, `LoadMarks`,
`LoadCursor`, and then the answer (`view`), the shocks (`scenario`), the sample
counts, deviations and snapshot (`risk`), or these and the events and the reply
(`explain`); and the two statements each of the price list and of a price's
detail. Between any two of them `CommitTrades` and `CommitPrice` leave any rows the
workers could leave. `books` and `quoted` are histories of what was committed.

## 3. Fairness

`TradeApply` and `PriceApply`: weak fairness of `Worker` (the ticker of a shard
keeps firing and a call that does not fail returns) and of `Start` (a process
that stopped is started again). Nothing obliges clients to post, clocks to
advance or faults to happen or to stop, except that `MaxFaults` bounds them.
`RiskRecompute`: weak fairness of each worker's trigger, of each timer (one
that stays armed fires) and of each callback. Commits are not fair.
`PriceFeed`: weak fairness of the runner's steps (a goroutine runs, a request to a
provider has a timeout, an append returns), of the open requests and of the end
of the process once both are done. `LoopEnds` is strongly fair: the runner's
`select` chooses at random between a cancelled context and a ticker that has
fired, so it does not take the ticker for ever. Whether a provider answers is
never assumed. `Accounts` and `ReadPath` state no liveness.

## 4. Runs

Passing runs (`PROJECT.json` has one mutant of the code for each property, which
breaks it):

| Run | Configuration (module) | What it asks |
|---|---|---|
| trade_apply | `TradeApply.cfg` (MCTradeApply) | exactly once, in order, nothing skipped, memory agrees with the database, snapshots are replays, refinement of `Ledger`; every event not overtaken on arrival is settled |
| trade_paging | `TradePaging.cfg` (MCTradeApply) | pages of one event, no watermark, an age limit, the snapshot timer, averages of one symbol and quantities of another that do not fit the columns: no share of the former lost or created by rounding and restarts; every step within a pass leaves less of it |
| price_apply | `PriceApply.cfg` (MCPriceApply) | newest marks, replayed returns, once each, nothing skipped even behind a batch that can never be committed; every price settled unless such a batch exists or a full page lies inside the watermark; every step within a pass leaves less of it |
| risk_recompute | `RiskRecompute.cfg` (RiskRecompute) | as-of covers what was read and is covered by the cursor, through stops, restarts and failures, but for a worker that goes on behind a failed commit; no trade forgotten, up to the first failure of any kind |
| risk_live | `RiskLive.cfg` (RiskRecompute) | two symbols traded and priced together: every holder is triggered, every trade and mark reaches a row |
| price_feed | `PriceFeed.cfg` (MCPriceFeed) | a price quoted for longer than the deduplication window and a poll interval is the one in the log, whatever was skipped, dropped, refused or lost in a restart; sequences follow time across restarts; a clean status is that of the last tick |
| watchlist | `Watchlist.cfg` (MCPriceFeed) | an undisturbed request is what is polled and what is stored, until the next one and across restarts; every step within a tick leaves less of it, ticks end under retries and failover; a process told to stop does, also when the ticker has fired and `select` takes it first |
| accounts | `Accounts.cfg` (MCAccounts) | one account per address in any spelling, usable as it was answered; logouts are final; only owners are shown a portfolio or append to it; the limiter's bound is kept and is sharp |
| read_path | `ReadPath.cfg` (MCReadPath) | with commits between the statements: answers of one book, honest lineage, scenarios, complete risk, explanations grounded as far as their text shows, pages and histories no older than what was read first |

Each has at most nine million states and ends within a few minutes. Deadlock is
checked in the trade runs; the other configurations switch it off where the
environment may run dry.

Runs that refute a promise of the repository (each a finding in `PROJECT.json`,
with the line of the promise):

| Run | Promise | What happens |
|---|---|---|
| trade_reordered | events at most W out of order end in sorted order; later ones get a dead letter with a reason | a rebuild without a cursor applies the whole log without a watermark; a predecessor that arrives while it does is silently dropped. Releasing a partial page inside the watermark has the same effect, and one later than W is dropped too |
| trade_failed_commit | live state equals replayed state | a failed incremental commit leaves its trades in the aggregate; they are applied twice |
| feed_disabled | without a feed the watchlist is unavailable (503) | a nil runner in an interface passes the test for nil; a PUT is answered 200 and an empty list replaces the one an earlier process had saved |

Besides, TLC finds these to hold:

* `TradeApply.cfg` with `PageLimit = 2`, all eleven kinds of faults of a trade
  partition and `NoSilentSkip` alone: after a lost answer the worker that is kept
  lags behind the stored cursor and settles events twice, but leaves none out.
* `TradePaging.cfg` with `SnapshotsAreReplays` and `ImplementsLedger`: the refinement
  with averages and quantities that do not fit the columns.
* `TypeOK` in `PriceFeed.cfg`, `Accounts.cfg` and `ReadPath.cfg`, where it is left to
  the theorems `TypeCorrect`.

What the configurations leave out on purpose, each a small change of a
configuration or of a property away. TLC refutes every property named here under the change named with
it:

* `TradeApply.cfg` with `PageLimit = 2`, no faults and `EventuallySettled`: a full
  page inside the watermark is never eligible until a newer event comes, although
  `cursor.go:19` says the tail cannot deadlock.
* `PriceApply.cfg` with `Symbols = {"A"}`, `Requests <- FourDays`, `DbUnit = 1`, `Disorder`,
  `Watermark`, `MaxEventAge` and `MaxNow` of 0, pages of five, `FaultKinds =
  {"applyAck"}` and `ReturnsAreReplayed` alone: a batch whose answer is lost is applied
  again onto a trimmed window and nulls the oldest return.
* `PriceApply.cfg` with `FaultKinds = {"applyAck"}` and `MarkIsNewest`: after a lost
  answer of an incremental commit the worker may find its page full and apply only
  the older part of the committed batch again; mark and stored cursor move back.
* `PriceApply.cfg` with `ClosesArePositive`: a price below half a unit of the column
  is stored as a close of zero, from which `computeDailyReturn` refuses to go on; the
  partition stands still from then on.
* `PriceApply.cfg` with `EventuallySettled` without `Stranded`, or without either part
  of `MayBeRefused`: a full page inside the watermark waits for a newer price, and a
  price or a return that its column does not hold stops the partition.
* `RiskRecompute.cfg` with `Disruptions = {"shutdown"}`, `Repricing = FALSE` and
  `StopCancels`: a timer whose entry was deleted by an older callback fires after
  `Stop`, which says (`risk_trigger.go:54`) that it cancels all of them.
* `RiskRecompute.cfg` with `Disruptions` of `{"ack"}` or of `{"commit"}` and
  `AsOfCoversPositions` without its exception: a worker that goes on behind a failed
  commit stores positions which are ahead of the cursor it stores with them, or moves
  the stored cursor back behind the as-of of a row.
* `RiskLive.cfg` with `Disruptions = {"recompute"}` and `MaxDisruptions = 1`: a
  recompute that fails is logged and not tried again, so a trade can stay
  unreported until something else triggers the portfolio.
* `RiskLive.cfg` with `Repricing = TRUE`: triggers that come faster than the
  delay postpone the recompute for ever, since a `Schedule` restarts the whole
  delay and there is no maximum wait.
* `TradePaging.cfg`, comparing whole lots with their replay where
  `SharesAreReplayed` compares share counts: a restart continues from averages
  rounded to the column's scale where a running worker keeps them unrounded.
* `TradePaging.cfg` with `SharesAreReplayed` of all symbols: a quantity of 1.5 units of
  the column is stored as 2, and a restart goes on from that, although
  `docs/design/LLD.md:566` promises that live state equals replayed state.
* `PriceFeed.cfg` with `MaxNow = 6` and `SkippedPriceIsStored`: a second price of a
  poll interval is dropped as a repetition and remembered as sent, so the log lacks
  it until the deduplication window is over.
* `Watchlist.cfg` with `QuietRowIsWatchlist`: two requests set the list in one
  order and store it in the other; polled and stored list differ with no request
  open.
* `Accounts.cfg` with `RevokeFails = TRUE` and `LogoutIsFinal`: the error of
  `RevokeSession` is dropped and the logout answered with 200.
* `Accounts.cfg` with `Trimmed <- Padded` and `RegisteredCanLogIn`: registration
  trims a password, login does not.
* `ReadPath.cfg`, `ShocksMoveMarksOnly` without its exception `WipedOut`: a shock of
  -100% leaves a mark of zero, which counts as no price, so the loss is missing
  from the unrealised gain.
* `ReadPath.cfg` with `AnswerIsChecked`: `ValidateInsightOutput` is said
  (`internal/ai/validator.go`) to check what is returned to clients, but it reads the raw
  reply, so an escape hides a symbol or a banned phrase that the answer then shows.
* `ReadPath.cfg` with `DefaultsAreAdmitted`: of the paths `used_metrics_fallback.go:8`
  says to satisfy the check, the bare `recent_events` does not, so a reply without paths
  about a portfolio with recent events is refused as `BAD_USED_METRIC`.

The comment at `view.go:155` says that the as-of event mirrors the rows that were
joined. It may be newer: a commit between two statements of a read is enough. That is
why `LineageIsHonest` and `AsOfCoversPositions` ask for a book by the as-of event or
before it.

### Bounds, and why they suffice

* Trades: six requests on two symbols with a retry under a new id, ties in time,
  two sells of which one must be refused, and a sell-out followed by a buy; in
  `TradePaging` six trades of two symbols, one with averages of 50/3 and 70/3 of
  the fine unit, one with a quantity of one and a half units of the column. Arrival in any order up to `Disorder`. Pages of 1, 2 and 3
  events make full, partial and repeated pages occur; the code's 200 differs
  only in length.
* Faults: two in `TradeApply`, so that one falls into the recovery from another,
  one in the larger runs, each of any kind at any step.
* Snapshots: every two events and by timer, so a page yields none, one or two.
* Prices: three days of prices against a window of two, so rows are trimmed and a
  return outlives the close it was computed from; pages of two,
  which ties inside the watermark fill; a close that is stored as zero or as one, so
  that the next price of that symbol has no return or too large a one; and a price
  that fits or does not.
* Risk: three timers of a portfolio, so that one callback runs, a second timer
  was armed meanwhile, and a third is armed after the entry was deleted. A
  `Schedule` that finds no free slot waits; with more commits than slots this
  only delays it. Two trade events suffice to commit the second, lose the answer and
  commit the first again, alone. One portfolio stands for all: portfolios share the listing of
  holders and the scheduler's map, and the proofs are for any number of them.
* Feed: `PriceFeed.cfg` polls one symbol for nine instants at an interval of
  two, so that a price is skipped, dropped, refreshed and lost in a restart
  within one deduplication window (of one interval, and shorter than the run);
  one provider suffices, since keys of two providers never meet.
  `Watchlist.cfg` has two providers, a retry each, two requests open at once
  and one end of the process, at a short clock, since the list does not depend
  on it: the ticker fires once, before or after a cancellation.
* Accounts: three requests with two open, which suffice for two registrations
  to race and a login to use the outcome, or for a session to be created, logged
  out and used again; buckets of two tokens, so that one is emptied and refilled.
* Read path: one request in a behaviour, as requests share nothing but the
  database; it meets any database of two symbols with histories of none, two
  and three days, so nothing is gained by building it up. Commits happen
  between its first and its last read: two of them change both what was read
  and what is read next; while prices are read only prices are committed. `TopN
  = 1` and `Scale = 9` make ties, cuts and rounding occur, shocks reach gains,
  total losses and more than that.
* `MaxTime`, `MaxNow`, `MaxPuts`, `MaxCrashes`, `MaxRequests`, `MaxCommits`,
  `MaxEvents`, `MaxPrices`, `MaxFaults`, `MaxDisruptions` bound the data, the clock, the
  requests, the commits and the failures.

## 5. Proofs

Every invariant that a passing run checks, the type invariant of every state
machine, the refinement and the action properties `PassesRunDown` and `TicksRunDown`
are theorems; each holds for every value of the constants that the named `ASSUME`s
of the module and the hypotheses below admit.
Each proof has the same shape: an invariant, stated as a conjunction of named
parts, holds initially and under every step, and implies the property.

Hypotheses on constants:

| Hypothesis | Meaning | Where |
|---|---|---|
| `AcksArrive` | no incremental commit is reported as failed although it went through | order and exactly-once of both workers, marks, returns |
| `CommitsSucceed` | no incremental batch commit fails, and `AcksArrive` | memory against database, replays, refinement |
| `WindowHoldsTwoDays` | a symbol's returns window is longer than one row (60 in the code, `internal/events/symbol_returns.go:10`) | returns |
| `~RevokeFails` | the update that revokes a session does not fail | logout |
| no padded passwords | trimming a password leaves it as it is | registering, then logging in |

None is more than the code justifies: dropping one is either a run that expects a
violation (`trade_failed_commit`) or a variation of section 4. `AcksArrive` and
`CommitsSucceed` still allow every failure inside a rebuild, lost answers included,
every crash and every failed read, snapshot or dead letter.

`TradeApplyProofs` (any requests, page size, watermark, disorder, age limit,
snapshot policy, fault pattern):

* `TypeCorrect`: types are invariant; no lot goes short, since a sell that is
  not covered changes nothing.
* `OnceAndInOrder` (`AcksArrive`). The invariant adds to the property that the
  cursor in memory is the stored one whenever a pass may rely on it
  (`CursorIsCached`), and that batch and queue lie behind it in key order, the batch
  before the queue (`BatchIsOrdered`).
* `NothingIsSkipped` (no hypothesis). After a lost answer the cursor in memory lags
  behind the stored one and a commit may move the stored one back, so the invariant
  says less about cursors and more about pages: the cursor in memory is at the
  stored one or before it (`CursorLags`), a page leaves nothing out beyond the cursor
  it was read from (`PageIsComplete`, from `EventLogProofs`: a page is downward closed),
  and everything at or before the stored cursor is settled or was overtaken
  (`NothingLost`). `CommitSkipsNothing` is the one step that has something to show:
  what lies between the old stored cursor and the end of the batch is in the batch.
* `PassesEnd` (no hypothesis): every step within a pass takes events off what waits
  beyond the cursor in memory, or off the page, or the batch, or gets on to a later
  stage. It needs that batch and queue lie beyond that cursor (`PageIsAhead`).
* `CacheIsRight` (`CommitsSucceed`). It needs that rows hold what a column can
  hold, that the snapshot at the cursor is the rows, and that the aggregate
  differs from the rows exactly by the batch (`BookAgrees`).
* `SharesStayReplayed`, `VerdictsFollowTheJournal`, `SnapshotsStayReplays`,
  `LedgerIsImplemented` (`CommitsSucceed`, any units of the columns). One invariant, `ReplayInv`,
  serves all four. It is about the journal with the batch in flight appended
  (`Ahead`): the rows agree with the replay of what is settled and the aggregate
  with the replay of `Ahead`; every verdict in `Ahead` is the one the replay before
  it calls for; what is about to be refused is not covered; and every snapshot
  agrees with the replay up to its cursor. To agree (`Agrees`, in the ledger
  `StandsFor`) is to hold the same shares of the `Exact` symbols, and to be equal when
  the units are 1. A column keeps a quantity that is a multiple of its unit,
  sums and differences of such quantities are again multiples (`UnitsAddUp`), and
  whether a sell is covered depends on shares alone, so rounding cannot change a
  verdict on an `Exact` symbol. Of the other symbols the ledger keeps no book. A
  commit then only turns `Ahead` into the journal, and applying a trade in memory
  appends to `Ahead`. The ledger replays a run from the stored book and not from
  nothing, so the lemma that books which agree are brought by the same run to books
  which agree (`RunAgrees`) turns the one into the other. `StepsOfTheLedger` takes
  the steps one by one: `PostTrade` is `Record` or a stutter, the four steps that
  commit are `Settle`, all others stutter.

`PriceApplyProofs` (any prices, window, page, faults):

* `OnceOnly`, `MarksAreNewest` (`AcksArrive`) and `NothingIsSkipped` (no hypothesis)
  rest on the same parts as for trades. A mark is the newest applied price because the batch that
  overwrites it unconditionally lies beyond the cursor.
* `PassesEnd` (no hypothesis): as for trades. A batch that is refused each time ends
  the pass each time (`ReturnRunsDown`), so it stops its own partition only.
* `ReturnsReplayed` (`AcksArrive`, `WindowHoldsTwoDays`): `UpsertIsReplayed` shows that one upsert
  and trim, onto the rows that a set of prices calls for, gives the rows the set with
  one later price calls for; a batch (`BatchIsReplayed`) follows by induction over its length. A
  window of one row would lose the close that a second price of the day needs.

`RiskRecomputeProofs` (any portfolios, symbols, timers, bounds, disruptions):

* `TypeCorrect`, with the one fact about the scheduler's map that survives the
  careless deletion: an entry names a timer that is armed or whose callback has
  not ended.
* `AsOfIsCovered`. For a portfolio that is not in `retried`, the worker has the cursor
  and the positions stored (`WorkersAreInStep`), so a commit, which goes beyond the
  worker's cursor, moves the stored one forward (`CommitMovesOn`); what a callback has
  read stays behind it, and the as-of read last lies between (`ReadsAreCovered`). Of
  the other portfolios only that a row names an event at all (`HasAsOf`).
* `NoTradeIsForgotten`. Inductive with `BookHasCursor` (there are no positions
  without a cursor): a step either keeps the pending timer, hands over to a row,
  or comes with a new timer.
* `NoPriceIsForgotten`. Needs that one price batch is under way at a time and
  that a portfolio with open positions has a cursor (`TriggersAreInTurn`).

`PriceFeedProofs` (any providers, symbols, intervals, windows, clients, restarts):

* `SequencesFollowTime`. A counter lost in a restart cannot repeat a number because
  a row's number is the time of its fetch and nothing of a symbol still to be
  emitted is as new as the fetch under way (`PastRows`).
* `PolledPricesAreStored`. For a symbol polled at one price since some instant, rows
  since then have that price, and an ingest a poll interval or more after it has
  left one (`StreakInv`): two rules against repetition together lose at most that.
* `CleanStatusesAreCurrent`, `WatchlistsAreKept`: what a request without competitors
  has set, read back or stored so far is what it was asked for (`PromiseInv`).

* `TicksEnd`: every step of the runner within a tick moves on to a later provider, to a
  further attempt, within an attempt, or takes a quote off the list; with the bounds
  of `TypeCorrect` a tick has a last step whatever fails.

`AccountsProofs` (any users, tokens, slots, rates):

* `AddressesAreUnique`, `OwnersOnly`: rows are only added and, but for `revoked`,
  never changed (`TablesGrow`), so what an earlier statement found still holds.
* `LogoutHolds` (`~RevokeFails`): a request that came after the logout carries a
  revoked session and stops at `requireAuth`.
* `TrimmedPasswordLogsIn` (no hypothesis) and `RegisteredLogIn` (no padded
  passwords).
* `LimiterBound`: a bucket holds the least that burst and admissions since any
  instant leave (`Balanced`), which gives the upper bound and that a refusal comes
  only at it.

`ReadPathProofs` (any finite set of symbols, histories, pages, shocks, interleaving
of commits): `IInv` says what the tables hold (`BookInv`: rows are those the cursor's
batch left; `MarkInv`: a mark is a quoted price of its event; `DaysInv`: the newest
day is the mark's) and what a request holds at each stage (`PortfolioInv`,
`PriceInv`). From it, by the last step of a request: `AnswersOfOneBook`,
`LineageStaysHonest`, `ShocksMoveOnlyMarks`, `RiskStaysComplete`,
`ExplanationStaysGrounded` and `LaterReadsStayNewer`. They rest on lemmas about the
arithmetic: sums over symbols are monotone, additive and linear (`SumSteps` and
what follows it); in a strict order of n elements the ranks are 0 to n-1
(`RanksCount`), so a page or a top list has the size it should; shocking
one position after the other moves each shocked mark by its own share and no
other (`ShockedMarks`), exactly, since the unit of prices is chosen so
(`ReadAssumption`, `ShockIsExact`); rounded weights sum to one up to half a unit for each position.

Where a lemma needs induction (a sum, a rank, a batch, a replay), it is induction
over the naturals below a bound, for a set instead of a predicate (`UpTo`, from
`LeastNatural`); that a recursive function exists is proved the same way
(`SumSteps`, `AfterSteps`). Lemmas on operators are cited by name: in
`EventLogProofs`, the key order is total on events, pages are downward closed,
eligible prefixes keep that; in `PositionsProofs`, `ApplyTrade` and storing keep
lots well-formed, storing twice is storing once. Assumptions on constants are the
named `ASSUME`s of the modules; TLC evaluates them in every run.

Only model-checked: liveness (`EventuallySettled`, `EveryTradeIsReported`,
`EveryMarkIsReported`, `TickEnds`, `StopEnds`), since the prover has no ENABLED; and
the properties of the violation runs, which are false of the code. Of the safety
halves of the liveness arguments these are proved: that passes and ticks run down (`PassesEnd`,
`TicksEnd`), and that what is not yet reported is pending (`NoTradeIsForgotten`,
`NoPriceIsForgotten`). What remains for TLC is that a step which stays enabled is
taken.

## 6. Not modelled, and what is left to prove

Not modelled:

* Metrics, logging, the web UI, migrations and scripts: no state the rest depends
  on. The constraints that migrations declare are in the statements that meet them.
* Configuration: single numbers clamped at start. They are the constants of the
  modules. Two of its effects span a change of configuration and stay outside: a
  symbol's partition depends on `PRICE_STREAM_SHARD_COUNT`, so after a change old
  and new events of it lie in two partitions; and the poll interval is made safe
  for the number of configured symbols, not for that of the stored watchlist.
* Several partitions of a worker pool side by side: partitions share no memory and
  no row but the scheduler (in `RiskRecompute`); a shard drives its own one after
  the other.
* A trade beyond the columns' range: every commit of its partition fails, which is
  what `PriceApply` checks of a price that does not fit.
* HTTP and JSON of requests, of the market data client and of the model provider;
  their outcomes are choices of the actions that await them.
* The square root, standard deviation and factor of VaR: order and zero are kept,
  digits are not.

Left to prove: that a cancelled runner gets on to the end of its loop (the safety half
of `StopEnds`: which of its steps a cancellation leaves enabled).
