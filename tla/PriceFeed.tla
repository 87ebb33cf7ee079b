------------------------------ MODULE PriceFeed ------------------------------
(***************************************************************************)
(* The automated price feed of one process and the watchlist it polls: the *)
(* runner that fetches quotes on every tick of its ticker, with retries and *)
(* failover, and appends them as PriceUpdated events; the requests that    *)
(* replace the watchlist in memory and store it; restarts, which keep the  *)
(* log and the stored row and nothing else.                                *)
(*                                                                         *)
(* Time is counted in instants shorter than the poll interval and longer   *)
(* than the clock's resolution: two fetches never end at the same instant. *)
(***************************************************************************)
EXTENDS EventLog, Sequences, SequencesExt

CONSTANTS
  Symbols,
  Canonical,     \* Spelling in a request -> symbol, "" for a blank one.
  Lists,         \* The watchlists clients may put, as they spell them.
  ConfigList,    \* PRICE_FEED_SYMBOLS.
  Prices,        \* What a provider may quote; 0 does not validate.
  Providers,     \* In the order of preference.
  Clients,       \* Requests for the watchlist that may be open at once.
  Interval, DedupWindow, MaxQuoteAge, MaxRetries,
  Switchable,    \* Whether a restart may change PRICE_FEED_ENABLED.
  MaxPuts,       \* Bound on the requests for the watchlist.
  MaxCrashes,    \* Bound on crashes and stops.
  MaxNow         \* Bound on the clock.

NoRow == <<"no row">>

ASSUME FeedAssumption ==
  /\ Canonical \in [DOMAIN Canonical -> Symbols \cup {""}]
  /\ {"", "no row"} \cap Symbols = {}
  /\ Lists \cup {ConfigList} \subseteq Seq(DOMAIN Canonical)
  /\ Prices \subseteq Nat
  /\ Providers \in Seq(STRING) /\ Len(Providers) > 0
  /\ Interval \in Nat \ {0}
  /\ {DedupWindow, MaxQuoteAge, MaxRetries, MaxPuts, MaxCrashes, MaxNow} \subseteq Nat
  /\ Switchable \in BOOLEAN

VARIABLES
  \* The database.
  log,         \* The PriceUpdated events of the feed.
  row,         \* app_settings: the stored watchlist, or NoRow.
  \* The runner, a goroutine of the process.
  pc,          \* Where it is; "off" when the feed is not enabled.
  cancelled,   \* Whether feedCancel has been called.
  provider, attempt, want,  \* Of the fetch: whom, how often, which symbols.
  quotes,      \* The quotes of this tick still to be emitted.
  asOf,        \* When they were fetched.
  nextFire,    \* When the ticker fires next; 0 before it is created.
  symbols,     \* PriceIngestor.symbols.
  lastSeq,     \* PriceIngestor.lastSeq, 0 for no entry.
  dedup,       \* PriceIngestor.dedup; lastSeen is 0 for no entry.
  status,      \* RuntimeTracker: start and success of ticks, and the error.
  \* The requests.
  put,
  \* The environment.
  now, puts, crashes,
  \* History variables.
  steady,      \* Since when the polls of a symbol have found the same price.
  promise      \* The list of the last request that was answered undisturbed.

fetch   == <<provider, attempt, want>>
tick    == <<provider, attempt, want, quotes, asOf>>
caches  == <<lastSeq, dedup, steady>>
world   == <<now, crashes>>
webSide == <<row, symbols, put, puts, promise>>
vars    == <<log, row, pc, cancelled, provider, attempt, want, quotes, asOf, nextFire,
             symbols, lastSeq, dedup, status, put, now, puts, crashes, steady, promise>>

Idle      == [at |-> "idle", list |-> <<>>, alone |-> FALSE]
Unpolled  == [price |-> 0, since |-> 0, last |-> 0]
NoStatus  == [started |-> 0, success |-> 0, error |-> FALSE]
NoPromise == NoRow

\* The entries of a list at these places, in their order.
At(list, places) ==
  LET upto[n \in 0..Len(list)] ==
        IF n = 0 THEN <<>>
        ELSE IF n \in places THEN Append(upto[n - 1], list[n]) ELSE upto[n - 1]
  IN  upto[Len(list)]

\* normalizeSymbols: upper case, trimmed, without blanks and repetitions.
NormalizeSymbols(list) ==
  LET canon == [i \in DOMAIN list |-> Canonical[list[i]]]
  IN  At(canon, {i \in DOMAIN canon :
                   canon[i] # "" /\ \A j \in DOMAIN canon : j < i => canon[j] # canon[i]})

-----------------------------------------------------------------------------
(* The process.                                                            *)

\* run: the stored watchlist, if there is one, replaces the configured one.
Start(enabled) ==
  /\ pc = "down"
  /\ enabled \/ Switchable
  /\ pc' = IF enabled THEN "tick" ELSE "off"
  /\ symbols' = CASE ~enabled   -> <<>>
                  [] row = NoRow -> NormalizeSymbols(ConfigList)
                  [] OTHER      -> row
  /\ UNCHANGED <<log, row, cancelled, tick, nextFire, caches, status,
                 put, puts, promise, world>>

\* What a process leaves behind: the database and its environment.
Vanish ==
  /\ pc' = "down" /\ cancelled' = FALSE
  /\ provider' = 1 /\ attempt' = 0 /\ want' = <<>> /\ quotes' = <<>>
  /\ nextFire' = 0
  /\ symbols' = <<>>
  /\ lastSeq' = [s \in Symbols |-> 0]
  /\ dedup' = [s \in Symbols |-> [price |-> 0, lastSeen |-> 0]]
  /\ status' = NoStatus
  /\ put' = [c \in Clients |-> Idle]
  /\ UNCHANGED <<log, row, asOf, now, puts, steady, promise>>

Crash ==
  /\ pc # "down"
  /\ crashes < MaxCrashes
  /\ crashes' = crashes + 1
  /\ Vanish

\* SIGTERM: the feed is cancelled and awaited, then the server.
Terminate ==
  /\ pc # "down" /\ ~cancelled
  /\ crashes < MaxCrashes
  /\ crashes' = crashes + 1
  /\ cancelled' = TRUE
  /\ UNCHANGED <<log, pc, tick, nextFire, caches, status, webSide, now>>

\* Mutant: the process waits for a feed it never started.
ExitAfterFeed ==
  /\ cancelled
  /\ pc = "ended"
  /\ \A c \in Clients : put[c].at = "idle"
  /\ Vanish
  /\ UNCHANGED crashes

\* server.Shutdown returns when the open requests are answered.
Exit ==
  /\ cancelled
  /\ pc \in {"off", "ended"}
  /\ \A c \in Clients : put[c].at = "idle"
  /\ Vanish
  /\ UNCHANGED crashes

ClockTicks ==
  /\ now < MaxNow
  /\ now' = now + 1
  /\ UNCHANGED <<log, pc, cancelled, tick, nextFire, caches, status, webSide, crashes>>

-----------------------------------------------------------------------------
(* The runner: fetchWithFailover.                                          *)

\* The first attempt at the i-th provider, on the symbols as they are then.
Ask(i) ==
  /\ provider' = i /\ attempt' = 0 /\ want' = symbols
  /\ pc' = "fetch"

BeginTick ==
  /\ pc = "tick"
  /\ status' = [status EXCEPT !.started = now]
  /\ Ask(1)
  /\ UNCHANGED <<log, cancelled, quotes, asOf, nextFire, caches, webSide, world>>

\* Start after a tick: the first one is followed by the creation of the ticker,
\* whatever its outcome; a later one that was cancelled ends the loop.
AfterTick(wasCancelled) ==
  /\ pc' = IF wasCancelled /\ nextFire > 0 THEN "ended" ELSE "wait"
  /\ nextFire' = IF nextFire = 0 THEN now + Interval ELSE nextFire

\* FetchQuotes succeeds, perhaps with quotes for some of the symbols only.
FetchSucceeds ==
  /\ pc = "fetch" /\ ~cancelled
  /\ now > asOf
  /\ \E got \in SUBSET ToSet(want) \ {{}} :
       LET answered == At(want, {i \in DOMAIN want : want[i] \in got})
       IN  \E price \in [got -> Prices] :
             quotes' = [i \in DOMAIN answered |->
                          [sym |-> answered[i], price |-> price[answered[i]]]]
  /\ asOf' = now
  /\ pc' = "emit"
  /\ UNCHANGED <<log, cancelled, fetch, nextFire, caches, status, webSide, world>>

\* A transport error, 429 or 5xx with attempts left; a cancelled request too.
FetchIsRetried ==
  /\ pc = "fetch"
  /\ want # <<>>
  /\ attempt < MaxRetries
  /\ pc' = "backoff"
  /\ UNCHANGED <<log, cancelled, tick, nextFire, caches, status, webSide, world>>

\* Mutant: the retries are not counted.
BackoffUncounted ==
  /\ pc = "backoff" /\ ~cancelled
  /\ pc' = "fetch"
  /\ UNCHANGED <<log, cancelled, tick, nextFire, caches, status, webSide, world>>

\* sleepBackoff, when it is not cancelled.
Backoff ==
  /\ pc = "backoff" /\ ~cancelled
  /\ attempt' = attempt + 1
  /\ pc' = "fetch"
  /\ UNCHANGED <<log, cancelled, provider, want, quotes, asOf, nextFire, caches,
                 status, webSide, world>>

\* Mutant: a failed tick is not noted.
ProviderFailsUnnoted ==
  /\ pc \in {"fetch", "backoff"}
  /\ pc = "backoff" => cancelled
  /\ provider = Len(Providers)
  /\ AfterTick(cancelled)
  /\ UNCHANGED <<log, cancelled, tick, caches, status, webSide, world>>

\* The last attempt, an error that is not retried (no symbols, 4xx, an answer
\* without quotes) or a cancelled backoff: the next provider, or OnTickFailure.
\* The error of a cancelled fetch need not be context.Canceled.
ProviderFails ==
  /\ pc \in {"fetch", "backoff"}
  /\ pc = "backoff" => cancelled
  /\ IF provider < Len(Providers)
     THEN /\ Ask(provider + 1)
          /\ UNCHANGED <<nextFire, status>>
     ELSE /\ status' = [status EXCEPT !.error = TRUE]
          /\ \E seen \in {FALSE, cancelled} : AfterTick(seen)
          /\ UNCHANGED fetch
  /\ UNCHANGED <<log, cancelled, quotes, asOf, caches, webSide, world>>

-----------------------------------------------------------------------------
(* The runner: emitQuote.                                                  *)

Bucket(t) == t \div Interval

Unchanged(q) ==
  LET prev == dedup[q.sym]
  IN  prev.lastSeen > 0 /\ asOf - prev.lastSeen <= DedupWindow /\ prev.price = q.price

\* shouldDedup.
ShouldDedup(q) == DedupWindow > 0 /\ Unchanged(q)

TooOld == MaxQuoteAge > 0 /\ now - asOf > MaxQuoteAge

\* Mutant: a counter of the process alone.
NextOfProcess(s) == lastSeq[s] + 1

\* nextMonotonicSequence; the candidate is the time of the fetch.
NextMonotonicSequence(s) == IF asOf <= lastSeq[s] THEN lastSeq[s] + 1 ELSE asOf

PriceEvent(q) ==
  [key |-> <<Providers[provider], q.sym, Bucket(asOf)>>, sym |-> q.sym, time |-> asOf,
   price |-> q.price, seq |-> NextMonotonicSequence(q.sym)]

\* The polls of a symbol that were answered with the same price and emitted.
Steadied(q) ==
  IF steady[q.sym].last > 0 /\ steady[q.sym].price = q.price
  THEN [steady[q.sym] EXCEPT !.last = asOf]
  ELSE [price |-> q.price, since |-> asOf, last |-> asOf]

\* emitQuote returned: on with the rest of the tick.
Emitted(nextSteady) ==
  LET s == Head(quotes).sym
  IN  /\ quotes' = Tail(quotes)
      /\ steady' = [steady EXCEPT ![s] = nextSteady]
      /\ UNCHANGED <<pc, cancelled, fetch, asOf, nextFire, status, webSide, world>>

EmitsNext == pc = "emit" /\ quotes # <<>>

DropStaleQuote ==
  /\ EmitsNext /\ TooOld
  /\ Emitted(Unpolled)
  /\ UNCHANGED <<log, lastSeq, dedup>>

\* Mutant: every quote that was looked at counts as seen.
SkipRefreshes ==
  /\ EmitsNext /\ ~TooOld
  /\ ShouldDedup(Head(quotes))
  /\ Emitted(Steadied(Head(quotes)))
  /\ dedup' = [dedup EXCEPT ![Head(quotes).sym].lastSeen = asOf]
  /\ UNCHANGED <<log, lastSeq>>

SkipUnchanged ==
  /\ EmitsNext /\ ~TooOld
  /\ ShouldDedup(Head(quotes))
  /\ Emitted(Steadied(Head(quotes)))
  /\ UNCHANGED <<log, lastSeq, dedup>>

\* The sequence number is taken before Ingest and not given back.
TakeSequence(s) == lastSeq' = [lastSeq EXCEPT ![s] = NextMonotonicSequence(s)]

Reaches == EmitsNext /\ ~TooOld /\ ~ShouldDedup(Head(quotes))

\* Ingest and recordDedup, whether a row was inserted or the key was taken.
IngestQuote ==
  /\ Reaches
  /\ LET q == Head(quotes)
     IN  /\ q.price > 0
         /\ log' = AppendEvent(log, PriceEvent(q))
         /\ TakeSequence(q.sym)
         /\ dedup' = IF DedupWindow > 0
                     THEN [dedup EXCEPT ![q.sym] = [price |-> q.price, lastSeen |-> asOf]]
                     ELSE dedup
         /\ Emitted(Steadied(q))

\* The quote does not validate, or Append fails (perhaps after its commit):
\* logged, and on to the next quote.
IngestFails ==
  /\ Reaches
  /\ LET q == Head(quotes)
     IN  /\ \/ UNCHANGED log
            \/ q.price > 0 /\ log' = AppendEvent(log, PriceEvent(q))
         /\ TakeSequence(q.sym)
         /\ Emitted(Unpolled)
  /\ UNCHANGED dedup

\* The cancelled context reached Append: the tick ends without a status.
IngestIsCancelled ==
  /\ Reaches /\ cancelled
  /\ TakeSequence(Head(quotes).sym)
  /\ steady' = [steady EXCEPT ![Head(quotes).sym] = Unpolled]
  /\ quotes' = <<>>
  /\ AfterTick(TRUE)
  /\ UNCHANGED <<log, cancelled, fetch, asOf, dedup, status, webSide, world>>

TickSucceeds ==
  /\ pc = "emit" /\ quotes = <<>>
  /\ status' = [status EXCEPT !.success = now, !.error = FALSE]
  /\ AfterTick(FALSE)
  /\ UNCHANGED <<log, cancelled, tick, caches, webSide, world>>

\* The select of Start. A ticker keeps one tick for a slow receiver and drops
\* the others; it stays on its grid.
TickerFires ==
  /\ pc = "wait" /\ nextFire <= now
  /\ nextFire' = now + Interval - ((now - nextFire) % Interval)
  /\ pc' = "tick"
  /\ UNCHANGED <<log, cancelled, tick, caches, status, webSide, world>>

LoopEnds ==
  /\ pc = "wait" /\ cancelled
  /\ pc' = "ended"
  /\ UNCHANGED <<log, cancelled, tick, nextFire, caches, status, webSide, world>>

-----------------------------------------------------------------------------
(* PUT /v1/price-feed/watchlist.                                           *)

Serving == pc # "down" /\ ~(cancelled /\ pc \in {"off", "ended"})

\* SetWatchlist; on the nil runner of a process without a feed it does nothing.
PutSets(c, list) ==
  /\ Serving /\ put[c].at = "idle" /\ puts < MaxPuts
  /\ puts' = puts + 1
  /\ symbols' = IF pc = "off" THEN symbols ELSE NormalizeSymbols(list)
  /\ put' = [d \in Clients |->
               IF d = c
               THEN [at |-> "set", list |-> <<>>,
                     alone |-> pc # "off" /\ \A o \in Clients : put[o].at = "idle"]
               ELSE [put[d] EXCEPT !.alone = FALSE]]
  /\ promise' = NoPromise
  /\ UNCHANGED <<log, row, pc, cancelled, tick, nextFire, caches, status, world>>

\* Watchlist: another request may have set it since.
PutReads(c) ==
  /\ put[c].at = "set"
  /\ put' = [put EXCEPT ![c].at = "read", ![c].list = symbols]
  /\ UNCHANGED <<log, row, pc, cancelled, tick, nextFire, symbols, caches, status,
                 puts, promise, world>>

\* Mutant: the row is written once and kept.
PutStoresOnce(c) ==
  /\ put[c].at = "read"
  /\ row' = IF row = NoRow THEN put[c].list ELSE row
  /\ promise' = IF put[c].alone THEN put[c].list ELSE promise
  /\ put' = [put EXCEPT ![c] = Idle]
  /\ UNCHANGED <<log, pc, cancelled, tick, nextFire, symbols, caches, status, puts, world>>

\* UpsertPriceFeedWatchlist and the answer 200.
PutStores(c) ==
  /\ put[c].at = "read"
  /\ row' = put[c].list
  /\ promise' = IF put[c].alone THEN put[c].list ELSE promise
  /\ put' = [put EXCEPT ![c] = Idle]
  /\ UNCHANGED <<log, pc, cancelled, tick, nextFire, symbols, caches, status, puts, world>>

\* An answer of 500, whether the row was written or not.
PutFails(c) ==
  /\ put[c].at = "read"
  /\ row' \in {row, put[c].list}
  /\ put' = [put EXCEPT ![c] = Idle]
  /\ UNCHANGED <<log, pc, cancelled, tick, nextFire, symbols, caches, status,
                 puts, promise, world>>

-----------------------------------------------------------------------------
Init ==
  /\ log = {} /\ row = NoRow
  /\ pc = "down" /\ cancelled = FALSE
  /\ provider = 1 /\ attempt = 0 /\ want = <<>> /\ quotes = <<>> /\ asOf = 0
  /\ nextFire = 0
  /\ symbols = <<>>
  /\ lastSeq = [s \in Symbols |-> 0]
  /\ dedup = [s \in Symbols |-> [price |-> 0, lastSeen |-> 0]]
  /\ status = NoStatus
  /\ put = [c \in Clients |-> Idle]
  /\ now = 1 /\ puts = 0 /\ crashes = 0
  /\ steady = [s \in Symbols |-> Unpolled]
  /\ promise = NoPromise

RunnerSteps ==
  \/ BeginTick \/ FetchSucceeds \/ FetchIsRetried \/ Backoff \/ ProviderFails
  \/ DropStaleQuote \/ SkipUnchanged \/ IngestQuote \/ IngestFails
  \/ IngestIsCancelled \/ TickSucceeds \/ TickerFires

RequestSteps == \E c \in Clients : PutReads(c) \/ PutStores(c) \/ PutFails(c)

Next ==
  \/ \E enabled \in BOOLEAN : Start(enabled)
  \/ Crash \/ Terminate \/ Exit \/ ClockTicks
  \/ RunnerSteps \/ LoopEnds
  \/ RequestSteps
  \/ \E c \in Clients, list \in Lists : PutSets(c, list)

Spec == Init /\ [][Next]_vars

\* The goroutines run and the calls they make return. The select of Start
\* chooses at random, so a cancelled loop does not take its ticker for ever.
FairSpec ==
  /\ Spec
  /\ WF_vars(RunnerSteps) /\ WF_vars(RequestSteps) /\ WF_vars(Exit)
  /\ SF_vars(LoopEnds)

-----------------------------------------------------------------------------
TypeOK ==
  /\ pc \in {"down", "off", "tick", "fetch", "backoff", "emit", "wait", "ended"}
  /\ cancelled \in BOOLEAN
  /\ provider \in 1..Len(Providers) /\ attempt \in 0..MaxRetries
  /\ {now, asOf, nextFire, puts, crashes} \subseteq Nat
  /\ row = NoRow \/ row \in Seq(Symbols)
  /\ {symbols, want} \subseteq Seq(Symbols)
  /\ quotes \in Seq([sym : Symbols, price : Nat])
  /\ lastSeq \in [Symbols -> Nat]
  /\ dedup \in [Symbols -> [price : Nat, lastSeen : Nat]]
  /\ steady \in [Symbols -> [price : Nat, since : Nat, last : Nat]]
  /\ status \in [started : Nat, success : Nat, error : BOOLEAN]
  /\ put \in [Clients -> [at : {"idle", "set", "read"}, list : Seq(Symbols),
                          alone : BOOLEAN]]
  /\ promise = NoPromise \/ promise \in Seq(Symbols)
  /\ log \subseteq [key : ToSet(Providers) \X Symbols \X Nat, sym : Symbols,
                     time : Nat, price : Nat, seq : Nat]

\* The rows of a symbol that no other row of it is newer than.
Newest(s) ==
  {e \in log : e.sym = s /\ \A f \in log : f.sym = s => f.time <= e.time}

\* A price that the provider keeps quoting reaches the log, although an equal
\* price is skipped for a while, and a different one in the same poll interval
\* is dropped as a repetition and then remembered as sent.
PolledPriceIsStored ==
  \A s \in Symbols :
    steady[s].last - steady[s].since > DedupWindow + Interval =>
      \A e \in Newest(s) : e.price = steady[s].price

\* Source sequences grow with the time of the quotes, across restarts, which
\* lose the counters.
SequenceFollowsTime ==
  \A e, f \in log : e.sym = f.sym /\ e.time < f.time => e.seq < f.seq

\* The symbols polled and the stored row are the list of the last request that
\* was answered without another request, a failure or a stop in between: until
\* the next request, in this process and in those after it.
WatchlistIsKept ==
  promise # NoPromise =>
    /\ row = promise
    /\ pc \notin {"down", "off"} => symbols = promise

\* A status without an error speaks of the last tick: it was a success.
CleanStatusIsCurrent ==
  pc = "wait" /\ ~cancelled /\ ~status.error => status.success >= status.started

\* A tick ends, however often its providers fail.
TickEnds == [](pc \in {"tick", "fetch", "backoff", "emit"} =>
               <>(pc \in {"down", "wait", "ended"}))

InTick == {"tick", "fetch", "backoff", "emit"}

\* What is left of a provider's turn, as long as the attempt is the same.
Turn == CASE pc = "fetch" -> 2 [] pc = "backoff" -> 1 [] OTHER -> 0

\* Less to do than before: providers to ask, attempts left, steps of an attempt,
\* quotes to emit.
RunsDown ==
  \/ pc = "tick"
  \/ provider' > provider
  \/ UNCHANGED provider /\ attempt' > attempt
  \/ UNCHANGED <<provider, attempt>> /\ Turn' < Turn
  \/ UNCHANGED <<provider, attempt, pc>> /\ Len(quotes') < Len(quotes)

\* No tick is retried for ever and none begins again: every step of the runner
\* within a tick leaves less of it, whatever fails; at most Len(Providers)
\* providers are asked, each at most MaxRetries + 1 times (TypeOK).
TicksRunDown ==
  [][({pc, pc'} \subseteq InTick /\ UNCHANGED <<webSide, world>>)
       => RunsDown /\ pc' # "tick"]_vars

\* A process that was told to stop does, also in the middle of a tick.
StopEnds == [](cancelled => <>(pc = "down"))

\* What a nil watchlist manager is answered with (price_read_handler.go:292):
\* a process without a feed leaves the watchlist alone that one with a feed has
\* stored.
UnavailableWatchlistIsLeftAlone ==
  [][(pc = "off" /\ row # NoRow) => UNCHANGED row]_vars

\* DedupWindow skips unchanged prices (runner.go:33): what is skipped or taken
\* is what the log has.
SkippedPriceIsStored ==
  \A s \in Symbols :
    steady[s].last > 0 => \A e \in Newest(s) : e.price = steady[s].price

\* PriceFeedWatchlistStore persists changes (router.go:56): after the last
\* open request the row is the watchlist.
QuietRowIsWatchlist ==
  (pc \notin {"down", "off"} /\ \A c \in Clients : put[c].at = "idle") =>
    (row # NoRow => row = symbols)
=============================================================================
