----------------------------- MODULE PriceApply -----------------------------
(***************************************************************************)
(* The price apply path of one synthetic price partition: PriceUpdated     *)
(* events appended while the partition's worker pages through the log and  *)
(* commits marks (prices_projection) and daily closes (symbol_returns).    *)
(*                                                                         *)
(* Unlike the trade worker it keeps nothing but a cursor in memory: the    *)
(* return of a day is computed in the database, from the close before it.  *)
(* The risk trigger after each commit is in RiskRecompute.                 *)
(***************************************************************************)
EXTENDS EventLog, Sequences, SequencesExt

CONSTANTS
  Symbols,
  Requests,      \* The events clients and the feed may post.
  Keys,          \* Idempotency keys.
  DayLength,     \* Instants per UTC day.
  DbUnit,        \* The unit of close_price, in units of the posted price.
  CloseLimit,    \* What price and close_price, numeric(20,8), stay below, in DbUnits.
  ReturnLimit,   \* What daily_return, numeric(20,10), stays below.
  Window,        \* symbolReturnsWindowN.
  Disorder,      \* How far behind the newest event time a request may arrive.
  Watermark,     \* ORDERING_WATERMARK_MS; 0 disables the ordering buffer.
  PageLimit,     \* fetchAfterPageLimit.
  MaxEventAge,   \* Age beyond which an event is dead-lettered; 0 disables it.
  FaultKinds,    \* The failures that may occur, from the set below.
  MaxFaults,     \* Bound on the number of failures and crashes.
  MaxNow         \* Bound on the wall clock.

\* As in TradeApply; "Ack": done, but reported as failed.
AllFaultKinds == {"crash", "read", "apply", "applyAck", "rebuildApplyAck",
                  "dlq", "dlqAck", "rebuildDlqAck"}

\* PriceUpdated envelopes as ValidatePricePayload lets them through.
PriceEvents == [time : Nat \ {0}, id : Nat \ {0}, key : Keys,
                sym : Symbols, price : Nat \ {0}]

ASSUME PricesAssumption ==
  /\ Requests \subseteq PriceEvents
  /\ IsFiniteSet(Requests)
  /\ \A e, f \in Requests : e.id = f.id => e = f
  /\ {DayLength, DbUnit, CloseLimit, ReturnLimit, Window, PageLimit} \subseteq Nat \ {0}
  /\ {Watermark, MaxEventAge, MaxFaults, MaxNow} \subseteq Nat
  /\ Disorder \in Int
  /\ FaultKinds \subseteq AllFaultKinds

VARIABLES
  \* The database.
  log,         \* events: the rows of this partition.
  marks,       \* prices_projection: per symbol the event it was taken from.
  returns,     \* symbol_returns.
  dbCur,       \* projection_cursor.
  settled,     \* What was committed, in order: an event and its verdict.
  \* The worker's memory.
  pc,          \* Where its goroutine is.
  known,       \* Whether the shard's map holds a pricePartitionWorker.
  cur,         \* w.cur.
  rebuilding,  \* Whether the current pass belongs to rebuild.
  maxSeen,     \* MaxEventTime as last read.
  queue,       \* The eligible events still to be looked at.
  okBatch,     \* Collected, not committed yet.
  stale,       \* The head of queue is too old and goes to the DLQ.
  more,        \* Whether pumpAfterCursor goes round again.
  \* The environment.
  now, faults,
  overtaken    \* History variable: arrived behind a fetched or settled event.

database == <<marks, returns, dbCur, settled>>
pass     == <<rebuilding, maxSeen, queue, okBatch, stale, more>>
memory   == <<known, cur>>
world    == <<log, now, overtaken>>
vars     == <<log, marks, returns, dbCur, settled, pc, known, cur, rebuilding,
              maxSeen, queue, okBatch, stale, more, now, faults, overtaken>>

NoEvent == [time |-> 0, id |-> 0]

Entry(e, v) == [event |-> e, verdict |-> v]

-----------------------------------------------------------------------------
(* symbol_returns. A daily return is kept as the pair of closes it is the  *)
(* ratio of; <<>> is NULL.                                                 *)

\* eventUTCDate.
Day(e) == e.time \div DayLength

\* ROUND(price, 8), half away from zero.
StoredClose(price) == (2 * price + DbUnit) \div (2 * DbUnit)

\* The closes a new return of this event is computed against, latest day only.
Previous(rs, e) ==
  {r \in rs : /\ r.sym = e.sym /\ r.day < Day(e)
              /\ \A q \in rs : q.sym = e.sym /\ q.day < Day(e) => q.day <= r.day}

\* computeDailyReturn refuses a previous close of zero.
Computable(rs, e) == \A r \in Previous(rs, e) : r.close > 0

\* Both columns of the row hold the values; numeric overflow is an error.
Storable(rs, e) ==
  /\ StoredClose(e.price) < CloseLimit
  /\ \A r \in Previous(rs, e) : e.price < (ReturnLimit + 1) * DbUnit * r.close

\* Mutant: the return is computed against the newest close of any day.
ReturnOnNewest(rs, e) ==
  LET own == {r \in rs : r.sym = e.sym}
  IN  IF own = {} THEN <<>>
      ELSE <<(CHOOSE r \in own : \A q \in own : q.day <= r.day).close, e.price>>

DailyReturn(rs, e) ==
  IF Previous(rs, e) = {} THEN <<>>
  ELSE <<(CHOOSE r \in Previous(rs, e) : TRUE).close, e.price>>

\* The dates a symbol has rows for.
Days(rs, sym) == {r.day : r \in {q \in rs : q.sym = sym}}

\* Fewer than Window of these days come after the day.
Recent(day, days) == Cardinality({d \in days : d > day}) < Window

\* trimSymbolReturnsWindow.
Trimmed(rs, sym) == {r \in rs : r.sym = sym => Recent(r.day, Days(rs, sym))}

\* Mutant: the window is not trimmed.
UpsertUntrimmed(rs, e) ==
  {r \in rs : r.sym # e.sym \/ r.day # Day(e)}
    \cup {[sym |-> e.sym, day |-> Day(e), close |-> StoredClose(e.price),
           return |-> DailyReturn(rs, e)]}

\* upsertSymbolReturn and the trim that follows it.
UpsertReturn(rs, e) ==
  Trimmed({r \in rs : r.sym # e.sym \/ r.day # Day(e)}
            \cup {[sym |-> e.sym, day |-> Day(e), close |-> StoredClose(e.price),
                   return |-> DailyReturn(rs, e)]},
          e.sym)

\* The table before each upsert of a batch and after the last one.
Upserts(rs, batch) ==
  LET table[i \in 0 .. Len(batch)] ==
        IF i = 0 THEN rs ELSE UpsertReturn(table[i - 1], batch[i])
  IN  table

ReturnsAfter(rs, batch) == Upserts(rs, batch)[Len(batch)]

\* Every return of a batch is computable and every row can be stored.
Succeeds(rs, batch) ==
  \A i \in DOMAIN batch : /\ Computable(Upserts(rs, batch)[i - 1], batch[i])
                          /\ Storable(Upserts(rs, batch)[i - 1], batch[i])

\* The events of a symbol in a batch.
OfSymbol(batch, s) == {i \in DOMAIN batch : batch[i].sym = s}

\* Mutant: a row is only inserted, never updated.
MarksOnce(ms, batch) ==
  [s \in Symbols |-> IF OfSymbol(batch, s) = {} \/ ms[s] # NoEvent THEN ms[s]
                     ELSE batch[Min(OfSymbol(batch, s))]]

\* The upserts of prices_projection: the last event of a symbol wins.
MarksAfter(ms, batch) ==
  [s \in Symbols |-> IF OfSymbol(batch, s) = {} THEN ms[s]
                     ELSE batch[Max(OfSymbol(batch, s))]]

-----------------------------------------------------------------------------
(* The environment.                                                        *)

Fetched == queue \cup ToSet(okBatch)

\* postPrice or the feed, Ingest and Append.
PostPrice(e) ==
  /\ e \notin log
  /\ e.time + Disorder >= MaxEventTime(log)
  /\ log' = AppendEvent(log, e)
  /\ overtaken' =
       IF /\ log' # log
          /\ \/ Before(Key(e), dbCur)
             \/ \E f \in Fetched : Before(Key(e), Key(f))
       THEN overtaken \cup {e} ELSE overtaken
  /\ UNCHANGED <<database, pc, memory, pass, now, faults>>

ClockTicks ==
  /\ now < MaxNow
  /\ now' = now + 1
  /\ UNCHANGED <<log, overtaken, database, pc, memory, pass, faults>>

Fault(kind) ==
  /\ kind \in FaultKinds
  /\ faults < MaxFaults
  /\ faults' = faults + 1

-----------------------------------------------------------------------------
(* Where a pass leads.                                                     *)

ClearPass ==
  /\ queue' = {} /\ okBatch' = <<>> /\ stale' = FALSE
  /\ more' = FALSE /\ maxSeen' = 0

\* A nil return: rebuild is followed by one more pumpAfterCursor.
PassEnds ==
  /\ pc' = IF rebuilding THEN "max" ELSE "idle"
  /\ rebuilding' = FALSE
  /\ ClearPass
  /\ UNCHANGED memory

\* An error return: a worker whose rebuild failed leaves the shard's map.
PassFails ==
  /\ pc' = "idle"
  /\ rebuilding' = FALSE
  /\ ClearPass
  /\ IF rebuilding THEN known' = FALSE /\ cur' = ZeroCursor ELSE UNCHANGED memory

Start ==
  /\ pc = "down"
  /\ pc' = "idle"
  /\ UNCHANGED <<world, database, memory, pass, faults>>

Crash ==
  /\ pc # "down"
  /\ Fault("crash")
  /\ pc' = "down"
  /\ rebuilding' = FALSE
  /\ ClearPass
  /\ known' = FALSE /\ cur' = ZeroCursor
  /\ UNCHANGED <<world, database>>

\* shardTick: the partitions are configured, not discovered.
Tick ==
  /\ pc = "idle"
  /\ pc' = IF known THEN "max" ELSE "rebuild"
  /\ known' = TRUE
  /\ rebuilding' = ~known
  /\ UNCHANGED <<world, database, cur, maxSeen, queue, okBatch, stale, more, faults>>

\* Mutant: a restarted worker goes through the whole log again.
RebuildFromStart ==
  /\ pc = "rebuild"
  /\ cur' = ZeroCursor
  /\ queue' = log
  /\ pc' = "apply"
  /\ UNCHANGED <<world, database, known, rebuilding, maxSeen, okBatch, stale, more, faults>>

\* rebuild: without a cursor the whole log, with no watermark; else the tail.
Rebuild ==
  /\ pc = "rebuild"
  /\ cur' = dbCur
  /\ IF IsZero(dbCur)
     THEN queue' = log /\ pc' = "apply"
     ELSE pc' = "max" /\ UNCHANGED queue
  /\ UNCHANGED <<world, database, known, rebuilding, maxSeen, okBatch, stale, more, faults>>

ReadFails ==
  /\ pc \in {"rebuild", "max", "fetch"}
  /\ Fault("read")
  /\ PassFails
  /\ UNCHANGED <<world, database>>

-----------------------------------------------------------------------------
(* pumpAfterCursor and applyPriceEligible.                                 *)

ReadMaxEventTime ==
  /\ pc = "max"
  /\ maxSeen' = MaxEventTime(log)
  /\ pc' = "fetch"
  /\ UNCHANGED <<world, database, memory, rebuilding, queue, okBatch, stale, more, faults>>

FetchPage ==
  /\ pc = "fetch"
  /\ LET batch    == FetchAfter(log, cur, PageLimit)
         eligible == EligibleBatchAfterWatermark(batch, maxSeen - Watermark,
                                                 Watermark, PageLimit)
     IN  IF eligible = {}
         THEN PassEnds
         ELSE /\ queue' = eligible
              /\ more' = (eligible = batch /\ Cardinality(batch) = PageLimit)
              /\ pc' = "apply"
              /\ UNCHANGED <<memory, rebuilding, maxSeen, okBatch, stale>>
  /\ UNCHANGED <<world, database, faults>>

\* One turn of the loop: collect the event, or stop at one that is too old.
ApplyNext ==
  /\ pc = "apply"
  /\ queue # {}
  /\ LET e == EarliestOf(queue)
     IN  IF TooStaleForApply(e, now, MaxEventAge)
         THEN /\ stale' = TRUE
              /\ pc' = IF okBatch = <<>> THEN "dlq" ELSE "flush"
              /\ UNCHANGED <<okBatch, queue>>
         ELSE /\ okBatch' = Append(okBatch, e)
              /\ queue' = queue \ {e}
              /\ UNCHANGED <<pc, stale>>
  /\ UNCHANGED <<world, database, memory, rebuilding, maxSeen, more, faults>>

\* The loop is over: flush the rest, or return to pumpAfterCursor.
ApplyDone ==
  /\ pc = "apply"
  /\ queue = {}
  /\ IF okBatch # <<>>
     THEN pc' = "flush" /\ UNCHANGED <<memory, pass>>
     ELSE IF more THEN pc' = "max" /\ UNCHANGED <<memory, pass>>
                  ELSE PassEnds
  /\ UNCHANGED <<world, database, faults>>

LastKey == Key(Last(okBatch))

\* The transaction of ApplyPriceBatch.
CommitBatch ==
  /\ marks' = MarksAfter(marks, okBatch)
  /\ returns' = ReturnsAfter(returns, okBatch)
  /\ dbCur' = LastKey
  /\ settled' = settled \o [i \in DOMAIN okBatch |-> Entry(okBatch[i], "APPLIED")]

Flush ==
  /\ pc = "flush"
  /\ Succeeds(returns, okBatch)
  /\ CommitBatch
  /\ cur' = LastKey
  /\ okBatch' = <<>>
  /\ pc' = IF stale THEN "dlq" ELSE "apply"
  /\ UNCHANGED <<world, known, rebuilding, maxSeen, queue, stale, more, faults>>

\* Mutant: the worker moves on from a batch that cannot be committed.
FlushSkips ==
  /\ pc = "flush"
  /\ ~Succeeds(returns, okBatch)
  /\ cur' = LastKey
  /\ okBatch' = <<>>
  /\ pc' = "apply"
  /\ UNCHANGED <<world, database, known, rebuilding, maxSeen, queue, stale, more, faults>>

\* A return that cannot be computed, or a row that cannot be stored, rolls the
\* batch back, this time and next.
FlushRefused ==
  /\ pc = "flush"
  /\ ~Succeeds(returns, okBatch)
  /\ PassFails
  /\ UNCHANGED <<world, database, faults>>

FlushFails ==
  /\ pc = "flush"
  /\ Fault("apply")
  /\ PassFails
  /\ UNCHANGED <<world, database>>

FlushAckLost ==
  /\ pc = "flush"
  /\ Succeeds(returns, okBatch)
  /\ Fault(IF rebuilding THEN "rebuildApplyAck" ELSE "applyAck")
  /\ CommitBatch
  /\ PassFails
  /\ UNCHANGED world

\* The transaction of PersistApplyDLQ.
CommitDLQ ==
  LET e == EarliestOf(queue)
  IN  /\ settled' = Append(settled, Entry(e, "EVENT_TOO_STALE"))
      /\ dbCur' = Key(e)
      /\ UNCHANGED <<marks, returns>>

\* Mutant: pw.cur is not advanced past the dead letter.
DeadLetterKeepsCursor ==
  /\ pc = "dlq"
  /\ CommitDLQ
  /\ queue' = queue \ {EarliestOf(queue)}
  /\ stale' = FALSE
  /\ pc' = "apply"
  /\ UNCHANGED <<world, memory, rebuilding, maxSeen, okBatch, more, faults>>

DeadLetter ==
  /\ pc = "dlq"
  /\ CommitDLQ
  /\ cur' = Key(EarliestOf(queue))
  /\ queue' = queue \ {EarliestOf(queue)}
  /\ stale' = FALSE
  /\ pc' = "apply"
  /\ UNCHANGED <<world, known, rebuilding, maxSeen, okBatch, more, faults>>

DeadLetterFails ==
  /\ pc = "dlq"
  /\ \/ Fault("dlq") /\ UNCHANGED database
     \/ Fault(IF rebuilding THEN "rebuildDlqAck" ELSE "dlqAck") /\ CommitDLQ
  /\ PassFails
  /\ UNCHANGED world

-----------------------------------------------------------------------------

Init ==
  /\ log = {}
  /\ marks = [s \in Symbols |-> NoEvent]
  /\ returns = {}
  /\ dbCur = ZeroCursor
  /\ settled = <<>>
  /\ pc = "down"
  /\ known = FALSE /\ cur = ZeroCursor
  /\ rebuilding = FALSE /\ maxSeen = 0 /\ queue = {} /\ okBatch = <<>>
  /\ stale = FALSE /\ more = FALSE
  /\ now = 0 /\ faults = 0 /\ overtaken = {}

\* The steps the shard's goroutine takes when no call fails.
Worker ==
  \/ Tick \/ Rebuild
  \/ ReadMaxEventTime \/ FetchPage
  \/ ApplyNext \/ ApplyDone
  \/ Flush \/ FlushRefused
  \/ DeadLetter

Failure ==
  \/ Crash \/ ReadFails
  \/ FlushFails \/ FlushAckLost
  \/ DeadLetterFails

Next ==
  \/ \E e \in Requests : PostPrice(e)
  \/ ClockTicks
  \/ Start
  \/ Worker
  \/ Failure

Spec == Init /\ [][Next]_vars

\* The ticker keeps firing while the process is up, and a process that stopped
\* is started again.
FairSpec == Spec /\ WF_vars(Start) /\ WF_vars(Worker)

-----------------------------------------------------------------------------
(* Properties.                                                             *)

TypeOK ==
  /\ log \subseteq Requests
  /\ marks \in [Symbols -> Requests \cup {NoEvent}]
  /\ \A r \in returns : /\ r.sym \in Symbols
                        /\ {r.day, r.close} \subseteq Nat
                        /\ \A q \in returns : q.sym = r.sym /\ q.day = r.day => q = r
  /\ \A s \in Symbols : Cardinality(Days(returns, s)) <= Window
  /\ {dbCur, cur} \subseteq Nat \X Nat
  /\ \A i \in DOMAIN settled : /\ settled[i].event \in log
                               /\ settled[i].verdict \in {"APPLIED", "EVENT_TOO_STALE"}
  /\ pc \in {"down", "idle", "rebuild", "max", "fetch", "apply", "flush", "dlq"}
  /\ {known, rebuilding, stale, more} \subseteq BOOLEAN
  /\ {maxSeen, now, faults} \subseteq Nat
  /\ queue \subseteq log /\ ToSet(okBatch) \subseteq log /\ overtaken \subseteq log

AppliedTo(s) ==
  {settled[i].event : i \in {j \in DOMAIN settled :
                               /\ settled[j].verdict = "APPLIED"
                               /\ settled[j].event.sym = s}}

\* The mark is the newest price: whatever was re-applied after a failure or a
\* restart, a symbol's row holds the applied price with the greatest key,
\* although ApplyPriceBatch overwrites it without comparing.
MarkIsNewest ==
  \A s \in Symbols :
    \/ AppliedTo(s) = {} /\ marks[s] = NoEvent
    \/ marks[s] \in AppliedTo(s)
       /\ \A e \in AppliedTo(s) : e = marks[s] \/ Before(Key(e), Key(marks[s]))

\* The last price of each day, of a set of prices of one symbol.
Closing(prices) ==
  {e \in prices : ~\E f \in prices : Day(f) = Day(e) /\ Before(Key(e), Key(f))}

\* The return of a day, from the closing prices themselves.
ReturnOn(prices, e) ==
  LET earlier == {f \in Closing(prices) : Day(f) < Day(e)}
  IN  IF earlier = {} THEN <<>>
      ELSE <<StoredClose((CHOOSE f \in earlier : \A g \in earlier : Day(g) <= Day(f)).price),
             e.price>>

\* The rows of the newest days.
DailyRows(prices) ==
  {[sym |-> e.sym, day |-> Day(e), close |-> StoredClose(e.price),
    return |-> ReturnOn(prices, e)] :
     e \in {c \in Closing(prices) : Recent(Day(c), {Day(f) : f \in prices})}}

\* Live state equals replayed state (LLD 14): whatever the batches were and
\* wherever the worker was restarted, symbol_returns holds the newest days'
\* closing prices, each with its return on the day with prices before it, that
\* day's row trimmed or not.
ReturnsAreReplayed ==
  \A s \in Symbols : {r \in returns : r.sym = s} = DailyRows(AppliedTo(s))

\* Restarts and half-finished batches do not apply a price twice: each is
\* committed at most once, applied or dead-lettered.
EachPriceOnce ==
  \A i, j \in DOMAIN settled : settled[i].event = settled[j].event => i = j

\* No price is stepped over, also when a batch cannot be committed at all: at or
\* behind the cursor every price has a verdict, unless it arrived behind one
\* that was already fetched or committed.
NoPriceIsSkipped ==
  \A e \in log : \/ Before(dbCur, Key(e))
                 \/ e \in overtaken
                 \/ \E i \in DOMAIN settled : settled[i].event = e

InPass == {"max", "fetch", "apply", "flush", "dlq"}

\* Beyond the cursor in memory and not fetched yet.
Unfetched == Beyond(log, cur) \ Fetched

\* What is left of a round, when neither its page nor its batch has changed.
Stage == CASE pc = "apply" -> 2 [] pc = "fetch" -> 0 [] OTHER -> 1

Shrinks(new, old) == new \subseteq old /\ new # old

\* Less to do than before: the pass after a rebuild, prices to fetch, prices
\* fetched, a batch to commit, steps of the round.
RunsDown ==
  \/ rebuilding /\ ~rebuilding'
  \/ /\ UNCHANGED rebuilding
     /\ \/ Shrinks(Unfetched', Unfetched)
        \/ UNCHANGED Unfetched /\ Shrinks(queue', queue)
        \/ UNCHANGED <<Unfetched, queue>> /\ okBatch # <<>> /\ okBatch' = <<>>
        \/ UNCHANGED <<Unfetched, queue, okBatch>> /\ Stage' < Stage

\* One partition does not keep the goroutine of its shard from the others: every
\* step of a pass leaves less of it, also behind a batch that is refused each
\* time, which ends the pass and does not start the page over.
PassesRunDown == [][({pc, pc'} \subseteq InPass /\ UNCHANGED world) => RunsDown]_vars

\* computeDailyReturn's precondition: "prev close must be > 0".
ClosesArePositive == \A r \in returns : r.close > 0

\* The prices that wait for a verdict.
Waiting == {e \in log \ overtaken : \A i \in DOMAIN settled : settled[i].event # e}

\* The return on an earlier day's price is not computed, its close being zero,
\* or not held by the column.
BadReturn(e, f) ==
  /\ f.sym = e.sym /\ Day(f) < Day(e)
  /\ e.price >= (ReturnLimit + 1) * DbUnit * StoredClose(f.price)

\* An accepted price may stop the partition: its batch is refused each time.
MayBeRefused ==
  \E e \in log : StoredClose(e.price) >= CloseLimit \/ \E f \in log : BadReturn(e, f)

\* A full page of which nothing has cleared the watermark: it is not released,
\* and what is behind it is not fetched.
Stranded ==
  LET page == FetchAfter(log, dbCur, PageLimit)
  IN  /\ Cardinality(page) = PageLimit
      /\ EligiblePrefix(page, MaxEventTime(log) - Watermark) = {}

\* Every accepted price is applied or dead-lettered in the end, unless it
\* arrived behind the cursor.  Two things may bring the partition to a stand:
\* a price that cannot be stored, and a page filled by prices inside the
\* watermark, until newer ones arrive.  No failure is for good.
EventuallySettled == []<>(Waiting = {} \/ MayBeRefused \/ Stranded)
=============================================================================
