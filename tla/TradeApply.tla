----------------------------- MODULE TradeApply -----------------------------
(***************************************************************************)
(* The trade apply path of one portfolio: requests appended to the events  *)
(* table while the partition worker of that portfolio rebuilds, pages      *)
(* through the log, applies trades to its in-memory aggregate, commits     *)
(* batches and dead letters, and writes snapshots; with process crashes    *)
(* and failing database calls in between.                                  *)
(*                                                                         *)
(* Portfolios share nothing but the goroutine that drives them (see        *)
(* WorkerPool in the README), so one partition stands for all.             *)
(***************************************************************************)
EXTENDS EventLog, Positions, Sequences

CONSTANTS
  MaxTime,        \* The last instant a timestamp column can hold.
  Requests,       \* The events clients may post: validated trades.
  Keys,           \* Idempotency keys.
  Disorder,       \* How far behind the newest event time a request may arrive.
  Watermark,      \* ORDERING_WATERMARK_MS; 0 disables the ordering buffer.
  PageLimit,      \* fetchAfterPageLimit.
  MaxEventAge,    \* Age beyond which an event is dead-lettered; 0 disables it.
  SnapshotEvery,  \* SNAPSHOT_EVERY_N_EVENTS; 0 disables it.
  SnapshotTimer,  \* Whether SNAPSHOT_MIN_INTERVAL_SEC is set.
  FaultKinds,     \* The failures that may occur, from the set below.
  MaxFaults,      \* Bound on the number of failures and crashes.
  MaxNow          \* Bound on the wall clock.

\* A call may fail with nothing done; a commit may also be lost on the way
\* back ("Ack"): done, but reported as failed.
AllFaultKinds == {"crash", "read", "apply", "applyAck",
                  "rebuildApply", "rebuildApplyAck",
                  "dlq", "dlqAck", "rebuildDlqAck", "snapshot", "snapshotAck"}

\* TradeExecuted envelopes as ValidateEventEnvelope and ValidateTradePayload
\* let them through: non-zero time and id, positive quantity and price.
TradeEvents ==
  [time : 1 .. MaxTime, id : Nat \ {0}, key : Keys, sym : Symbols,
   side : {"BUY", "SELL"}, qty : Nat \ {0}, price : Nat \ {0}]

\* Event ids are fresh UUIDs; the time is the client's or the server's clock.
ASSUME RequestsAssumption ==
  /\ IsFiniteSet(Requests)
  /\ Requests \subseteq TradeEvents
  /\ \A e, f \in Requests : e.id = f.id => e = f

ASSUME ParametersAssumption ==
  /\ Disorder \in Int
  /\ {Watermark, MaxEventAge, SnapshotEvery, MaxFaults, MaxNow, MaxTime}
       \subseteq Nat
  /\ PageLimit \in Nat \ {0}
  /\ SnapshotTimer \in BOOLEAN
  /\ FaultKinds \subseteq AllFaultKinds

VARIABLES
  \* The database.
  log,            \* events: the rows of this partition.
  positions,      \* positions_projection.
  dbCur,          \* projection_cursor.
  snapshots,      \* portfolio_snapshots.
  settled,        \* What was committed, in order: an event and its verdict.
                  \* The entries that are not "APPLIED" are the rows of
                  \* dlq_events; the others are a history variable.
  \* The worker's memory.
  pc,             \* Where its goroutine is.
  known,          \* Whether the shard's map holds a partitionWorker.
  agg,            \* pw.agg.
  cur,            \* pw.cur.
  rebuilding,     \* Whether the current pass belongs to rebuild.
  maxSeen,        \* MaxEventTime as last read.
  queue,          \* The eligible events still to be looked at.
  okBatch,        \* Applied in memory, not committed yet.
  verdict,        \* Why the event at the head of queue goes to the DLQ.
  more,           \* Whether pumpAfterCursor goes round again.
  sinceSnapshot,  \* pw.eventsAppliedSinceSnapshot.
  \* The environment.
  now,            \* The wall clock.
  faults,         \* Failures and crashes so far.
  overtaken       \* History variable: the events that arrived behind an event
                  \* the worker had fetched or settled.

database == <<positions, dbCur, snapshots, settled>>
pass     == <<rebuilding, maxSeen, queue, okBatch, verdict, more>>
memory   == <<known, agg, cur, sinceSnapshot>>
world    == <<log, now, overtaken>>
vars     == <<log, positions, dbCur, snapshots, settled, pc, known, agg, cur,
              rebuilding, maxSeen, queue, okBatch, verdict, more, sinceSnapshot,
              now, faults, overtaken>>

Verdicts == {"APPLIED", "EVENT_TOO_STALE", "POSITION_UNDERFLOW"}

Entry(e, v) == [event |-> e, verdict |-> v]

Batched == {okBatch[i] : i \in DOMAIN okBatch}

\* The events of the current page that are not committed yet.
Fetched == queue \cup Batched

-----------------------------------------------------------------------------
(* The environment: clients, the clock, failures.                          *)

\* postTrade, Ingest and Append: a duplicate key returns the existing row.
PostTrade(e) ==
  /\ e \notin log
  /\ e.time + Disorder >= MaxEventTime(log)
  /\ log' = AppendEvent(log, e)
  /\ overtaken' =
       IF /\ log' # log
          /\ \/ Before(Key(e), dbCur)
             \/ \E f \in Fetched : Before(Key(e), Key(f))
       THEN overtaken \cup {e} ELSE overtaken
  /\ UNCHANGED <<database, pc, memory, pass, now, faults>>

ClockTicks ==
  /\ now < MaxNow
  /\ now' = now + 1
  /\ UNCHANGED <<log, overtaken, database, pc, memory, pass, faults>>

Fault(kind) ==
  /\ kind \in FaultKinds
  /\ faults < MaxFaults
  /\ faults' = faults + 1

-----------------------------------------------------------------------------
(* Where a pass leads: the returns of the functions of the worker.         *)

ClearPass ==
  /\ queue' = {}
  /\ okBatch' = <<>>
  /\ verdict' = "APPLIED"
  /\ more' = FALSE
  /\ maxSeen' = 0

ForgetWorker ==
  /\ known' = FALSE
  /\ agg' = NoPositions
  /\ cur' = ZeroCursor
  /\ sinceSnapshot' = 0

\* A nil return: rebuild is followed by one processIncremental.
PassEnds ==
  /\ pc' = IF rebuilding THEN "max" ELSE "idle"
  /\ rebuilding' = FALSE
  /\ ClearPass
  /\ UNCHANGED memory

\* Mutant: the worker whose rebuild failed stays in the shard's map.
PassFailsKeepsWorker ==
  /\ pc' = "idle"
  /\ rebuilding' = FALSE
  /\ ClearPass
  /\ UNCHANGED memory

\* An error return: shardTick drops a worker whose rebuild failed and keeps one
\* whose incremental pass failed, with its cursor and aggregate as they are.
PassFails ==
  /\ pc' = "idle"
  /\ rebuilding' = FALSE
  /\ ClearPass
  /\ IF rebuilding THEN ForgetWorker ELSE UNCHANGED memory

\* Back in the loop of applyEligible, or on to the event that stopped it.
Resume == pc' = IF verdict = "APPLIED" THEN "apply" ELSE "dlq"

-----------------------------------------------------------------------------
(* Starting, ticking and rebuilding.                                       *)

Start ==
  /\ pc = "down"
  /\ pc' = "idle"
  /\ UNCHANGED <<world, database, memory, pass, faults>>

Crash ==
  /\ pc # "down"
  /\ Fault("crash")
  /\ pc' = "down"
  /\ rebuilding' = FALSE
  /\ ClearPass
  /\ ForgetWorker
  /\ UNCHANGED <<world, database>>

\* shardTick: the portfolios are the ones that have events.
Tick ==
  /\ pc = "idle"
  /\ log # {}
  /\ pc' = IF known THEN "max" ELSE "rebuild"
  /\ known' = TRUE
  /\ rebuilding' = ~known
  /\ UNCHANGED <<world, database, agg, cur, sinceSnapshot,
                 maxSeen, queue, okBatch, verdict, more, faults>>

\* LoadLatestPortfolioSnapshot: the one with the greatest as_of cursor.
IsLatest(s) == \A r \in snapshots : r = s \/ Before(r.asOf, s.asOf)

\* Mutant: the snapshot is not compared with the cursor.
UsableUnchecked(s) == IsLatest(s)

\* The latest snapshot is ignored when it is older or newer than the cursor.
Usable(s) ==
  /\ IsLatest(s)
  /\ dbCur = ZeroCursor \/ s.asOf = dbCur

RebuildFromSnapshot ==
  /\ pc = "rebuild"
  /\ \E s \in snapshots :
       /\ Usable(s)
       /\ agg' = s.lots
       /\ cur' = s.asOf
  /\ pc' = "max"
  /\ UNCHANGED <<world, database, known, sinceSnapshot, pass, faults>>

NoSnapshot == ~\E s \in snapshots : Usable(s)

\* No cursor: the whole log, without a watermark, through applyEligible.
RebuildFromLog(snapshotRead) ==
  /\ pc = "rebuild"
  /\ snapshotRead => NoSnapshot
  /\ dbCur = ZeroCursor
  /\ agg' = NoPositions
  /\ cur' = ZeroCursor
  /\ queue' = log
  /\ pc' = "apply"
  /\ UNCHANGED <<world, database, known, sinceSnapshot,
                 rebuilding, maxSeen, okBatch, verdict, more>>

\* Mutant: the rows are not loaded into the aggregate.
RebuildWithoutHydrating(snapshotRead) ==
  /\ pc = "rebuild"
  /\ snapshotRead => NoSnapshot
  /\ dbCur # ZeroCursor
  /\ agg' = NoPositions
  /\ cur' = dbCur
  /\ pc' = "max"
  /\ UNCHANGED <<world, database, known, sinceSnapshot, pass>>

\* A cursor: the projection rows, then the tail.
RebuildFromProjection(snapshotRead) ==
  /\ pc = "rebuild"
  /\ snapshotRead => NoSnapshot
  /\ dbCur # ZeroCursor
  /\ agg' = positions
  /\ cur' = dbCur
  /\ pc' = "max"
  /\ UNCHANGED <<world, database, known, sinceSnapshot, pass>>

\* A failed snapshot read only means that there is no snapshot.
Rebuild ==
  \/ RebuildFromSnapshot
  \/ RebuildFromLog(TRUE) /\ UNCHANGED faults
  \/ RebuildFromProjection(TRUE) /\ UNCHANGED faults
  \/ Fault("read") /\ (RebuildFromLog(FALSE) \/ RebuildFromProjection(FALSE))

\* Any other read that fails fails the pass: the cursor, the whole log or the
\* rows in rebuild, MaxEventTime or FetchAfter in pumpAfterCursor.
ReadFails ==
  /\ pc \in {"rebuild", "max", "fetch"}
  /\ Fault("read")
  /\ PassFails
  /\ UNCHANGED <<world, database>>

-----------------------------------------------------------------------------
(* pumpAfterCursor and applyEligible.                                      *)

ReadMaxEventTime ==
  /\ pc = "max"
  /\ maxSeen' = MaxEventTime(log)
  /\ pc' = "fetch"
  /\ UNCHANGED <<world, database, memory,
                 rebuilding, queue, okBatch, verdict, more, faults>>

FetchPage ==
  /\ pc = "fetch"
  /\ LET batch    == FetchAfter(log, cur, PageLimit)
         eligible == EligibleBatchAfterWatermark(batch, maxSeen - Watermark,
                                                 Watermark, PageLimit)
     IN  IF eligible = {}
         THEN PassEnds
         ELSE /\ queue' = eligible
              /\ more' = (eligible = batch /\ Cardinality(batch) = PageLimit)
              /\ pc' = "apply"
              /\ UNCHANGED <<memory, rebuilding, maxSeen, okBatch, verdict>>
  /\ UNCHANGED <<world, database, faults>>

Stop(e, reason) ==
  /\ verdict' = reason
  /\ pc' = IF okBatch = <<>> THEN "dlq" ELSE "flush"
  /\ UNCHANGED <<queue, okBatch, agg>>

\* One turn of the loop: too stale, applied to the aggregate, or an underflow.
\* A stop first flushes what has been applied so far.
ApplyNext ==
  /\ pc = "apply"
  /\ queue # {}
  /\ LET e == EarliestOf(queue)
     IN  \/ /\ TooStaleForApply(e, now, MaxEventAge)
            /\ Stop(e, "EVENT_TOO_STALE")
         \/ /\ ~TooStaleForApply(e, now, MaxEventAge)
            /\ Underflows(agg, e)
            /\ Stop(e, "POSITION_UNDERFLOW")
         \/ /\ ~TooStaleForApply(e, now, MaxEventAge)
            /\ ~Underflows(agg, e)
            /\ agg' = ApplyTrade(agg, e)
            /\ okBatch' = Append(okBatch, e)
            /\ queue' = queue \ {e}
            /\ UNCHANGED <<pc, verdict>>
  /\ UNCHANGED <<world, database, known, cur, sinceSnapshot,
                 rebuilding, maxSeen, more, faults>>

\* The loop is over: flush the rest, or return to pumpAfterCursor.
ApplyDone ==
  /\ pc = "apply"
  /\ queue = {}
  /\ IF okBatch # <<>>
     THEN pc' = "flush" /\ UNCHANGED <<memory, pass>>
     ELSE IF more
          THEN pc' = "max" /\ UNCHANGED <<memory, pass>>
          ELSE PassEnds
  /\ UNCHANGED <<world, database, faults>>

-----------------------------------------------------------------------------
(* Commits.                                                                *)

LastKey == Key(okBatch[Len(okBatch)])

\* The transaction of ApplyBatch: the lots of the traded symbols and the cursor.
CommitBatch ==
  /\ positions' = [s \in Symbols |->
                     IF \E e \in Batched : e.sym = s
                     THEN StoredLot(agg[s]) ELSE positions[s]]
  /\ dbCur' = LastKey
  /\ settled' = settled \o [i \in 1 .. Len(okBatch) |-> Entry(okBatch[i], "APPLIED")]
  /\ UNCHANGED snapshots

SnapshotEnabled == SnapshotEvery > 0 \/ SnapshotTimer

\* shouldWritePortfolioSnapshot; the interval has elapsed or it has not.
SnapshotDue(count) ==
  {b \in BOOLEAN : /\ SnapshotEvery > 0 /\ count >= SnapshotEvery => b
                   /\ b => \/ SnapshotEvery > 0 /\ count >= SnapshotEvery
                           \/ SnapshotTimer}

\* flushApplyBatch: commit, advance the cursor in memory, count towards the
\* next snapshot.
Flush ==
  /\ pc = "flush"
  /\ CommitBatch
  /\ cur' = LastKey
  /\ sinceSnapshot' = IF SnapshotEnabled THEN sinceSnapshot + Len(okBatch) ELSE 0
  /\ \E due \in SnapshotDue(sinceSnapshot + Len(okBatch)) :
       IF due THEN pc' = "snapshot" ELSE Resume
  /\ okBatch' = <<>>
  /\ UNCHANGED <<world, known, agg, rebuilding, maxSeen, queue, verdict, more, faults>>

ApplyBatchFails ==
  /\ pc = "flush"
  /\ Fault(IF rebuilding THEN "rebuildApply" ELSE "apply")
  /\ PassFails
  /\ UNCHANGED <<world, database>>

\* The commit went through and its answer did not.
ApplyBatchAckLost ==
  /\ pc = "flush"
  /\ Fault(IF rebuilding THEN "rebuildApplyAck" ELSE "applyAck")
  /\ CommitBatch
  /\ PassFails
  /\ UNCHANGED world

\* InsertPortfolioSnapshot: one row per cursor, the first one stays.
InsertSnapshot ==
  snapshots' = IF \E s \in snapshots : s.asOf = cur THEN snapshots
               ELSE snapshots \cup {[asOf |-> cur, lots |-> StoredPositions(agg)]}

\* maybeSnapshotAfterApply: only when the reloaded cursor is still the batch's
\* tail, which is what pw.cur has become.
WriteSnapshot ==
  /\ pc = "snapshot"
  /\ IF cur = dbCur
     THEN InsertSnapshot /\ sinceSnapshot' = 0
     ELSE UNCHANGED <<snapshots, sinceSnapshot>>
  /\ Resume
  /\ UNCHANGED <<world, positions, dbCur, settled, known, agg, cur, pass, faults>>

\* Best effort: the count stays, a later batch tries again.
SnapshotFails ==
  /\ pc = "snapshot"
  /\ \/ Fault("snapshot") /\ UNCHANGED snapshots
     \/ Fault("snapshotAck") /\ cur = dbCur /\ InsertSnapshot
  /\ Resume
  /\ UNCHANGED <<world, positions, dbCur, settled, memory, pass>>

\* The transaction of PersistApplyDLQ: the dead letter and the cursor.
CommitDLQ ==
  LET e == EarliestOf(queue)
  IN  /\ settled' = Append(settled, Entry(e, verdict))
      /\ dbCur' = Key(e)
      /\ UNCHANGED <<positions, snapshots>>

\* Mutant: pw.cur is not advanced past the dead letter.
DeadLetterKeepsCursor ==
  /\ pc = "dlq"
  /\ CommitDLQ
  /\ queue' = queue \ {EarliestOf(queue)}
  /\ verdict' = "APPLIED"
  /\ pc' = "apply"
  /\ UNCHANGED <<world, memory, rebuilding, maxSeen, okBatch, more, faults>>

DeadLetter ==
  /\ pc = "dlq"
  /\ CommitDLQ
  /\ cur' = Key(EarliestOf(queue))
  /\ queue' = queue \ {EarliestOf(queue)}
  /\ verdict' = "APPLIED"
  /\ pc' = "apply"
  /\ UNCHANGED <<world, known, agg, sinceSnapshot,
                 rebuilding, maxSeen, okBatch, more, faults>>

DeadLetterFails ==
  /\ pc = "dlq"
  /\ Fault("dlq")
  /\ PassFails
  /\ UNCHANGED <<world, database>>

DeadLetterAckLost ==
  /\ pc = "dlq"
  /\ Fault(IF rebuilding THEN "rebuildDlqAck" ELSE "dlqAck")
  /\ CommitDLQ
  /\ PassFails
  /\ UNCHANGED world

-----------------------------------------------------------------------------

Init ==
  /\ log = {}
  /\ positions = NoPositions
  /\ dbCur = ZeroCursor
  /\ snapshots = {}
  /\ settled = <<>>
  /\ pc = "down"
  /\ known = FALSE
  /\ agg = NoPositions
  /\ cur = ZeroCursor
  /\ rebuilding = FALSE
  /\ maxSeen = 0
  /\ queue = {}
  /\ okBatch = <<>>
  /\ verdict = "APPLIED"
  /\ more = FALSE
  /\ sinceSnapshot = 0
  /\ now = 0
  /\ faults = 0
  /\ overtaken = {}

\* The steps the shard's goroutine takes when no call fails.
Worker ==
  \/ Tick
  \/ Rebuild
  \/ ReadMaxEventTime
  \/ FetchPage
  \/ ApplyNext
  \/ ApplyDone
  \/ Flush
  \/ WriteSnapshot
  \/ DeadLetter

Failure ==
  \/ Crash
  \/ ReadFails
  \/ ApplyBatchFails
  \/ ApplyBatchAckLost
  \/ SnapshotFails
  \/ DeadLetterFails
  \/ DeadLetterAckLost

Next ==
  \/ \E e \in Requests : PostTrade(e)
  \/ ClockTicks
  \/ Start
  \/ Worker
  \/ Failure

Spec == Init /\ [][Next]_vars

\* The ticker keeps firing while the process is up, and a process that stopped
\* is started again.
FairSpec == Spec /\ WF_vars(Start) /\ WF_vars(Worker)

-----------------------------------------------------------------------------
(* Properties.                                                             *)

TypeOK ==
  /\ log \subseteq Requests
  /\ positions \in [Symbols -> LotType]
  /\ dbCur \in Nat \X Nat
  /\ snapshots \subseteq [asOf : Nat \X Nat, lots : [Symbols -> LotType]]
  /\ settled \in Seq([event : Requests, verdict : Verdicts])
  /\ pc \in {"down", "idle", "rebuild", "max", "fetch",
             "apply", "flush", "snapshot", "dlq"}
  /\ known \in BOOLEAN
  /\ agg \in [Symbols -> LotType]
  /\ cur \in Nat \X Nat
  /\ rebuilding \in BOOLEAN
  /\ maxSeen \in Nat
  /\ queue \subseteq log
  /\ okBatch \in Seq(Requests)
  /\ verdict \in Verdicts
  /\ more \in BOOLEAN
  /\ sinceSnapshot \in Nat
  /\ now \in Nat
  /\ faults \in Nat
  /\ overtaken \subseteq log

SettledEvents == {settled[i].event : i \in DOMAIN settled}

\* Exactly once and in order: whatever fails in between, every event is
\* committed (as a batch member or as a dead letter) at most once and in
\* (event_time, event_id) order, and the stored cursor is the last of them
\* (ApplyBatch and PersistApplyDLQ move rows and cursor in one transaction).
SettledInOrder ==
  /\ \A i, j \in DOMAIN settled :
       i < j => Before(Key(settled[i].event), Key(settled[j].event))
  /\ dbCur = IF settled = <<>> THEN ZeroCursor
             ELSE Key(settled[Len(settled)].event)

\* The worker never steps over an event it could have seen: an event at or
\* behind the stored cursor has been applied or dead-lettered, unless it
\* arrived behind an event that was already fetched or committed.
NoSilentSkip ==
  \A e \in log : Before(dbCur, Key(e)) \/ e \in SettledEvents \cup overtaken

\* Between two passes the worker that is kept in memory agrees with the
\* database: incremental ticks trust pw.cur and pw.agg and never re-read them.
MemoryAgreesWithDatabase ==
  pc = "idle" /\ known => /\ cur = dbCur
                         /\ StoredPositions(agg) = positions

InPass == {"max", "fetch", "apply", "flush", "snapshot", "dlq"}

\* Beyond the cursor and not fetched yet.
Waiting == Beyond(log, cur) \ Fetched

\* What is left of a round, when neither its page nor its batch has changed.
Stage == CASE pc = "snapshot" -> 3
           [] pc = "apply"    -> 2
           [] pc = "fetch"    -> 0
           [] OTHER           -> 1

Shrinks(new, old) == new \subseteq old /\ new # old

\* Less to do than before: the pass after a rebuild, events waiting, events
\* fetched, a batch to commit, steps of the round.
RunsDown ==
  \/ rebuilding /\ ~rebuilding'
  \/ /\ UNCHANGED rebuilding
     /\ \/ Shrinks(Waiting', Waiting)
        \/ UNCHANGED Waiting /\ Shrinks(queue', queue)
        \/ UNCHANGED <<Waiting, queue>> /\ okBatch # <<>> /\ okBatch' = <<>>
        \/ UNCHANGED <<Waiting, queue, okBatch>> /\ Stage' < Stage

\* A pass comes to an end, and the next portfolio of the shard has its turn,
\* unless trades arrive for ever: pumpAfterCursor goes round only behind a page
\* that took events off the log, and no commit, dead letter, snapshot or failure
\* within a pass brings back what an earlier step had done.
PassesRunDown == [][({pc, pc'} \subseteq InPass /\ UNCHANGED world) => RunsDown]_vars
=============================================================================
