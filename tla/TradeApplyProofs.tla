-------------------------- MODULE TradeApplyProofs --------------------------
(***************************************************************************)
(* Proofs about the trade apply path of one partition, for every set of    *)
(* requests, page size, watermark, age limit, snapshot policy and number   *)
(* of faults.                                                              *)
(***************************************************************************)
EXTENDS TradeLedger, EventLogProofs, PositionsProofs, SequenceTheorems

-----------------------------------------------------------------------------
(* The inductive invariant, part by part.                                  *)

\* The worker in memory follows the database: whenever its cursor has been
\* loaded it is the stored one.
CursorIsCached ==
  /\ pc = "down" => ~known
  /\ pc = "rebuild" => rebuilding
  /\ pc \in InPass \cup {"rebuild"} => known
  /\ known /\ pc # "rebuild" => cur = dbCur

\* Where the goroutine is tells what it holds.
ControlIsConsistent ==
  /\ pc \notin {"apply", "flush", "snapshot", "dlq"} => queue = {}
  /\ pc \notin {"apply", "flush"} => okBatch = <<>>
  /\ pc = "flush" => okBatch # <<>>
  /\ verdict # "APPLIED" => queue # {} /\ pc \in {"flush", "snapshot", "dlq"}
  /\ pc = "dlq" => verdict # "APPLIED"
  /\ pc = "snapshot" => dbCur # ZeroCursor
  /\ dbCur = ZeroCursor => snapshots = {}

\* What is settled came from the log.
SettledIsLogged == SettledEvents \subseteq log

\* The batch is in key order, beyond the cursor, and ahead of the queue.
BatchIsOrdered ==
  /\ \A i \in DOMAIN okBatch : okBatch[i] \in log /\ Before(dbCur, Key(okBatch[i]))
  /\ \A i, j \in DOMAIN okBatch : i < j => Before(Key(okBatch[i]), Key(okBatch[j]))
  /\ \A e \in queue : Before(dbCur, Key(e))
  /\ \A i \in DOMAIN okBatch, e \in queue : Before(Key(okBatch[i]), Key(e))

\* A page leaves nothing out but what was inserted behind it after the read.
PageIsClosed ==
  \A e \in log, f \in Fetched :
    Before(dbCur, Key(e)) /\ Before(Key(e), Key(f)) => e \in Fetched \cup overtaken

JournalInv == SettledIsLogged /\ SettledInOrder /\ NoSilentSkip

PageInv == BatchIsOrdered /\ PageIsClosed

TypeInv == TypeOK /\ ControlIsConsistent

OrderInv == TypeInv /\ CursorIsCached /\ JournalInv /\ PageInv

\* No commit of an incremental pass is reported as failed although it went
\* through; any other call may fail, and the process may crash anywhere.
AcksArrive == {"applyAck", "dlqAck"} \cap FaultKinds = {}

-----------------------------------------------------------------------------
(* Events and batches.                                                     *)

LEMMA RequestFacts ==
  ASSUME NEW e \in Requests
  PROVE  /\ e.time \in 1 .. MaxTime /\ e.id \in Nat
         /\ e.sym \in Symbols /\ e.side \in {"BUY", "SELL"}
         /\ e.qty \in Nat \ {0} /\ e.price \in Nat
         /\ Key(e) \in Cursors
         /\ Key(e) # ZeroCursor
BY RequestsAssumption DEF TradeEvents, Key, Cursors, ZeroCursor

LEMMA RequestsAreLog ==
  ASSUME NEW S, S \subseteq Requests
  PROVE  /\ IsLog(S)
         /\ IsFiniteSet(S)
         /\ MaxEventTime(S) \in Nat
<1>1. IsLog(Requests)
  BY RequestFacts, RequestsAssumption DEF IsLog
<1>2. IsLog(S)
  BY <1>1, SubsetIsLog
<1>3. IsFiniteSet(S)
  BY RequestsAssumption, FS_Subset
<1> QED
  BY <1>2, <1>3, MaxEventTimeType

LEMMA EarliestRequest ==
  ASSUME NEW S, S \subseteq Requests, S # {}
  PROVE  /\ EarliestOf(S) \in S
         /\ EarliestOf(S) \in Requests
         /\ \A f \in S : f = EarliestOf(S) \/ Before(Key(EarliestOf(S)), Key(f))
BY RequestsAreLog, EarliestIsFirst

\* The tail of a batch that is not empty.
LEMMA LastOfBatch ==
  ASSUME NEW b \in Seq(Requests), b # <<>>
  PROVE  /\ Len(b) \in Nat \ {0}
         /\ Len(b) \in DOMAIN b
         /\ b[Len(b)] \in Requests
<1>1. Len(b) \in Nat \ {0}
  BY EmptySeq
<1> QED
  BY <1>1, LenProperties

\* The journal entries of a committed batch.
LEMMA BatchEntries ==
  ASSUME NEW b \in Seq(Requests)
  PROVE  LET run == [i \in 1 .. Len(b) |-> Entry(b[i], "APPLIED")]
         IN  /\ run \in Seq([event : Requests, verdict : Verdicts])
             /\ Len(run) = Len(b)
<1> DEFINE run == [i \in 1 .. Len(b) |-> Entry(b[i], "APPLIED")]
<1>1. Len(b) \in Nat /\ \A i \in 1 .. Len(b) : b[i] \in Requests
  BY LenProperties, ElementOfSeq
<1>2. \A i \in 1 .. Len(b) : Entry(b[i], "APPLIED") \in [event : Requests, verdict : Verdicts]
  BY <1>1 DEF Entry, Verdicts
<1> QED
  BY <1>1, <1>2

-----------------------------------------------------------------------------
(* Type correctness.  Dead letters and batches are read off the queue and  *)
(* the batch, so their types rest on what the control state says of them.  *)

LEMMA InitTypeInv == Init => TypeInv
<1> SUFFICES ASSUME Init PROVE TypeInv
  OBVIOUS
<1>1. /\ settled \in Seq([event : Requests, verdict : Verdicts])
      /\ okBatch \in Seq(Requests)
  BY EmptySeq DEF Init
<1>2. ZeroCursor \in Nat \X Nat
  BY DEF ZeroCursor
<1>3. TypeOK
  BY <1>1, <1>2, NoPositionsType DEF Init, TypeOK, Verdicts
<1>4. ControlIsConsistent
  BY DEF Init, ControlIsConsistent
<1> QED
  BY <1>3, <1>4 DEF TypeInv

\* A nil return of a pass.
LEMMA PassEndsType ==
  ASSUME TypeInv, PassEnds, UNCHANGED <<world, database, faults>>
  PROVE  TypeInv'
<1>1. <<>> \in Seq(Requests)
  BY EmptySeq
<1>2. /\ pc' \in {"max", "idle"} /\ rebuilding' = FALSE
      /\ UNCHANGED <<world, database, memory, faults>>
      /\ ClearPass
  BY DEF PassEnds
<1> QED
  BY <1>1, <1>2
  DEF TypeInv, TypeOK, ControlIsConsistent, ClearPass, Verdicts,
      world, database, memory

\* An error return of a pass.
LEMMA PassFailsType ==
  ASSUME TypeInv, PassFails
  PROVE  /\ pc' = "idle"
         /\ known' \in BOOLEAN /\ rebuilding' \in BOOLEAN /\ more' \in BOOLEAN
         /\ agg' \in [Symbols -> LotType] /\ cur' \in Nat \X Nat
         /\ maxSeen' \in Nat /\ sinceSnapshot' \in Nat
         /\ queue' = {} /\ okBatch' = <<>> /\ verdict' = "APPLIED"
<1>1. ZeroCursor \in Nat \X Nat
  BY DEF ZeroCursor
<1>2. CASE rebuilding
  <2>1. ClearPass /\ ForgetWorker /\ pc' = "idle" /\ rebuilding' = FALSE
    BY <1>2 DEF PassFails
  <2> QED
    BY <1>1, <2>1, NoPositionsType DEF ClearPass, ForgetWorker
<1>3. CASE ~rebuilding
  BY <1>3 DEF TypeInv, TypeOK, PassFails, ClearPass, memory
<1> QED
  BY <1>2, <1>3

\* The transaction of a batch.
LEMMA CommitBatchType ==
  ASSUME TypeInv, pc = "flush", CommitBatch
  PROVE  /\ positions' \in [Symbols -> LotType]
         /\ dbCur' = LastKey /\ LastKey \in Nat \X Nat /\ LastKey # ZeroCursor
         /\ settled' \in Seq([event : Requests, verdict : Verdicts])
         /\ snapshots' = snapshots
<1>1. okBatch \in Seq(Requests) /\ okBatch # <<>>
  BY DEF TypeInv, TypeOK, ControlIsConsistent
<1>2. LastKey \in Nat \X Nat /\ LastKey # ZeroCursor
  BY <1>1, LastOfBatch, RequestFacts DEF LastKey, Cursors
<1>3. settled' \in Seq([event : Requests, verdict : Verdicts])
  BY <1>1, BatchEntries, ConcatProperties DEF TypeInv, TypeOK, CommitBatch
<1>4. positions' \in [Symbols -> LotType]
  BY StoredLotType DEF TypeInv, TypeOK, CommitBatch
<1> QED
  BY <1>2, <1>3, <1>4 DEF CommitBatch

\* The transaction of a dead letter.
LEMMA CommitDLQType ==
  ASSUME TypeInv, pc = "dlq", CommitDLQ
  PROVE  /\ EarliestOf(queue) \in queue
         /\ dbCur' = Key(EarliestOf(queue))
         /\ Key(EarliestOf(queue)) \in Nat \X Nat
         /\ Key(EarliestOf(queue)) # ZeroCursor
         /\ settled' \in Seq([event : Requests, verdict : Verdicts])
         /\ positions' = positions /\ snapshots' = snapshots
<1>1. queue # {} /\ queue \subseteq Requests
  BY DEF TypeInv, TypeOK, ControlIsConsistent
<1>2. EarliestOf(queue) \in queue /\ EarliestOf(queue) \in Requests
  BY <1>1, EarliestRequest
<1>3. Entry(EarliestOf(queue), verdict) \in [event : Requests, verdict : Verdicts]
  BY <1>2 DEF Entry, TypeInv, TypeOK
<1>4. settled' \in Seq([event : Requests, verdict : Verdicts])
  BY <1>3, AppendProperties DEF TypeInv, TypeOK, CommitDLQ
<1> QED
  BY <1>2, <1>4, RequestFacts DEF CommitDLQ, Cursors

\* A snapshot row.
LEMMA InsertSnapshotType ==
  ASSUME TypeInv, InsertSnapshot
  PROVE  snapshots' \subseteq [asOf : Nat \X Nat, lots : [Symbols -> LotType]]
<1>1. [asOf |-> cur, lots |-> StoredPositions(agg)]
        \in [asOf : Nat \X Nat, lots : [Symbols -> LotType]]
  BY StoredPositionsType DEF TypeInv, TypeOK
<1> QED
  BY <1>1 DEF InsertSnapshot, TypeInv, TypeOK

LEMMA NextTypeInv == TypeInv /\ [Next]_vars => TypeInv'
<1> SUFFICES ASSUME TypeInv, [Next]_vars PROVE TypeInv'
  OBVIOUS
<1> USE DEF TypeInv, world, database, memory, pass
<1>1. ASSUME NEW e \in Requests, PostTrade(e) PROVE TypeInv'
  <2>1. log' \subseteq Requests /\ overtaken' \subseteq log' /\ queue \subseteq log'
    BY <1>1 DEF PostTrade, AppendEvent, TypeOK
  <2> QED
    BY <1>1, <2>1 DEF PostTrade, TypeOK, ControlIsConsistent
<1>2. CASE ClockTicks
  BY <1>2 DEF ClockTicks, TypeOK, ControlIsConsistent
<1>3. CASE Start
  BY <1>3 DEF Start, TypeOK, ControlIsConsistent
<1>4. CASE Tick
  BY <1>4 DEF Tick, TypeOK, ControlIsConsistent
<1>5. CASE Rebuild
  <2>1. CASE RebuildFromSnapshot
    BY <1>5, <2>1 DEF RebuildFromSnapshot, TypeOK, ControlIsConsistent
  <2>2. ASSUME NEW r \in BOOLEAN, RebuildFromLog(r), faults' \in Nat
        PROVE  TypeInv'
    BY <2>2, NoPositionsType DEF RebuildFromLog, TypeOK, ControlIsConsistent
  <2>3. ASSUME NEW r \in BOOLEAN, RebuildFromProjection(r), faults' \in Nat
        PROVE  TypeInv'
    BY <2>3 DEF RebuildFromProjection, TypeOK, ControlIsConsistent
  <2>4. faults' \in Nat
    <3>1. RebuildFromSnapshot => faults' = faults
      BY DEF RebuildFromSnapshot
    <3>2. Fault("read") => faults' = faults + 1
      BY DEF Fault
    <3>3. faults' = faults \/ faults' = faults + 1
      BY <1>5, <3>1, <3>2, Zenon DEF Rebuild
    <3> QED
      BY <3>3 DEF TypeOK
  <2> QED
    BY <1>5, <2>1, <2>2, <2>3, <2>4 DEF Rebuild
<1>6. CASE ReadMaxEventTime
  <2>1. MaxEventTime(log) \in Nat
    BY RequestsAreLog DEF TypeOK
  <2> QED
    BY <1>6, <2>1 DEF ReadMaxEventTime, TypeOK, ControlIsConsistent
<1>7. CASE FetchPage
  <2> DEFINE batch == FetchAfter(log, cur, PageLimit)
             eligible == EligibleBatchAfterWatermark(batch, maxSeen - Watermark,
                                                     Watermark, PageLimit)
  <2>1. eligible \subseteq log
    BY DEF EligibleBatchAfterWatermark, EligiblePrefix, FetchAfter, Beyond
  <2>2. CASE eligible = {}
    <3>1. PassEnds /\ UNCHANGED <<world, database, faults>>
      BY <1>7, <2>2 DEF FetchPage
    <3> QED
      BY <3>1, PassEndsType
  <2>3. CASE eligible # {}
    <3> HIDE DEF eligible
    <3>1. /\ queue' = eligible /\ pc' = "apply"
          /\ more' = (eligible = batch /\ Cardinality(batch) = PageLimit)
          /\ UNCHANGED <<world, database, memory, rebuilding, maxSeen, okBatch,
                         verdict, faults>>
      BY <1>7, <2>3 DEF FetchPage, eligible
    <3>2. more' \in BOOLEAN
      BY <3>1
    <3> QED
      BY <1>7, <2>1, <3>1, <3>2 DEF FetchPage, TypeOK, ControlIsConsistent
  <2> QED
    BY <2>2, <2>3
<1>8. CASE ApplyNext
  <2> DEFINE e == EarliestOf(queue)
  <2>1. e \in queue /\ e \in Requests
    BY <1>8, EarliestRequest DEF ApplyNext, TypeOK
  <2>2. ASSUME NEW r \in {"EVENT_TOO_STALE", "POSITION_UNDERFLOW"}, Stop(e, r)
        PROVE  TypeInv'
    BY <1>8, <2>1, <2>2 DEF ApplyNext, Stop, TypeOK, ControlIsConsistent, Verdicts
  <2>3. ASSUME ~Underflows(agg, e), agg' = ApplyTrade(agg, e),
               okBatch' = Append(okBatch, e), queue' = queue \ {e},
               UNCHANGED <<pc, verdict>>
        PROVE  TypeInv'
    <3>1. agg' \in [Symbols -> LotType]
      BY <2>1, <2>3, ApplyTradeType, RequestFacts DEF TypeOK
    <3>2. okBatch' \in Seq(Requests)
      BY <2>1, <2>3, AppendProperties DEF TypeOK
    <3> QED
      BY <1>8, <2>3, <3>1, <3>2 DEF ApplyNext, TypeOK, ControlIsConsistent
  <2> QED
    BY <1>8, <2>2, <2>3 DEF ApplyNext
<1>9. CASE ApplyDone
  <2>1. CASE PassEnds
    BY <1>9, <2>1, PassEndsType DEF ApplyDone
  <2>2. CASE pc' = "flush" /\ okBatch # <<>> /\ UNCHANGED <<memory, pass>>
    BY <1>9, <2>2 DEF ApplyDone, TypeOK, ControlIsConsistent
  <2>3. CASE pc' = "max" /\ okBatch = <<>> /\ UNCHANGED <<memory, pass>>
    BY <1>9, <2>3 DEF ApplyDone, TypeOK, ControlIsConsistent
  <2> QED
    BY <1>9, <2>1, <2>2, <2>3 DEF ApplyDone
<1>10. CASE Flush
  <2>1. /\ positions' \in [Symbols -> LotType]
        /\ dbCur' \in Nat \X Nat /\ dbCur' # ZeroCursor
        /\ cur' \in Nat \X Nat
        /\ settled' \in Seq([event : Requests, verdict : Verdicts])
        /\ snapshots' = snapshots
    BY <1>10, CommitBatchType DEF Flush
  <2>2. sinceSnapshot' \in Nat
    BY <1>10, LastOfBatch DEF Flush, TypeOK, ControlIsConsistent
  <2>3. okBatch' \in Seq(Requests)
    BY <1>10, EmptySeq DEF Flush
  <2>4. pc' \in {"snapshot", "apply", "dlq"} /\ pc' = "apply" => verdict = "APPLIED"
    BY <1>10 DEF Flush, Resume
  <2> QED
    BY <1>10, <2>1, <2>2, <2>3, <2>4 DEF Flush, Resume, TypeOK, ControlIsConsistent
<1>11. CASE WriteSnapshot
  <2>1. snapshots' \subseteq [asOf : Nat \X Nat, lots : [Symbols -> LotType]]
    BY <1>11, InsertSnapshotType DEF WriteSnapshot, TypeOK
  <2>2. sinceSnapshot' \in Nat
    BY <1>11 DEF WriteSnapshot, TypeOK
  <2> QED
    BY <1>11, <2>1, <2>2 DEF WriteSnapshot, Resume, TypeOK, ControlIsConsistent
<1>12. CASE DeadLetter
  BY <1>12, CommitDLQType DEF DeadLetter, TypeOK, ControlIsConsistent, Verdicts
<1>13. CASE Crash
  <2>1. ZeroCursor \in Nat \X Nat /\ <<>> \in Seq(Requests)
    BY EmptySeq DEF ZeroCursor
  <2>2. /\ pc' = "down" /\ faults' = faults + 1 /\ UNCHANGED <<world, database>>
        /\ rebuilding' = FALSE /\ ClearPass /\ ForgetWorker
    BY <1>13 DEF Crash, Fault
  <2>3. TypeOK'
    <3>1. /\ known' = FALSE /\ agg' = NoPositions /\ cur' = ZeroCursor
          /\ sinceSnapshot' = 0 /\ queue' = {} /\ okBatch' = <<>>
          /\ verdict' = "APPLIED" /\ more' = FALSE /\ maxSeen' = 0
      BY <2>2 DEF ClearPass, ForgetWorker
    <3>2. agg' \in [Symbols -> LotType] /\ cur' \in Nat \X Nat
          /\ okBatch' \in Seq(Requests) /\ faults' \in Nat
      BY <2>1, <2>2, <3>1, NoPositionsType DEF TypeOK
    <3> QED
      BY <2>2, <3>1, <3>2 DEF TypeOK, Verdicts
  <2>4. ControlIsConsistent'
    BY <2>2 DEF ClearPass, ControlIsConsistent
  <2> QED
    BY <2>3, <2>4
<1>14. ASSUME PassFails, faults' \in Nat, UNCHANGED world,
              positions' \in [Symbols -> LotType],
              dbCur' \in Nat \X Nat, dbCur' = ZeroCursor => dbCur = ZeroCursor,
              settled' \in Seq([event : Requests, verdict : Verdicts]),
              snapshots' = snapshots
       PROVE  TypeInv'
  <2>1. <<>> \in Seq(Requests)
    BY EmptySeq
  <2> QED
    BY <1>14, <2>1, PassFailsType DEF TypeOK, ControlIsConsistent, Verdicts
<1>15. CASE ReadFails
  BY <1>14, <1>15 DEF ReadFails, Fault, TypeOK
<1>16. CASE ApplyBatchFails
  BY <1>14, <1>16 DEF ApplyBatchFails, Fault, TypeOK
<1>17. CASE ApplyBatchAckLost
  <2>1. faults' \in Nat
    BY <1>17 DEF ApplyBatchAckLost, Fault, TypeOK
  <2> QED
    BY <1>14, <1>17, <2>1, CommitBatchType DEF ApplyBatchAckLost
<1>18. CASE SnapshotFails
  <2>1. snapshots' \subseteq [asOf : Nat \X Nat, lots : [Symbols -> LotType]]
    BY <1>18, InsertSnapshotType DEF SnapshotFails, TypeOK
  <2>2. faults' \in Nat
    BY <1>18 DEF SnapshotFails, Fault, TypeOK
  <2> QED
    BY <1>18, <2>1, <2>2 DEF SnapshotFails, Resume, TypeOK, ControlIsConsistent
<1>19. CASE DeadLetterFails
  BY <1>14, <1>19 DEF DeadLetterFails, Fault, TypeOK
<1>20. CASE DeadLetterAckLost
  <2>1. faults' \in Nat
    BY <1>20 DEF DeadLetterAckLost, Fault, TypeOK
  <2> QED
    BY <1>14, <1>20, <2>1, CommitDLQType DEF DeadLetterAckLost, TypeOK
<1>21. CASE UNCHANGED vars
  BY <1>21 DEF vars, TypeOK, ControlIsConsistent
<1> QED
  BY <1>1, <1>2, <1>3, <1>4, <1>5, <1>6, <1>7, <1>8, <1>9, <1>10, <1>11, <1>12,
     <1>13, <1>15, <1>16, <1>17, <1>18, <1>19, <1>20, <1>21
  DEF Next, Worker, Failure

\* Every variable keeps its type; in particular no lot ever holds a negative
\* quantity, and every dead letter is an event of the log.
THEOREM TypeCorrect == Spec => []TypeOK
<1>1. TypeInv => TypeOK
  BY DEF TypeInv
<1> QED
  BY InitTypeInv, NextTypeInv, <1>1, PTL DEF Spec

-----------------------------------------------------------------------------
(* Exactly once and in order.                                              *)

JournalEntries == [event : Requests, verdict : Verdicts]

LEMMA JournalFacts ==
  ASSUME TypeOK, NEW i \in DOMAIN settled
  PROVE  /\ settled[i] \in JournalEntries
         /\ Key(settled[i].event) \in Cursors
         /\ DOMAIN settled = 1 .. Len(settled) /\ Len(settled) \in Nat
<1>1. settled[i] \in JournalEntries /\ DOMAIN settled = 1 .. Len(settled)
      /\ Len(settled) \in Nat
  BY LenProperties, ElementOfSeq DEF TypeOK, JournalEntries
<1> QED
  BY <1>1, RequestFacts DEF JournalEntries

\* Everything settled is at or behind the cursor.
LEMMA SettledIsBehindCursor ==
  ASSUME TypeOK, SettledInOrder, NEW i \in DOMAIN settled
  PROVE  Key(settled[i].event) = dbCur \/ Before(Key(settled[i].event), dbCur)
<1>1. DOMAIN settled = 1 .. Len(settled) /\ Len(settled) \in Nat
  BY JournalFacts
<1>2. Len(settled) \in DOMAIN settled /\ settled # <<>>
  BY <1>1, EmptySeq
<1>3. dbCur = Key(settled[Len(settled)].event)
  BY <1>2 DEF SettledInOrder
<1>4. i = Len(settled) \/ i < Len(settled)
  BY <1>1
<1> QED
  BY <1>2, <1>3, <1>4 DEF SettledInOrder

\* A commit appends a run of events that lie beyond the cursor, in order, and
\* that leaves out nothing in between but what was overtaken.
LEMMA CommitsSettle ==
  ASSUME TypeOK, JournalInv,
         NEW run \in Seq(JournalEntries), run # <<>>,
         \A i \in DOMAIN run : /\ run[i].event \in log
                               /\ Before(dbCur, Key(run[i].event)),
         \A i, j \in DOMAIN run :
           i < j => Before(Key(run[i].event), Key(run[j].event)),
         \A e \in log :
           Before(dbCur, Key(e)) => \/ Before(Key(run[Len(run)].event), Key(e))
                                    \/ e \in overtaken
                                    \/ \E i \in DOMAIN run : run[i].event = e,
         settled' = settled \o run,
         dbCur' = Key(run[Len(run)].event),
         log' = log, overtaken' = overtaken
  PROVE  JournalInv'
<1> DEFINE n == Len(settled)
           m == Len(run)
<1>1. /\ n \in Nat /\ DOMAIN settled = 1 .. n
      /\ m \in Nat \ {0} /\ DOMAIN run = 1 .. m
  BY LenProperties, EmptySeq DEF TypeOK, JournalEntries
<1>2. /\ settled' \in Seq(JournalEntries) /\ Len(settled') = n + m
      /\ \A i \in 1 .. n + m :
           settled'[i] = IF i <= n THEN settled[i] ELSE run[i - n]
  BY ConcatProperties DEF TypeOK, JournalEntries
<1>3. DOMAIN settled' = 1 .. n + m
  BY <1>2, LenProperties
<1> HIDE DEF n, m
<1>4. \A i \in DOMAIN settled : i \in DOMAIN settled' /\ settled'[i] = settled[i]
  BY <1>1, <1>2, <1>3
<1>5. \A i \in DOMAIN run : n + i \in DOMAIN settled' /\ settled'[n + i] = run[i]
  BY <1>1, <1>2, <1>3
<1>6. \A k \in DOMAIN settled' :
        \/ k \in DOMAIN settled /\ settled'[k] = settled[k]
        \/ k - n \in DOMAIN run /\ settled'[k] = run[k - n] /\ k > n
  BY <1>1, <1>2, <1>3
<1>7. SettledIsLogged'
  BY <1>6 DEF JournalInv, SettledIsLogged, SettledEvents
<1>8. SettledEvents \subseteq SettledEvents'
  BY <1>4 DEF SettledEvents
<1>9. \A i \in DOMAIN run : run[i].event \in SettledEvents'
  BY <1>5 DEF SettledEvents
<1>10. \A i \in DOMAIN run :
         /\ Key(run[i].event) \in Cursors
         /\ Key(run[i].event) = dbCur' \/ Before(Key(run[i].event), dbCur')
  <2> SUFFICES ASSUME NEW i \in DOMAIN run
               PROVE  /\ Key(run[i].event) \in Cursors
                      /\ Key(run[i].event) = dbCur' \/ Before(Key(run[i].event), dbCur')
    OBVIOUS
  <2>1. run[i] \in JournalEntries
    BY ElementOfSeq, LenProperties
  <2>2. i = m \/ i < m
    BY <1>1
  <2>3. m \in DOMAIN run
    BY <1>1
  <2> QED
    BY <2>1, <2>2, <2>3, RequestFacts DEF m, JournalEntries
<1>11. \A i \in DOMAIN settled, j \in DOMAIN run :
         Before(Key(settled[i].event), Key(run[j].event))
  <2> SUFFICES ASSUME NEW i \in DOMAIN settled, NEW j \in DOMAIN run
               PROVE  Before(Key(settled[i].event), Key(run[j].event))
    OBVIOUS
  <2>1. Key(settled[i].event) = dbCur \/ Before(Key(settled[i].event), dbCur)
    BY SettledIsBehindCursor DEF JournalInv
  <2>2. Before(dbCur, Key(run[j].event))
    OBVIOUS
  <2>3. Key(settled[i].event) \in Cursors /\ Key(run[j].event) \in Cursors /\ dbCur \in Cursors
    BY <1>10, JournalFacts DEF TypeOK, Cursors
  <2> QED
    BY <2>1, <2>2, <2>3, BeforeIsOrder
<1>12. SettledInOrder'
  <2>1. ASSUME NEW i \in DOMAIN settled', NEW j \in DOMAIN settled', i < j
        PROVE  Before(Key(settled'[i].event), Key(settled'[j].event))
    <3>1. CASE j \in DOMAIN settled /\ settled'[j] = settled[j]
      <4>1. i \in DOMAIN settled /\ settled'[i] = settled[i]
        BY <1>1, <1>2, <1>3, <2>1, <3>1
      <4> QED
        BY <2>1, <3>1, <4>1 DEF JournalInv, SettledInOrder
    <3>2. CASE j - n \in DOMAIN run /\ settled'[j] = run[j - n] /\ j > n
      <4>1. CASE i \in DOMAIN settled /\ settled'[i] = settled[i]
        BY <1>11, <3>2, <4>1
      <4>2. CASE i - n \in DOMAIN run /\ settled'[i] = run[i - n] /\ i > n
        <5>1. i - n < j - n
          BY <1>1, <1>3, <2>1
        <5> QED
          BY <3>2, <4>2, <5>1
      <4> QED
        BY <1>6, <2>1, <4>1, <4>2
    <3> QED
      BY <1>6, <2>1, <3>1, <3>2
  <2>2. settled' # <<>> /\ settled'[Len(settled')] = run[Len(run)]
    <3>1. settled' # <<>>
      BY <1>1, <1>2, EmptySeq
    <3>2. n + m \in 1 .. n + m /\ ~(n + m <= n) /\ (n + m) - n = m
      BY <1>1
    <3> QED
      BY <1>2, <3>1, <3>2 DEF m
  <2> QED
    BY <2>1, <2>2 DEF SettledInOrder
<1>13. NoSilentSkip'
  <2> SUFFICES ASSUME NEW e \in log, ~Before(dbCur', Key(e)), e \notin overtaken
               PROVE  e \in SettledEvents'
    BY DEF NoSilentSkip
  <2>1. CASE Before(dbCur, Key(e))
    BY <1>9, <2>1
  <2>2. CASE ~Before(dbCur, Key(e))
    BY <1>8, <2>2 DEF JournalInv, NoSilentSkip
  <2> QED
    BY <2>1, <2>2
<1> QED
  BY <1>7, <1>12, <1>13 DEF JournalInv

\* The transaction of a batch settles it and leaves the queue beyond the cursor.
LEMMA CommitBatchSettles ==
  ASSUME OrderInv, pc = "flush", CommitBatch, log' = log, overtaken' = overtaken
  PROVE  /\ JournalInv'
         /\ \A e \in queue : Before(dbCur', Key(e))
         /\ \A e \in log, f \in queue :
              Before(dbCur', Key(e)) /\ Before(Key(e), Key(f))
                => e \in queue \cup overtaken
<1> DEFINE run == [i \in 1 .. Len(okBatch) |-> Entry(okBatch[i], "APPLIED")]
           m == Len(okBatch)
<1>1. okBatch \in Seq(Requests) /\ okBatch # <<>> /\ dbCur \in Cursors
  BY DEF OrderInv, TypeInv, TypeOK, ControlIsConsistent, Cursors
<1>2. /\ m \in Nat \ {0} /\ DOMAIN okBatch = 1 .. m
      /\ \A i \in 1 .. m : okBatch[i] \in Requests /\ okBatch[i] \in log
  BY <1>1, LastOfBatch, LenProperties, ElementOfSeq DEF OrderInv, PageInv, BatchIsOrdered
<1>3. run \in Seq(JournalEntries) /\ Len(run) = m /\ DOMAIN run = 1 .. m /\ run # <<>>
  BY <1>1, <1>2, BatchEntries, EmptySeq DEF JournalEntries
<1>4. \A i \in 1 .. m : run[i].event = okBatch[i]
  BY DEF Entry
<1>5. settled' = settled \o run /\ dbCur' = Key(okBatch[m])
  BY DEF CommitBatch, LastKey
<1> HIDE DEF run, m
<1>6. m \in 1 .. m /\ okBatch[m] \in Fetched
  BY <1>2 DEF Fetched, Batched
<1>7. \A i \in 1 .. m :
        /\ Before(dbCur, Key(run[i].event)) /\ run[i].event \in log
        /\ \A j \in 1 .. m : i < j => Before(Key(run[i].event), Key(run[j].event))
  BY <1>2, <1>4 DEF OrderInv, PageInv, BatchIsOrdered
<1>8. \A e \in queue : Before(Key(okBatch[m]), Key(e))
  BY <1>2, <1>6 DEF OrderInv, PageInv, BatchIsOrdered
<1>9. \A e \in log : Key(e) \in Cursors
  BY RequestFacts DEF OrderInv, TypeInv, TypeOK
<1>10. ASSUME NEW e \in log, Before(dbCur, Key(e)), ~Before(Key(okBatch[m]), Key(e)),
              e \notin overtaken
       PROVE  \E i \in 1 .. m : okBatch[i] = e
  <2>1. Key(e) = Key(okBatch[m]) \/ Before(Key(e), Key(okBatch[m]))
    BY <1>2, <1>6, <1>9, <1>10, BeforeIsOrder
  <2>2. CASE Key(e) = Key(okBatch[m])
    <3>1. IsLog(log)
      BY RequestsAreLog DEF OrderInv, TypeInv, TypeOK
    <3> QED
      BY <1>2, <1>6, <2>2, <3>1, KeysAreDistinct
  <2>3. CASE Before(Key(e), Key(okBatch[m]))
    <3>1. e \in Fetched
      BY <1>6, <1>10, <2>3 DEF OrderInv, PageInv, PageIsClosed
    <3>2. e \notin queue
      BY <1>8, <1>10
    <3> QED
      BY <1>2, <3>1, <3>2 DEF Fetched, Batched
  <2> QED
    BY <2>1, <2>2, <2>3
<1>11. JournalInv'
  <2>1. TypeOK /\ JournalInv
    BY DEF OrderInv, TypeInv
  <2>2. \A e \in log :
          Before(dbCur, Key(e)) => \/ Before(Key(run[Len(run)].event), Key(e))
                                   \/ e \in overtaken
                                   \/ \E i \in DOMAIN run : run[i].event = e
    BY <1>3, <1>4, <1>6, <1>10
  <2>3. dbCur' = Key(run[Len(run)].event)
    BY <1>3, <1>4, <1>5, <1>6
  <2> QED
    BY <1>3, <1>5, <1>7, <2>1, <2>2, <2>3, CommitsSettle
<1>12. ASSUME NEW e \in log, NEW f \in queue,
              Before(dbCur', Key(e)), Before(Key(e), Key(f))
       PROVE  e \in queue \cup overtaken
  <2>1. Before(dbCur, Key(e))
    BY <1>1, <1>2, <1>4, <1>5, <1>6, <1>7, <1>9, <1>12, BeforeIsOrder
  <2>2. e \in Fetched \cup overtaken
    BY <1>12, <2>1 DEF Fetched, OrderInv, PageInv, PageIsClosed
  <2>3. ASSUME NEW i \in 1 .. m PROVE okBatch[i] # e
    <3>1. i = m \/ i < m
      BY <1>2
    <3>2. Key(okBatch[i]) = Key(okBatch[m]) \/ Before(Key(okBatch[i]), Key(okBatch[m]))
      BY <1>4, <1>6, <1>7, <3>1
    <3> QED
      BY <1>2, <1>5, <1>6, <1>9, <1>12, <3>2, BeforeIsOrder
  <2> QED
    BY <1>2, <2>2, <2>3 DEF Fetched, Batched
<1> QED
  BY <1>5, <1>8, <1>11, <1>12

\* So does the transaction of a dead letter.
LEMMA CommitDLQSettles ==
  ASSUME OrderInv, pc = "dlq", CommitDLQ, log' = log, overtaken' = overtaken
  PROVE  LET rest == queue \ {EarliestOf(queue)}
         IN  /\ JournalInv'
             /\ \A e \in rest : Before(dbCur', Key(e))
             /\ \A e \in log, f \in rest :
                  Before(dbCur', Key(e)) /\ Before(Key(e), Key(f))
                    => e \in rest \cup overtaken
<1> DEFINE d == EarliestOf(queue)
           run == <<Entry(d, verdict)>>
<1>1. /\ queue # {} /\ queue \subseteq log /\ log \subseteq Requests
      /\ okBatch = <<>> /\ dbCur \in Cursors /\ verdict \in Verdicts
  BY DEF OrderInv, TypeInv, TypeOK, ControlIsConsistent, Cursors
<1>2. d \in queue /\ \A f \in queue : f = d \/ Before(Key(d), Key(f))
  BY <1>1, EarliestRequest
<1>3. Fetched = queue
  BY <1>1 DEF Fetched, Batched
<1> HIDE DEF d
<1>4. \A e \in log : Key(e) \in Cursors
  BY <1>1, RequestFacts
<1>5. Before(dbCur, Key(d))
  BY <1>2 DEF OrderInv, PageInv, BatchIsOrdered
<1>6. ASSUME NEW e \in log, Before(dbCur, Key(e)), ~Before(Key(d), Key(e)),
             e \notin overtaken
      PROVE  e = d
  <2>1. Key(e) = Key(d) \/ Before(Key(e), Key(d))
    BY <1>1, <1>2, <1>4, <1>6, BeforeIsOrder
  <2>2. CASE Key(e) = Key(d)
    BY <1>1, <1>2, <2>2, RequestsAreLog, KeysAreDistinct
  <2>3. CASE Before(Key(e), Key(d))
    <3>1. e \in queue
      BY <1>2, <1>3, <1>6, <2>3 DEF OrderInv, PageInv, PageIsClosed
    <3> QED
      BY <1>2, <1>6, <3>1
  <2> QED
    BY <2>1, <2>2, <2>3
<1>7. JournalInv'
  <2>1. TypeOK /\ JournalInv
    BY DEF OrderInv, TypeInv
  <2>2. Entry(d, verdict) \in JournalEntries /\ Entry(d, verdict).event = d
    BY <1>1, <1>2 DEF Entry, JournalEntries
  <2>3. /\ run \in Seq(JournalEntries) /\ run # <<>> /\ Len(run) = 1
        /\ DOMAIN run = {1} /\ run[1].event = d
    BY <2>2
  <2>4. settled' = settled \o run
    BY <2>1, <2>2, AppendIsConcat DEF CommitDLQ, TypeOK, JournalEntries, d
  <2>5. dbCur' = Key(d)
    BY DEF CommitDLQ, d
  <2> HIDE DEF run
  <2>6. \A e \in log :
          Before(dbCur, Key(e)) => \/ Before(Key(run[Len(run)].event), Key(e))
                                   \/ e \in overtaken
                                   \/ \E i \in DOMAIN run : run[i].event = e
    BY <1>6, <2>3
  <2>7. /\ \A i \in DOMAIN run : run[i].event \in log /\ Before(dbCur, Key(run[i].event))
        /\ \A i, j \in DOMAIN run : i < j => Before(Key(run[i].event), Key(run[j].event))
    BY <1>1, <1>2, <1>5, <2>3
  <2>8. dbCur' = Key(run[Len(run)].event)
    BY <2>3, <2>5
  <2> QED
    BY <2>1, <2>3, <2>4, <2>6, <2>7, <2>8, CommitsSettle
<1>8. dbCur' = Key(d)
  BY DEF CommitDLQ, d
<1>9. ASSUME NEW e \in log, NEW f \in queue \ {d},
             Before(dbCur', Key(e)), Before(Key(e), Key(f))
      PROVE  e \in (queue \ {d}) \cup overtaken
  <2>1. Before(dbCur, Key(e)) /\ e # d
    BY <1>1, <1>2, <1>4, <1>5, <1>8, <1>9, BeforeIsOrder
  <2>2. e \in Fetched \cup overtaken
    BY <1>3, <1>9, <2>1 DEF OrderInv, PageInv, PageIsClosed
  <2> QED
    BY <1>3, <2>1, <2>2
<1> QED
  BY <1>2, <1>7, <1>8, <1>9 DEF d

LEMMA JournalUntouched ==
  ASSUME JournalInv, UNCHANGED <<log, dbCur, settled, overtaken>>
  PROVE  JournalInv'
BY DEF JournalInv, SettledIsLogged, SettledInOrder, NoSilentSkip, SettledEvents

LEMMA PageUntouched ==
  ASSUME PageInv, UNCHANGED <<log, dbCur, queue, okBatch, overtaken>>
  PROVE  PageInv'
BY DEF PageInv, BatchIsOrdered, PageIsClosed, Fetched, Batched

LEMMA NoPage ==
  ASSUME queue' = {}, okBatch' = <<>>
  PROVE  PageInv'
BY DEF PageInv, BatchIsOrdered, PageIsClosed, Fetched, Batched

\* A request that arrives behind what the worker holds or has settled is the
\* one case in which a page or the journal is not complete: it is overtaken.
LEMMA ArrivalKeepsOrder ==
  ASSUME OrderInv, NEW e \in Requests, PostTrade(e)
  PROVE  JournalInv' /\ PageInv'
<1>1. UNCHANGED <<dbCur, settled, queue, okBatch>>
  BY DEF PostTrade, database, pass
<1>2. CASE log' = log
  <2>1. overtaken' = overtaken
    BY <1>2 DEF PostTrade
  <2> QED
    BY <1>1, <1>2, <2>1, JournalUntouched, PageUntouched DEF OrderInv
<1>3. CASE log' # log
  <2>1. log' = log \cup {e} /\ e \notin log
    BY <1>3 DEF PostTrade, AppendEvent
  <2>2. /\ overtaken \subseteq overtaken'
        /\ Before(Key(e), dbCur) => e \in overtaken'
        /\ \A f \in Fetched : Before(Key(e), Key(f)) => e \in overtaken'
    BY <1>3 DEF PostTrade
  <2>3. Fetched' = Fetched
    BY <1>1 DEF Fetched, Batched
  <2>4. PageIsClosed'
    BY <1>1, <2>1, <2>2, <2>3 DEF OrderInv, PageInv, PageIsClosed
  <2>5. BatchIsOrdered'
    BY <1>1, <2>1 DEF OrderInv, PageInv, BatchIsOrdered
  <2>6. SettledIsLogged' /\ SettledInOrder' /\ SettledEvents' = SettledEvents
    BY <1>1, <2>1
    DEF OrderInv, JournalInv, SettledIsLogged, SettledInOrder, SettledEvents
  <2>7. Key(e) # dbCur
    <3>1. CASE settled = <<>>
      BY <3>1, RequestFacts DEF OrderInv, JournalInv, SettledInOrder
    <3>2. CASE settled # <<>>
      <4>1. Len(settled) \in DOMAIN settled
        BY <3>2, EmptySeq, LenProperties DEF OrderInv, TypeInv, TypeOK
      <4>2. /\ dbCur = Key(settled[Len(settled)].event)
            /\ settled[Len(settled)].event \in log
        BY <3>2, <4>1
        DEF OrderInv, JournalInv, SettledInOrder, SettledIsLogged, SettledEvents
      <4>3. IsLog(Requests) /\ log \subseteq Requests
        BY RequestsAreLog DEF OrderInv, TypeInv, TypeOK
      <4> QED
        BY <2>1, <4>2, <4>3, KeysAreDistinct
    <3> QED
      BY <3>1, <3>2
  <2>8. Key(e) \in Cursors /\ dbCur \in Cursors
    BY RequestFacts DEF OrderInv, TypeInv, TypeOK, Cursors
  <2>9. Before(dbCur, Key(e)) \/ e \in overtaken'
    BY <2>2, <2>7, <2>8, BeforeIsOrder
  <2>10. NoSilentSkip'
    BY <1>1, <2>1, <2>2, <2>6, <2>9 DEF OrderInv, JournalInv, NoSilentSkip
  <2> QED
    BY <2>4, <2>5, <2>6, <2>10 DEF JournalInv, PageInv
<1> QED
  BY <1>2, <1>3

\* A new page starts at the cursor and is closed.
LEMMA PageKeepsOrder ==
  ASSUME OrderInv, pc \in {"fetch", "rebuild"}, okBatch' = <<>>,
         UNCHANGED <<log, dbCur, overtaken>>,
         \/ /\ cur = dbCur
            /\ queue' = EligibleBatchAfterWatermark(FetchAfter(log, cur, PageLimit),
                          maxSeen - Watermark, Watermark, PageLimit)
         \/ dbCur = ZeroCursor /\ queue' = log
  PROVE  PageInv'
<1>1. /\ log \subseteq Requests /\ dbCur \in Cursors /\ cur \in Cursors
      /\ maxSeen \in Nat
  BY DEF OrderInv, TypeInv, TypeOK, Cursors
<1>2. IsLog(log) /\ IsFiniteSet(log)
  BY <1>1, RequestsAreLog
<1>3. Fetched' = queue'
  BY DEF Fetched, Batched
<1>4. /\ queue' \subseteq log
      /\ \A e \in queue' : Before(dbCur, Key(e))
      /\ \A e \in log, f \in queue' :
           Before(dbCur, Key(e)) /\ Before(Key(e), Key(f)) => e \in queue'
  <2>1. CASE dbCur = ZeroCursor /\ queue' = log
    BY <1>1, <2>1, RequestFacts, ZeroIsFirst
  <2>2. CASE /\ cur = dbCur
             /\ queue' = EligibleBatchAfterWatermark(FetchAfter(log, cur, PageLimit),
                           maxSeen - Watermark, Watermark, PageLimit)
    <3> DEFINE batch == FetchAfter(log, cur, PageLimit)
    <3>1. PageLimit \in Nat /\ maxSeen - Watermark \in Int
      BY <1>1, ParametersAssumption
    <3>2. /\ batch \subseteq log
          /\ \A e \in batch : Before(dbCur, Key(e))
          /\ \A e \in batch, f \in log :
               Before(dbCur, Key(f)) /\ Before(Key(f), Key(e)) => f \in batch
      BY <1>1, <1>2, <2>2, <3>1, PageIsPrefix
    <3> HIDE DEF batch
    <3>3. IsLog(batch)
      BY <1>2, <3>2, SubsetIsLog
    <3>4. /\ queue' \subseteq batch
          /\ \A e \in queue', f \in batch : Before(Key(f), Key(e)) => f \in queue'
      BY <2>2, <3>1, <3>3, EligibleIsPrefix DEF batch
    <3> QED
      BY <3>2, <3>4
  <2> QED
    BY <2>1, <2>2
<1> QED
  BY <1>3, <1>4 DEF PageInv, BatchIsOrdered, PageIsClosed

\* Moving the first event of the queue to the end of the batch.
LEMMA ApplyKeepsOrder ==
  ASSUME OrderInv, queue # {}, UNCHANGED <<log, dbCur, overtaken>>,
         okBatch' = Append(okBatch, EarliestOf(queue)),
         queue' = queue \ {EarliestOf(queue)}
  PROVE  PageInv'
<1> DEFINE d == EarliestOf(queue)
           n == Len(okBatch)
<1>1. queue \subseteq log /\ log \subseteq Requests /\ okBatch \in Seq(Requests)
  BY DEF OrderInv, TypeInv, TypeOK
<1>2. d \in queue /\ d \in Requests /\ \A f \in queue : f = d \/ Before(Key(d), Key(f))
  BY <1>1, EarliestRequest
<1> HIDE DEF d
<1>3. /\ n \in Nat /\ DOMAIN okBatch = 1 .. n
      /\ okBatch' \in Seq(Requests) /\ Len(okBatch') = n + 1
      /\ \A i \in 1 .. n : okBatch'[i] = okBatch[i]
      /\ okBatch'[n + 1] = d
  BY <1>1, <1>2, AppendProperties, LenProperties DEF d
<1>4. DOMAIN okBatch' = 1 .. n + 1
  BY <1>3, LenProperties
<1> HIDE DEF n
<1>5. Fetched' = Fetched
  <2>1. Batched' = Batched \cup {d}
    BY <1>3, <1>4 DEF Batched
  <2> QED
    BY <1>2, <2>1 DEF Fetched, d
<1>6. \A i \in DOMAIN okBatch' : \/ i \in DOMAIN okBatch /\ okBatch'[i] = okBatch[i]
                                 \/ i = n + 1 /\ okBatch'[i] = d
  BY <1>3, <1>4
<1>7. \A i, j \in DOMAIN okBatch' :
        i < j => i \in DOMAIN okBatch /\ okBatch'[i] = okBatch[i]
  BY <1>3, <1>4
<1>8. \A i, j \in DOMAIN okBatch' :
        i < j => Before(Key(okBatch'[i]), Key(okBatch'[j]))
  BY <1>2, <1>6, <1>7 DEF OrderInv, PageInv, BatchIsOrdered
<1>9. \A i \in DOMAIN okBatch' :
        okBatch'[i] \in log /\ Before(dbCur, Key(okBatch'[i]))
  BY <1>1, <1>2, <1>6 DEF OrderInv, PageInv, BatchIsOrdered
<1>10. \A i \in DOMAIN okBatch', e \in queue \ {d} :
         Before(Key(okBatch'[i]), Key(e))
  BY <1>2, <1>6 DEF OrderInv, PageInv, BatchIsOrdered
<1>11. BatchIsOrdered'
  BY <1>8, <1>9, <1>10 DEF OrderInv, PageInv, BatchIsOrdered, d
<1>12. PageIsClosed'
  BY <1>5 DEF OrderInv, PageInv, PageIsClosed
<1> QED
  BY <1>11, <1>12 DEF PageInv

\* A failed pass leaves no page; the worker it leaves agrees with a database
\* that did not move, or is forgotten.
LEMMA FailedPassKeepsOrder ==
  ASSUME OrderInv, PassFails, pc \in InPass \cup {"rebuild"},
         rebuilding \/ (pc # "rebuild" /\ dbCur' = dbCur)
  PROVE  PageInv' /\ CursorIsCached'
<1>1. queue' = {} /\ okBatch' = <<>> /\ pc' = "idle"
  BY DEF PassFails, ClearPass
<1>2. CASE rebuilding
  <2>1. known' = FALSE
    BY <1>2 DEF PassFails, ForgetWorker
  <2> QED
    BY <1>1, <2>1, NoPage DEF CursorIsCached, InPass
<1>3. CASE ~rebuilding
  <2>1. known' = known /\ cur' = cur
    BY <1>3 DEF PassFails, memory
  <2> QED
    BY <1>1, <1>3, <2>1, NoPage DEF OrderInv, CursorIsCached, InPass
<1> QED
  BY <1>2, <1>3

LEMMA EndedPassKeepsOrder ==
  ASSUME OrderInv, PassEnds, pc \in InPass, dbCur' = dbCur
  PROVE  PageInv' /\ CursorIsCached'
<1>1. queue' = {} /\ okBatch' = <<>> /\ pc' \in {"max", "idle"}
  BY DEF PassEnds, ClearPass
<1>2. known' = known /\ cur' = cur
  BY DEF PassEnds, memory
<1> QED
  BY <1>1, <1>2, NoPage DEF OrderInv, CursorIsCached, InPass

LEMMA InitOrder == Init => OrderInv
<1> SUFFICES ASSUME Init PROVE OrderInv
  OBVIOUS
<1>1. TypeInv
  BY InitTypeInv
<1> QED
  BY <1>1
  DEF Init, OrderInv, CursorIsCached, InPass, JournalInv, SettledIsLogged,
      SettledInOrder, SettledEvents, NoSilentSkip, PageInv, BatchIsOrdered,
      PageIsClosed, Fetched, Batched

LEMMA NextOrder ==
  ASSUME AcksArrive
  PROVE  OrderInv /\ [Next]_vars => OrderInv'
<1> SUFFICES ASSUME OrderInv, [Next]_vars PROVE OrderInv'
  OBVIOUS
<1> USE DEF world, database, memory, pass
<1>0. TypeInv'
  BY NextTypeInv DEF OrderInv
<1>a. SUFFICES CursorIsCached' /\ JournalInv' /\ PageInv'
  BY <1>0 DEF OrderInv
<1>b. TypeOK /\ ControlIsConsistent /\ CursorIsCached /\ JournalInv /\ PageInv
  BY DEF OrderInv, TypeInv
<1>1. ASSUME NEW e \in Requests, PostTrade(e)
      PROVE  CursorIsCached' /\ JournalInv' /\ PageInv'
  <2>1. CursorIsCached'
    BY <1>1, <1>b DEF PostTrade, CursorIsCached
  <2> QED
    BY <1>1, <2>1, ArrivalKeepsOrder
<1>2. CASE ClockTicks
  BY <1>2, <1>b, JournalUntouched, PageUntouched DEF ClockTicks, CursorIsCached
<1>3. CASE Start
  BY <1>3, <1>b, JournalUntouched, PageUntouched DEF Start, CursorIsCached, InPass
<1>4. CASE Tick
  BY <1>4, <1>b, JournalUntouched, PageUntouched DEF Tick, CursorIsCached, InPass
<1>5. CASE Rebuild
  <2>1. CASE RebuildFromSnapshot
    <3>1. /\ pc = "rebuild" /\ pc' = "max"
          /\ UNCHANGED <<world, database, known, queue, okBatch>>
      BY <2>1 DEF RebuildFromSnapshot
    <3>2. cur' = dbCur
      BY <1>b, <2>1 DEF RebuildFromSnapshot, Usable, ControlIsConsistent
    <3> QED
      BY <1>b, <3>1, <3>2, JournalUntouched, PageUntouched DEF CursorIsCached, InPass
  <2>2. ASSUME NEW r \in BOOLEAN, RebuildFromLog(r)
        PROVE  CursorIsCached' /\ JournalInv' /\ PageInv'
    <3>1. /\ pc = "rebuild" /\ pc' = "apply" /\ dbCur = ZeroCursor
          /\ cur' = ZeroCursor /\ queue' = log
          /\ UNCHANGED <<world, database, known, okBatch>>
      BY <2>2 DEF RebuildFromLog
    <3>2. okBatch' = <<>>
      BY <1>b, <3>1 DEF ControlIsConsistent
    <3>3. PageInv'
      BY <3>1, <3>2, PageKeepsOrder
    <3> QED
      BY <1>b, <3>1, <3>3, JournalUntouched DEF CursorIsCached, InPass
  <2>3. ASSUME NEW r \in BOOLEAN, RebuildFromProjection(r)
        PROVE  CursorIsCached' /\ JournalInv' /\ PageInv'
    <3>1. /\ pc = "rebuild" /\ pc' = "max" /\ cur' = dbCur
          /\ UNCHANGED <<world, database, known, queue, okBatch>>
      BY <2>3 DEF RebuildFromProjection
    <3> QED
      BY <1>b, <3>1, JournalUntouched, PageUntouched DEF CursorIsCached, InPass
  <2> QED
    BY <1>5, <2>1, <2>2, <2>3 DEF Rebuild
<1>6. CASE ReadMaxEventTime
  BY <1>6, <1>b, JournalUntouched, PageUntouched
  DEF ReadMaxEventTime, CursorIsCached, InPass
<1>7. CASE FetchPage
  <2> DEFINE eligible ==
        EligibleBatchAfterWatermark(FetchAfter(log, cur, PageLimit),
                                    maxSeen - Watermark, Watermark, PageLimit)
  <2>1. pc = "fetch" /\ UNCHANGED <<world, database, faults>>
    BY <1>7 DEF FetchPage
  <2>2. CASE PassEnds
    BY <1>b, <2>1, <2>2, EndedPassKeepsOrder, JournalUntouched DEF InPass
  <2>3. CASE /\ queue' = eligible /\ pc' = "apply"
             /\ UNCHANGED <<memory, okBatch>>
    <3>1. cur = dbCur /\ okBatch' = <<>>
      BY <1>b, <2>1, <2>3 DEF CursorIsCached, InPass, ControlIsConsistent
    <3>2. PageInv'
      BY <2>1, <2>3, <3>1, PageKeepsOrder
    <3> QED
      BY <1>b, <2>1, <2>3, <3>2, JournalUntouched DEF CursorIsCached, InPass
  <2> QED
    BY <1>7, <2>2, <2>3 DEF FetchPage
<1>8. CASE ApplyNext
  <2>1. /\ pc = "apply" /\ queue # {}
        /\ UNCHANGED <<world, database, known, cur>>
    BY <1>8 DEF ApplyNext
  <2>2. JournalInv'
    BY <1>b, <2>1, JournalUntouched
  <2>3. CASE \E r \in {"EVENT_TOO_STALE", "POSITION_UNDERFLOW"} :
               Stop(EarliestOf(queue), r)
    BY <1>b, <2>1, <2>2, <2>3, PageUntouched DEF Stop, CursorIsCached, InPass
  <2>4. CASE /\ okBatch' = Append(okBatch, EarliestOf(queue))
             /\ queue' = queue \ {EarliestOf(queue)}
             /\ UNCHANGED <<pc, verdict>>
    BY <1>b, <2>1, <2>2, <2>4, ApplyKeepsOrder DEF CursorIsCached, InPass
  <2> QED
    BY <1>8, <2>3, <2>4 DEF ApplyNext
<1>9. CASE ApplyDone
  <2>1. pc = "apply" /\ UNCHANGED <<world, database, faults>>
    BY <1>9 DEF ApplyDone
  <2>2. CASE PassEnds
    BY <1>b, <2>1, <2>2, EndedPassKeepsOrder, JournalUntouched DEF InPass
  <2>3. CASE pc' \in {"flush", "max"} /\ UNCHANGED <<memory, pass>>
    BY <1>b, <2>1, <2>3, JournalUntouched, PageUntouched DEF CursorIsCached, InPass
  <2> QED
    BY <1>9, <2>2, <2>3 DEF ApplyDone
<1>10. CASE Flush
  <2>1. /\ pc = "flush" /\ CommitBatch /\ cur' = LastKey /\ okBatch' = <<>>
        /\ UNCHANGED <<world, known, queue>>
    BY <1>10 DEF Flush
  <2>2. pc' \in {"snapshot", "apply", "dlq"}
    BY <1>10 DEF Flush, Resume
  <2>3. /\ JournalInv'
        /\ \A e \in queue : Before(dbCur', Key(e))
        /\ \A e \in log, f \in queue :
             Before(dbCur', Key(e)) /\ Before(Key(e), Key(f))
               => e \in queue \cup overtaken
    BY <2>1, CommitBatchSettles
  <2>4. Fetched' = queue /\ DOMAIN okBatch' = {}
    BY <2>1 DEF Fetched, Batched
  <2>5. PageInv'
    BY <2>1, <2>3, <2>4 DEF PageInv, BatchIsOrdered, PageIsClosed
  <2>6. dbCur' = cur'
    BY <2>1 DEF CommitBatch
  <2> QED
    BY <1>b, <2>1, <2>2, <2>3, <2>5, <2>6 DEF CursorIsCached, InPass
<1>11. CASE WriteSnapshot
  <2>1. /\ pc = "snapshot" /\ pc' \in {"apply", "dlq"}
        /\ UNCHANGED <<world, dbCur, settled, known, cur, queue, okBatch>>
    BY <1>11 DEF WriteSnapshot, Resume
  <2> QED
    BY <1>b, <2>1, JournalUntouched, PageUntouched DEF CursorIsCached, InPass
<1>12. CASE DeadLetter
  <2> DEFINE rest == queue \ {EarliestOf(queue)}
  <2>1. /\ pc = "dlq" /\ pc' = "apply" /\ CommitDLQ /\ queue' = rest
        /\ cur' = Key(EarliestOf(queue))
        /\ UNCHANGED <<world, known, okBatch>>
    BY <1>12 DEF DeadLetter
  <2>2. /\ JournalInv'
        /\ \A e \in rest : Before(dbCur', Key(e))
        /\ \A e \in log, f \in rest :
             Before(dbCur', Key(e)) /\ Before(Key(e), Key(f))
               => e \in rest \cup overtaken
    BY <2>1, CommitDLQSettles
  <2>3. okBatch' = <<>>
    BY <1>b, <2>1 DEF ControlIsConsistent
  <2>4. dbCur' = cur'
    BY <2>1 DEF CommitDLQ
  <2> HIDE DEF rest
  <2>5. Fetched' = rest /\ DOMAIN okBatch' = {}
    BY <2>1, <2>3 DEF Fetched, Batched
  <2>6. PageInv'
    BY <2>1, <2>2, <2>3, <2>5 DEF PageInv, BatchIsOrdered, PageIsClosed
  <2> QED
    BY <1>b, <2>1, <2>2, <2>4, <2>6 DEF CursorIsCached, InPass
<1>13. CASE Crash
  <2>1. /\ queue' = {} /\ okBatch' = <<>> /\ pc' = "down" /\ known' = FALSE
        /\ UNCHANGED <<world, database>>
    BY <1>13 DEF Crash, ClearPass, ForgetWorker
  <2> QED
    BY <1>b, <2>1, JournalUntouched, NoPage DEF CursorIsCached, InPass
<1>14. CASE ReadFails
  <2>1. PassFails /\ pc \in {"rebuild", "max", "fetch"} /\ UNCHANGED <<world, database>>
    BY <1>14 DEF ReadFails
  <2>2. pc = "rebuild" => rebuilding
    BY <1>b DEF CursorIsCached
  <2> QED
    BY <1>b, <2>1, <2>2, JournalUntouched, FailedPassKeepsOrder DEF InPass
<1>15. CASE ApplyBatchFails
  <2>1. PassFails /\ pc = "flush" /\ UNCHANGED <<world, database>>
    BY <1>15 DEF ApplyBatchFails
  <2> QED
    BY <1>b, <2>1, JournalUntouched, FailedPassKeepsOrder DEF InPass
<1>16. CASE ApplyBatchAckLost
  <2>1. PassFails /\ pc = "flush" /\ CommitBatch /\ UNCHANGED world
    BY <1>16 DEF ApplyBatchAckLost
  <2>2. rebuilding
    BY <1>16, AcksArrive DEF ApplyBatchAckLost, Fault, AcksArrive
  <2> QED
    BY <2>1, <2>2, CommitBatchSettles, FailedPassKeepsOrder DEF InPass
<1>17. CASE SnapshotFails
  <2>1. /\ pc = "snapshot" /\ pc' \in {"apply", "dlq"}
        /\ UNCHANGED <<world, dbCur, settled, known, cur, queue, okBatch>>
    BY <1>17 DEF SnapshotFails, Resume
  <2> QED
    BY <1>b, <2>1, JournalUntouched, PageUntouched DEF CursorIsCached, InPass
<1>18. CASE DeadLetterFails
  <2>1. PassFails /\ pc = "dlq" /\ UNCHANGED <<world, database>>
    BY <1>18 DEF DeadLetterFails
  <2> QED
    BY <1>b, <2>1, JournalUntouched, FailedPassKeepsOrder DEF InPass
<1>19. CASE DeadLetterAckLost
  <2>1. PassFails /\ pc = "dlq" /\ CommitDLQ /\ UNCHANGED world
    BY <1>19 DEF DeadLetterAckLost
  <2>2. rebuilding
    BY <1>19, AcksArrive DEF DeadLetterAckLost, Fault, AcksArrive
  <2>3. JournalInv'
    BY <1>b, <2>1, CommitDLQSettles
  <2> QED
    BY <2>1, <2>2, <2>3, FailedPassKeepsOrder DEF InPass
<1>20. CASE UNCHANGED vars
  BY <1>20, <1>b, JournalUntouched, PageUntouched DEF vars, CursorIsCached
<1> QED
  BY <1>1, <1>2, <1>3, <1>4, <1>5, <1>6, <1>7, <1>8, <1>9, <1>10, <1>11, <1>12,
     <1>13, <1>14, <1>15, <1>16, <1>17, <1>18, <1>19, <1>20
  DEF Next, Worker, Failure

\* The stored cursor only moves together with the rows or the dead letter it
\* covers, and every event is settled at most once and in key order, whatever
\* crashes and failed calls (other than a commit whose answer is lost in an
\* incremental pass) lie in between.
THEOREM OnceAndInOrder ==
  ASSUME AcksArrive
  PROVE  Spec => []SettledInOrder
<1>1. OrderInv => SettledInOrder
  BY DEF OrderInv, JournalInv
<1>2. OrderInv /\ [Next]_vars => OrderInv'
  BY NextOrder
<1> QED
  BY InitOrder, <1>1, <1>2, PTL DEF Spec

-----------------------------------------------------------------------------
(* The aggregate in memory and the rows.                                   *)

\* No commit of an incremental pass fails: the assumption under which the kept
\* worker is right about the database.
CommitsSucceed == {"apply", "applyAck", "dlqAck"} \cap FaultKinds = {}

\* Rows hold what a column can hold; the snapshot at the cursor is the rows;
\* the aggregate differs from the rows at most in what is being applied.
BookAgrees ==
  /\ StoredPositions(positions) = positions
  /\ dbCur = ZeroCursor => positions = NoPositions
  /\ \A s \in snapshots : /\ s.asOf = dbCur => s.lots = positions
                          /\ ~Before(dbCur, s.asOf)
  /\ known /\ pc # "rebuild" =>
       \A x \in Symbols : \/ \E e \in Batched : e.sym = x
                          \/ StoredLot(agg[x]) = positions[x]

BookInv == OrderInv /\ BookAgrees

LEMMA StoredNothing == StoredPositions(NoPositions) = NoPositions
<1>1. StoredLot(ZeroLot) = ZeroLot
  BY UnitTypes, ZeroIsStored DEF StoredLot, ZeroLot
<1> QED
  BY <1>1 DEF StoredPositions, NoPositions

\* With nothing in flight the aggregate stores as the rows.
LEMMA NothingInFlight ==
  ASSUME TypeOK, BookAgrees, known, pc # "rebuild", okBatch = <<>>
  PROVE  StoredPositions(agg) = positions
<1>1. \A x \in Symbols : StoredLot(agg[x]) = positions[x]
  BY DEF BookAgrees, Batched
<1> QED
  BY <1>1 DEF StoredPositions, TypeOK

\* A committed batch makes the rows the stored form of the aggregate.
LEMMA CommitStores ==
  ASSUME BookInv, pc = "flush", CommitBatch
  PROVE  /\ positions' = StoredPositions(agg)
         /\ StoredPositions(positions') = positions'
         /\ dbCur' # ZeroCursor
         /\ \A s \in snapshots' : s.asOf # dbCur' /\ ~Before(dbCur', s.asOf)
<1>1. TypeInv /\ TypeOK /\ known /\ okBatch # <<>> /\ okBatch \in Seq(Requests)
  BY DEF BookInv, OrderInv, TypeInv, TypeOK, ControlIsConsistent, CursorIsCached, InPass
<1>2. positions' = StoredPositions(agg)
  <2>1. \A x \in Symbols : (IF \E e \in Batched : e.sym = x
                            THEN StoredLot(agg[x]) ELSE positions[x]) = StoredLot(agg[x])
    BY <1>1 DEF BookInv, BookAgrees
  <2> QED
    BY <2>1 DEF CommitBatch, StoredPositions
<1>3. StoredPositions(positions') = positions'
  BY <1>1, <1>2, StoringIsIdempotent DEF StoredPositions, TypeOK
<1>4. dbCur' = LastKey /\ dbCur' # ZeroCursor /\ dbCur' \in Cursors /\ snapshots' = snapshots
  BY <1>1, CommitBatchType DEF Cursors
<1>5. Before(dbCur, dbCur') /\ dbCur \in Cursors
  <2>1. Len(okBatch) \in DOMAIN okBatch
    BY <1>1, LastOfBatch
  <2> QED
    BY <1>1, <1>4, <2>1
    DEF BookInv, OrderInv, PageInv, BatchIsOrdered, LastKey, TypeOK, Cursors
<1>6. ASSUME NEW s \in snapshots PROVE s.asOf # dbCur' /\ ~Before(dbCur', s.asOf)
  <2>1. s.asOf \in Cursors /\ ~Before(dbCur, s.asOf)
    BY <1>1 DEF TypeOK, BookInv, BookAgrees, Cursors
  <2> QED
    BY <1>4, <1>5, <2>1, BeforeIsOrder
<1> QED
  BY <1>2, <1>3, <1>4, <1>6

\* A dead letter moves the cursor and leaves the rows alone.
LEMMA DeadLetterStores ==
  ASSUME BookInv, pc = "dlq", CommitDLQ
  PROVE  /\ positions' = positions
         /\ dbCur' # ZeroCursor
         /\ \A s \in snapshots' : s.asOf # dbCur' /\ ~Before(dbCur', s.asOf)
<1>1. TypeInv /\ TypeOK
  BY DEF BookInv, OrderInv, TypeInv
<1>2. /\ EarliestOf(queue) \in queue /\ dbCur' = Key(EarliestOf(queue))
      /\ dbCur' \in Cursors /\ dbCur' # ZeroCursor
      /\ positions' = positions /\ snapshots' = snapshots
  BY <1>1, CommitDLQType DEF Cursors
<1>3. Before(dbCur, dbCur') /\ dbCur \in Cursors
  BY <1>1, <1>2 DEF BookInv, OrderInv, PageInv, BatchIsOrdered, TypeOK, Cursors
<1>4. ASSUME NEW s \in snapshots PROVE s.asOf # dbCur' /\ ~Before(dbCur', s.asOf)
  <2>1. s.asOf \in Cursors /\ ~Before(dbCur, s.asOf)
    BY <1>1 DEF TypeOK, BookInv, BookAgrees, Cursors
  <2> QED
    BY <1>2, <1>3, <2>1, BeforeIsOrder
<1> QED
  BY <1>2, <1>4

\* A snapshot is written with the rows it stands for.
LEMMA SnapshotStores ==
  ASSUME BookInv, pc = "snapshot", InsertSnapshot, cur = dbCur,
         UNCHANGED <<positions, dbCur>>
  PROVE  \A s \in snapshots' : /\ s.asOf = dbCur' => s.lots = positions'
                               /\ ~Before(dbCur', s.asOf)
<1>1. TypeOK /\ BookAgrees /\ known /\ okBatch = <<>> /\ dbCur \in Cursors
  BY DEF BookInv, OrderInv, TypeInv, TypeOK, ControlIsConsistent, CursorIsCached,
         InPass, Cursors
<1>2. StoredPositions(agg) = positions
  BY <1>1, NothingInFlight
<1>3. ~Before(dbCur, dbCur)
  BY <1>1, BeforeIsOrder
<1> QED
  BY <1>1, <1>2, <1>3 DEF InsertSnapshot, BookAgrees

\* Whatever a rebuild starts from, it is the rows.
LEMMA RebuildReads ==
  ASSUME BookInv, Rebuild
  PROVE  /\ agg' = positions
         /\ pc = "rebuild"
         /\ UNCHANGED <<database, log, known, okBatch, verdict>>
<1>1. ControlIsConsistent /\ BookAgrees
  BY DEF BookInv, OrderInv, TypeInv
<1> USE DEF database, world, memory, pass
<1>2. CASE RebuildFromSnapshot
  <2>1. PICK s \in snapshots : Usable(s) /\ agg' = s.lots
    BY <1>2 DEF RebuildFromSnapshot
  <2>2. s.asOf = dbCur
    BY <1>1, <2>1 DEF Usable, ControlIsConsistent
  <2>3. agg' = positions
    BY <1>1, <2>1, <2>2 DEF BookAgrees
  <2> QED
    BY <1>2, <2>3 DEF RebuildFromSnapshot
<1>3. ASSUME NEW r \in BOOLEAN, RebuildFromLog(r)
      PROVE  /\ agg' = positions
             /\ pc = "rebuild"
             /\ UNCHANGED <<database, log, known, okBatch, verdict>>
  <2>1. agg' = positions
    BY <1>1, <1>3 DEF RebuildFromLog, BookAgrees
  <2> QED
    BY <1>3, <2>1 DEF RebuildFromLog
<1>4. ASSUME NEW r \in BOOLEAN, RebuildFromProjection(r)
      PROVE  /\ agg' = positions
             /\ pc = "rebuild"
             /\ UNCHANGED <<database, log, known, okBatch, verdict>>
  BY <1>4 DEF RebuildFromProjection
<1> QED
  BY <1>2, <1>3, <1>4 DEF Rebuild

LEMMA InitBook == Init => BookInv
<1> SUFFICES ASSUME Init PROVE BookInv
  OBVIOUS
<1> QED
  BY InitOrder, StoredNothing DEF Init, BookInv, BookAgrees

LEMMA NextBook ==
  ASSUME CommitsSucceed
  PROVE  BookInv /\ [Next]_vars => BookInv'
<1> SUFFICES ASSUME BookInv, [Next]_vars PROVE BookAgrees'
  <2>1. AcksArrive
    BY DEF CommitsSucceed, AcksArrive
  <2> QED
    BY <2>1, NextOrder DEF BookInv
<1> USE DEF world, database, memory, pass
<1>b. /\ TypeOK /\ ControlIsConsistent /\ CursorIsCached /\ BookAgrees /\ OrderInv
      /\ dbCur \in Cursors
  BY DEF BookInv, OrderInv, TypeInv, TypeOK, Cursors
<1>0. ASSUME UNCHANGED <<positions, dbCur, snapshots>>,
             known' /\ pc' # "rebuild" =>
               \A x \in Symbols : \/ \E e \in Batched' : e.sym = x
                                  \/ StoredLot(agg'[x]) = positions[x]
      PROVE  BookAgrees'
  BY <1>0, <1>b DEF BookAgrees
\* Steps that leave the aggregate, the batch and the rows alone.
<1>1. ASSUME UNCHANGED <<positions, dbCur, snapshots, agg, okBatch>>,
             known' /\ pc' # "rebuild" => known /\ pc # "rebuild"
      PROVE  BookAgrees'
  BY <1>0, <1>1, <1>b DEF BookAgrees, Batched
\* Returns from a pass with nothing in flight, and a worker that is forgotten.
<1>2. ASSUME UNCHANGED <<positions, dbCur, snapshots>>, okBatch' = <<>>,
             ~known' \/ (okBatch = <<>> /\ agg' = agg /\ known /\ pc # "rebuild")
      PROVE  BookAgrees'
  BY <1>0, <1>2, <1>b DEF BookAgrees, Batched
<1>3. ASSUME PassFails, UNCHANGED database,
             rebuilding \/ (okBatch = <<>> /\ pc \in InPass)
      PROVE  BookAgrees'
  <2>1. okBatch' = <<>>
    BY <1>3 DEF PassFails, ClearPass
  <2>2. CASE rebuilding
    <3>1. ~known'
      BY <1>3, <2>2 DEF PassFails, ForgetWorker
    <3> QED
      BY <1>2, <1>3, <2>1, <3>1
  <2>3. CASE ~rebuilding
    <3>1. agg' = agg /\ known
      BY <1>3, <1>b, <2>3 DEF PassFails, CursorIsCached
    <3> QED
      BY <1>2, <1>3, <2>1, <2>3, <3>1 DEF InPass
  <2> QED
    BY <2>2, <2>3
<1>4. ASSUME PassEnds, UNCHANGED database, pc \in InPass, okBatch = <<>>
      PROVE  BookAgrees'
  <2>1. okBatch' = <<>> /\ agg' = agg /\ known
    BY <1>4, <1>b DEF PassEnds, ClearPass, CursorIsCached
  <2> QED
    BY <1>2, <1>4, <2>1 DEF InPass
<1>5. ASSUME NEW e \in Requests, PostTrade(e) PROVE BookAgrees'
  BY <1>1, <1>5 DEF PostTrade
<1>6. CASE ClockTicks \/ Start \/ ReadMaxEventTime
  BY <1>1, <1>6 DEF ClockTicks, Start, ReadMaxEventTime
<1>7. CASE Tick
  BY <1>1, <1>7 DEF Tick
<1>8. CASE Rebuild
  <2>1. UNCHANGED database /\ agg' = positions
    BY <1>8, RebuildReads
  <2>2. \A x \in Symbols : StoredLot(agg'[x]) = positions[x]
    BY <1>b, <2>1 DEF BookAgrees, StoredPositions
  <2> QED
    BY <1>0, <2>1, <2>2
<1>9. CASE FetchPage
  <2>1. /\ pc = "fetch" /\ UNCHANGED database
        /\ PassEnds \/ (pc' = "apply" /\ UNCHANGED <<memory, okBatch>>)
    BY <1>9 DEF FetchPage
  <2>2. okBatch = <<>> /\ known
    BY <1>b, <2>1 DEF ControlIsConsistent, CursorIsCached, InPass
  <2> QED
    BY <1>1, <1>4, <2>1, <2>2 DEF InPass
<1>10. CASE ApplyNext
  <2> DEFINE d == EarliestOf(queue)
  <2>1. /\ pc = "apply" /\ queue # {} /\ UNCHANGED <<database, known>>
    BY <1>10 DEF ApplyNext
  <2>2. CASE \E r \in {"EVENT_TOO_STALE", "POSITION_UNDERFLOW"} : Stop(d, r)
    BY <1>1, <1>b, <2>1, <2>2 DEF Stop, CursorIsCached, InPass
  <2>3. CASE agg' = ApplyTrade(agg, d) /\ okBatch' = Append(okBatch, d)
    <3>1. d \in Requests /\ okBatch \in Seq(Requests)
      BY <1>b, <2>1, EarliestRequest DEF TypeOK
    <3> HIDE DEF d
    <3>2. Batched' = Batched \cup {d}
      <4>1. /\ Len(okBatch) \in Nat /\ DOMAIN okBatch = 1 .. Len(okBatch)
            /\ DOMAIN okBatch' = 1 .. Len(okBatch) + 1
            /\ \A i \in 1 .. Len(okBatch) : okBatch'[i] = okBatch[i]
            /\ okBatch'[Len(okBatch) + 1] = d
        BY <2>3, <3>1, AppendProperties, LenProperties
      <4> QED
        BY <4>1 DEF Batched
    <3>3. \A x \in Symbols : x # d.sym => agg'[x] = agg[x]
      BY <1>b, <2>3 DEF ApplyTrade, TypeOK
    <3>4. known /\ pc # "rebuild"
      BY <1>b, <2>1 DEF CursorIsCached, InPass
    <3>5. \A x \in Symbols : \/ \E e \in Batched' : e.sym = x
                             \/ StoredLot(agg'[x]) = positions[x]
      BY <1>b, <3>2, <3>3, <3>4 DEF BookAgrees
    <3> QED
      BY <1>0, <2>1, <3>5
  <2> QED
    BY <1>10, <2>2, <2>3 DEF ApplyNext
<1>11. CASE ApplyDone
  <2>1. /\ pc = "apply" /\ UNCHANGED database
        /\ \/ okBatch = <<>> /\ PassEnds
           \/ pc' \in {"flush", "max"} /\ UNCHANGED <<memory, pass>>
    BY <1>11 DEF ApplyDone
  <2> QED
    BY <1>1, <1>4, <2>1 DEF InPass
<1>12. CASE Flush
  <2>1. /\ pc = "flush" /\ CommitBatch /\ okBatch' = <<>> /\ agg' = agg
    BY <1>12 DEF Flush
  <2>2. \A x \in Symbols : StoredLot(agg'[x]) = positions'[x]
    BY <2>1, CommitStores DEF StoredPositions
  <2> QED
    BY <2>1, <2>2, CommitStores DEF BookAgrees
<1>13. CASE ApplyBatchAckLost
  <2>1. pc = "flush" /\ CommitBatch /\ PassFails
    BY <1>13 DEF ApplyBatchAckLost
  <2>2. rebuilding
    BY <1>13 DEF ApplyBatchAckLost, Fault, CommitsSucceed
  <2>3. ~known'
    BY <2>1, <2>2 DEF PassFails, ForgetWorker
  <2> QED
    BY <2>1, <2>3, CommitStores DEF BookAgrees
<1>14. CASE WriteSnapshot
  <2>1. /\ pc = "snapshot" /\ pc' \in {"apply", "dlq"}
        /\ UNCHANGED <<positions, dbCur, known, agg, okBatch>>
    BY <1>14 DEF WriteSnapshot, Resume
  <2>2. CASE UNCHANGED snapshots
    BY <1>1, <2>1, <2>2
  <2>3. CASE InsertSnapshot /\ cur = dbCur
    BY <1>b, <2>1, <2>3, SnapshotStores DEF BookAgrees, Batched
  <2> QED
    BY <1>14, <2>2, <2>3 DEF WriteSnapshot
<1>15. CASE SnapshotFails
  <2>1. /\ pc = "snapshot" /\ pc' \in {"apply", "dlq"}
        /\ UNCHANGED <<positions, dbCur, known, agg, okBatch>>
    BY <1>15 DEF SnapshotFails, Resume
  <2>2. CASE UNCHANGED snapshots
    BY <1>1, <2>1, <2>2
  <2>3. CASE InsertSnapshot /\ cur = dbCur
    BY <1>b, <2>1, <2>3, SnapshotStores DEF BookAgrees, Batched
  <2> QED
    BY <1>15, <2>2, <2>3 DEF SnapshotFails
<1>16. CASE DeadLetter
  <2>1. /\ pc = "dlq" /\ CommitDLQ /\ UNCHANGED <<known, agg, okBatch>>
    BY <1>16 DEF DeadLetter
  <2> QED
    BY <1>b, <2>1, DeadLetterStores DEF BookAgrees, Batched
<1>17. CASE DeadLetterAckLost
  <2>1. pc = "dlq" /\ CommitDLQ /\ PassFails
    BY <1>17 DEF DeadLetterAckLost
  <2>2. rebuilding
    BY <1>17 DEF DeadLetterAckLost, Fault, CommitsSucceed
  <2>3. ~known'
    BY <2>1, <2>2 DEF PassFails, ForgetWorker
  <2> QED
    BY <1>b, <2>1, <2>3, DeadLetterStores DEF BookAgrees, Batched
<1>18. CASE Crash
  <2>1. UNCHANGED database /\ okBatch' = <<>> /\ ~known'
    BY <1>18 DEF Crash, ClearPass, ForgetWorker
  <2> QED
    BY <1>2, <2>1
<1>19. CASE ReadFails
  <2>1. PassFails /\ UNCHANGED database /\ pc \in {"rebuild", "max", "fetch"}
    BY <1>19 DEF ReadFails
  <2>2. rebuilding \/ (okBatch = <<>> /\ pc \in InPass)
    BY <1>b, <2>1 DEF CursorIsCached, ControlIsConsistent, InPass
  <2> QED
    BY <1>3, <2>1, <2>2
<1>20. CASE ApplyBatchFails
  <2>1. PassFails /\ UNCHANGED database /\ rebuilding
    BY <1>20 DEF ApplyBatchFails, Fault, CommitsSucceed
  <2> QED
    BY <1>3, <2>1
<1>21. CASE DeadLetterFails
  <2>1. PassFails /\ UNCHANGED database /\ pc = "dlq"
    BY <1>21 DEF DeadLetterFails
  <2>2. okBatch = <<>> /\ pc \in InPass
    BY <1>b, <2>1 DEF ControlIsConsistent, InPass
  <2> QED
    BY <1>3, <2>1, <2>2
<1>22. CASE UNCHANGED vars
  BY <1>1, <1>22 DEF vars
<1> QED
  BY <1>5, <1>6, <1>7, <1>8, <1>9, <1>10, <1>11, <1>12, <1>13, <1>14, <1>15,
     <1>16, <1>17, <1>18, <1>19, <1>20, <1>21, <1>22
  DEF Next, Worker, Failure

\* The cache the incremental ticks trust: between two passes the kept cursor is
\* the stored one and the kept aggregate is, once rounded, the stored rows.
THEOREM CacheIsRight ==
  ASSUME CommitsSucceed
  PROVE  Spec => []MemoryAgreesWithDatabase
<1>1. Init => BookInv
  BY InitBook
<1>2. BookInv /\ [Next]_vars => BookInv'
  BY NextBook
<1>3. BookInv => MemoryAgreesWithDatabase
  <2> SUFFICES ASSUME BookInv, pc = "idle", known
               PROVE  cur = dbCur /\ StoredPositions(agg) = positions
    BY DEF MemoryAgreesWithDatabase
  <2>1. TypeOK /\ BookAgrees /\ okBatch = <<>> /\ cur = dbCur
    BY DEF BookInv, OrderInv, TypeInv, ControlIsConsistent, CursorIsCached
  <2> QED
    BY <2>1, NothingInFlight
<1> QED
  BY <1>1, <1>2, <1>3, PTL DEF Spec

-----------------------------------------------------------------------------
(* Replaying a journal.                                                    *)

\* Induction up to a bound, for a set instead of a predicate.
LEMMA UpTo ==
  ASSUME NEW h \in Nat, NEW T, 0 \in T,
         \A n \in 0..h : n \in T /\ n < h => n + 1 \in T
  PROVE  \A n \in 0..h : n \in T
<1> DEFINE S == {n \in 0..h : n \notin T}
<1> SUFFICES ASSUME S # {} PROVE FALSE
  OBVIOUS
<1>1. PICK n \in S : \A m \in S : n <= m
  <2>1. S \subseteq Nat
    OBVIOUS
  <2> HIDE DEF S
  <2> QED
    BY <2>1, LeastNatural
<1>2. n \in 0..h /\ n # 0 /\ n \notin T
  BY <1>1
<1>3. n - 1 \in 0..h /\ n - 1 < h /\ ~(n <= n - 1) /\ (n - 1) + 1 = n
  BY <1>2
<1>4. n - 1 \in T
  BY <1>1, <1>3
<1> QED
  BY <1>2, <1>3, <1>4

\* The recursive function behind a replay exists, by induction on its domain.
LEMMA AfterSteps ==
  ASSUME NEW lots, NEW entries, Len(entries) \in Nat
  PROVE  /\ Promise!After(lots, entries)[0] = lots
         /\ \A n \in 1 .. Len(entries) :
              Promise!After(lots, entries)[n] =
                Promise!ReplayEntry(Promise!After(lots, entries)[n - 1], entries[n])
<1> DEFINE last == Len(entries)
           Step(g, n) == IF n = 0 THEN lots ELSE Promise!ReplayEntry(g[n - 1], entries[n])
           IsAfter(g, h) == g = [n \in 0 .. h |-> Step(g, n)]
           T == {h \in 0 .. last : \E g : IsAfter(g, h)}
<1>0. last \in Nat
  OBVIOUS
<1>a. Promise!After(lots, entries) = CHOOSE g : IsAfter(g, last)
  BY DEF Promise!After
<1> HIDE DEF last
<1>1. 0 \in T
  <2>1. IsAfter([n \in 0 .. 0 |-> lots], 0)
    OBVIOUS
  <2>2. \E g : IsAfter(g, 0)
    BY <2>1
  <2> HIDE DEF IsAfter
  <2> QED
    BY <1>0, <2>2
<1>2. ASSUME NEW h \in 0 .. last, h \in T, h < last PROVE h + 1 \in T
  <2>1. PICK g : IsAfter(g, h)
    BY <1>2
  <2> DEFINE next == Promise!ReplayEntry(g[h], entries[h + 1])
             k == [n \in 0 .. h + 1 |-> IF n = h + 1 THEN next ELSE g[n]]
  <2>2. ASSUME NEW n \in 0 .. h + 1 PROVE k[n] = Step(k, n)
    <3>1. CASE n = 0
      <4>1. k[0] = g[0] /\ 0 \in 0 .. h
        BY <1>2
      <4> QED
        BY <2>1, <3>1, <4>1
    <3>2. CASE n \in 1 .. h
      <4>1. n # h + 1 /\ n - 1 # h + 1 /\ n - 1 \in 0 .. h + 1 /\ n \in 0 .. h /\ n # 0
        BY <1>2, <3>2
      <4>2. k[n] = g[n] /\ k[n - 1] = g[n - 1]
        BY <4>1
      <4>3. g[n] = Promise!ReplayEntry(g[n - 1], entries[n])
        BY <2>1, <4>1
      <4> QED
        BY <4>1, <4>2, <4>3
    <3>3. CASE n = h + 1
      <4>1. h \in 0 .. h + 1 /\ h # h + 1 /\ h + 1 # 0 /\ (h + 1) - 1 = h
        BY <1>2
      <4>2. k[h] = g[h] /\ k[n] = next
        BY <3>3, <4>1
      <4> QED
        BY <3>3, <4>1, <4>2
    <3> QED
      BY <1>2, <3>1, <3>2, <3>3
  <2> HIDE DEF next
  <2>3. IsAfter(k, h + 1)
    <3>1. k = [n \in 0 .. h + 1 |-> k[n]]
      OBVIOUS
    <3> HIDE DEF k, Step
    <3> QED
      BY <2>2, <3>1
  <2>4. h + 1 \in 0 .. last
    BY <1>0, <1>2
  <2> QED
    BY <2>3, <2>4
<1>3. \E g : IsAfter(g, last)
  <2> HIDE DEF T
  <2>1. \A h \in 0 .. last : h \in T
    BY <1>0, <1>1, <1>2, UpTo
  <2>2. last \in T
    BY <1>0, <2>1
  <2> QED
    BY <2>2 DEF T
<1> DEFINE f == Promise!After(lots, entries)
<1>4. IsAfter(f, last)
  <2> HIDE DEF IsAfter
  <2> QED
    BY <1>3, <1>a
<1> HIDE DEF f, T
<1>5. 0 \in 0 .. last /\ \A n \in 1 .. last : n \in 0 .. last /\ n # 0
  BY <1>0
<1>6. f[0] = lots /\ \A n \in 1 .. last : f[n] = Promise!ReplayEntry(f[n - 1], entries[n])
  BY <1>4, <1>5
<1> QED
  BY <1>6 DEF f, last

\* Replaying a stretch of a journal from where the entries before it led.
LEMMA ReplayFrom ==
  ASSUME NEW lots, NEW a, NEW b, Len(a) \in Nat, Len(b) \in Nat,
         NEW k \in Nat, k + Len(b) <= Len(a),
         \A i \in 1 .. Len(b) : b[i] = a[k + i]
  PROVE  Promise!Replay(Promise!After(lots, a)[k], b)
           = Promise!After(lots, a)[k + Len(b)]
<1> DEFINE f == Promise!After(lots, a)
           g == Promise!After(f[k], b)
           T == {n \in 0 .. Len(b) : g[n] = f[k + n]}
<1>1. /\ \A n \in 1 .. Len(a) : f[n] = Promise!ReplayEntry(f[n - 1], a[n])
      /\ g[0] = f[k]
      /\ \A n \in 1 .. Len(b) : g[n] = Promise!ReplayEntry(g[n - 1], b[n])
  BY AfterSteps
<1>2. Promise!Replay(f[k], b) = g[Len(b)]
  BY DEF Promise!Replay
<1> HIDE DEF f, g
<1>3. 0 \in T
  BY <1>1
<1>4. ASSUME NEW n \in 0 .. Len(b), n \in T, n < Len(b) PROVE n + 1 \in T
  <2>1. n + 1 \in 1 .. Len(b) /\ (n + 1) - 1 = n
    BY <1>4
  <2>2. k + (n + 1) \in 1 .. Len(a) /\ (k + (n + 1)) - 1 = k + n
    BY <1>4
  <2>3. g[n + 1] = Promise!ReplayEntry(g[n], b[n + 1]) /\ b[n + 1] = a[k + (n + 1)]
    BY <1>1, <2>1
  <2>4. f[k + (n + 1)] = Promise!ReplayEntry(f[k + n], a[k + (n + 1)])
    BY <1>1, <2>2
  <2> QED
    BY <1>4, <2>1, <2>3, <2>4
<1> HIDE DEF T
<1>5. \A n \in 0 .. Len(b) : n \in T
  BY <1>3, <1>4, UpTo
<1>6. g[Len(b)] = f[k + Len(b)]
  BY <1>5 DEF T
<1> QED
  BY <1>2, <1>6 DEF f

\* What the first n entries of a journal make of nothing.
Replayed(entries, n) == Promise!Replay(NoPositions, SubSeq(entries, 1, n))

LEMMA ReplayedSteps ==
  ASSUME NEW a \in Seq(JournalEntries)
  PROVE  /\ Replayed(a, 0) = NoPositions
         /\ Replayed(a, Len(a)) = Promise!Replay(NoPositions, a)
         /\ \A n \in 0 .. Len(a) : Replayed(a, n) = Promise!After(NoPositions, a)[n]
         /\ \A n \in 1 .. Len(a) :
              Replayed(a, n) = Promise!ReplayEntry(Replayed(a, n - 1), a[n])
<1> DEFINE f == Promise!After(NoPositions, a)
<1>1. Len(a) \in Nat /\ SubSeq(a, 1, Len(a)) = a
  BY LenProperties, SubSeqProperties
<1>2. /\ f[0] = NoPositions
      /\ \A n \in 1 .. Len(a) : f[n] = Promise!ReplayEntry(f[n - 1], a[n])
  BY <1>1, AfterSteps
<1>3. Replayed(a, Len(a)) = Promise!Replay(NoPositions, a)
  BY <1>1 DEF Replayed
<1>4. ASSUME NEW n \in 0 .. Len(a) PROVE Replayed(a, n) = f[n]
  <2> DEFINE b == SubSeq(a, 1, n)
  <2>1. Len(b) = n /\ \A i \in 1 .. n : b[i] = a[i]
    BY <1>1
  <2>2. n \in Nat /\ n <= Len(a) /\ \A i \in 1 .. n : 0 + i = i
    BY <1>1
  <2> HIDE DEF b
  <2>3. Promise!Replay(f[0], b) = f[0 + n]
    BY <1>1, <2>1, <2>2, ReplayFrom
  <2> HIDE DEF f
  <2> QED
    BY <1>2, <2>2, <2>3 DEF Replayed, b
<1> HIDE DEF f
<1>5. \A n \in 1 .. Len(a) : n - 1 \in 0 .. Len(a) /\ n \in 0 .. Len(a)
  BY <1>1
<1>6. 0 \in 0 .. Len(a)
  BY <1>1
<1> QED
  BY <1>2, <1>3, <1>4, <1>5, <1>6 DEF f

\* Replaying looks at the entries replayed and at nothing behind them.
LEMMA ReplayedPrefix ==
  ASSUME NEW a \in Seq(JournalEntries), NEW b \in Seq(JournalEntries),
         NEW n \in 0 .. Len(a), n <= Len(b),
         \A i \in 1 .. n : a[i] = b[i]
  PROVE  Replayed(a, n) = Replayed(b, n)
<1>1. Len(a) \in Nat /\ Len(b) \in Nat
  BY LenProperties
<1>2. SubSeq(a, 1, n) = SubSeq(b, 1, n)
  BY <1>1
<1> QED
  BY <1>2 DEF Replayed

\* The columns keep every digit there is in memory.
KeepsEveryDigit == QtyUnit = 1 /\ CostUnit = 1 /\ ResultUnit = 1

\* Two books agree when they hold the same shares, storable ones, of the symbols
\* traded in storable quantities, and are equal when columns keep every digit.
Agrees(p, q) ==
  /\ q \in [Symbols -> LotType]
  /\ \A x \in Promise!Exact : /\ p[x].qty = q[x].qty
                              /\ RoundTo(q[x].qty, QtyUnit) = q[x].qty
  /\ KeepsEveryDigit => p = q

LEMMA ExactFacts ==
  /\ Promise!Exact \subseteq Symbols
  /\ \A t \in Requests : t.sym \in Promise!Exact => RoundTo(t.qty, QtyUnit) = t.qty
  /\ KeepsEveryDigit => Promise!Exact = Symbols
<1>1. \A x : Promise!RoundTo(x, QtyUnit) = RoundTo(x, QtyUnit)
  BY DEF Promise!RoundTo, RoundTo, Promise!RoundedDiv, RoundedDiv
<1>2. Promise!Exact = {s \in Symbols : \A e \in Requests :
                         e.sym = s => RoundTo(e.qty, QtyUnit) = e.qty}
  BY <1>1 DEF Promise!Exact
<1>3. \A e \in Requests : e.qty \in Int
  BY RequestFacts
<1>4. KeepsEveryDigit => \A e \in Requests : RoundTo(e.qty, QtyUnit) = e.qty
  BY <1>3, OneUnitIsExact DEF KeepsEveryDigit
<1> QED
  BY <1>2, <1>4

\* The ledger and the worker mean the same by a trade and by an underflow.
LEMMA SameTrade ==
  ASSUME NEW lots, NEW t
  PROVE  /\ Promise!ApplyTrade(lots, t) = ApplyTrade(lots, t)
         /\ Promise!Underflows(lots, t) <=> Underflows(lots, t)
BY DEF Promise!ApplyTrade, ApplyTrade, Promise!Bought, Bought, Promise!Sold, Sold,
       Promise!RoundedDiv, RoundedDiv, Promise!Underflows, Underflows

\* A row that keeps every digit keeps the lot.
LEMMA StoredExactly ==
  ASSUME KeepsEveryDigit, NEW lot \in LotType
  PROVE  StoredLot(lot) = lot
<1>1. lot.qty \in Int /\ lot.avg \in Int /\ lot.realized \in Int
  BY DEF LotType
<1>2. /\ RoundTo(lot.qty, QtyUnit) = lot.qty
      /\ RoundTo(lot.avg, CostUnit) = lot.avg
      /\ RoundTo(lot.realized, ResultUnit) = lot.realized
  BY <1>1, OneUnitIsExact DEF KeepsEveryDigit
<1> QED
  BY <1>2 DEF StoredLot, LotType

LEMMA StoredAgrees ==
  ASSUME NEW p \in [Symbols -> LotType], NEW q, Agrees(p, q)
  PROVE  Agrees(StoredPositions(p), q)
<1>1. \A x \in Promise!Exact : StoredPositions(p)[x].qty = q[x].qty
  <2>1. \A x \in Symbols : StoredPositions(p)[x].qty = RoundTo(p[x].qty, QtyUnit)
    BY DEF StoredPositions, StoredLot
  <2> QED
    BY <2>1, ExactFacts DEF Agrees
<1>2. KeepsEveryDigit => StoredPositions(p) = p
  BY StoredExactly DEF StoredPositions
<1> QED
  BY <1>1, <1>2 DEF Agrees

\* A storable trade leaves storable shares, the same in books that agree.
LEMMA SharesAgree ==
  ASSUME NEW lot \in LotType, NEW other \in LotType, NEW t \in Requests,
         lot.qty = other.qty, RoundTo(other.qty, QtyUnit) = other.qty,
         RoundTo(t.qty, QtyUnit) = t.qty
  PROVE  /\ Bought(lot, t).qty = Bought(other, t).qty
         /\ Sold(lot, t).qty = Sold(other, t).qty
         /\ RoundTo(Bought(other, t).qty, QtyUnit) = Bought(other, t).qty
         /\ RoundTo(Sold(other, t).qty, QtyUnit) = Sold(other, t).qty
<1>1. other.qty \in Int /\ t.qty \in Int
  BY RequestFacts DEF LotType
<1>2. Bought(lot, t).qty = lot.qty + t.qty /\ Bought(other, t).qty = other.qty + t.qty
  BY DEF Bought, LotType
<1>3. Sold(lot, t).qty = lot.qty - t.qty /\ Sold(other, t).qty = other.qty - t.qty
  BY DEF Sold
<1>4. /\ RoundTo(other.qty + t.qty, QtyUnit) = other.qty + t.qty
      /\ RoundTo(other.qty - t.qty, QtyUnit) = other.qty - t.qty
  BY <1>1, UnitTypes, UnitsAddUp
<1> QED
  BY <1>2, <1>3, <1>4

\* Agreement survives a storable trade, and decides alike whether it is covered.
LEMMA TradesAgree ==
  ASSUME NEW p \in [Symbols -> LotType], NEW q, Agrees(p, q), NEW t \in Requests,
         t.sym \in Promise!Exact
  PROVE  /\ Underflows(p, t) <=> Underflows(q, t)
         /\ ~Underflows(p, t) => Agrees(ApplyTrade(p, t), ApplyTrade(q, t))
<1>1. /\ t.sym \in Symbols /\ t.side \in {"BUY", "SELL"}
      /\ t.qty \in Nat \ {0} /\ t.price \in Nat
      /\ RoundTo(t.qty, QtyUnit) = t.qty
  BY RequestFacts, ExactFacts
<1>2. /\ q \in [Symbols -> LotType]
      /\ \A x \in Promise!Exact : /\ p[x].qty = q[x].qty /\ x \in Symbols
                                  /\ RoundTo(q[x].qty, QtyUnit) = q[x].qty
  BY ExactFacts DEF Agrees
<1>3. Underflows(p, t) <=> Underflows(q, t)
  BY <1>1, <1>2 DEF Underflows
<1>4. ASSUME ~Underflows(p, t) PROVE Agrees(ApplyTrade(p, t), ApplyTrade(q, t))
  <2>1. ApplyTrade(q, t) \in [Symbols -> LotType]
    BY <1>1, <1>2, <1>3, <1>4, ApplyTradeType
  <2>2. ASSUME NEW x \in Promise!Exact
        PROVE  /\ ApplyTrade(p, t)[x].qty = ApplyTrade(q, t)[x].qty
               /\ RoundTo(ApplyTrade(q, t)[x].qty, QtyUnit) = ApplyTrade(q, t)[x].qty
    <3>1. CASE x # t.sym
      <4>1. ApplyTrade(p, t)[x] = p[x] /\ ApplyTrade(q, t)[x] = q[x]
        BY <1>2, <3>1 DEF ApplyTrade
      <4> QED
        BY <1>2, <4>1
    <3>2. CASE x = t.sym
      <4>1. /\ p[x] \in LotType /\ q[x] \in LotType /\ p[x].qty = q[x].qty
            /\ RoundTo(q[x].qty, QtyUnit) = q[x].qty
        BY <1>2
      <4>2. /\ Bought(p[x], t).qty = Bought(q[x], t).qty
            /\ Sold(p[x], t).qty = Sold(q[x], t).qty
            /\ RoundTo(Bought(q[x], t).qty, QtyUnit) = Bought(q[x], t).qty
            /\ RoundTo(Sold(q[x], t).qty, QtyUnit) = Sold(q[x], t).qty
        BY <1>1, <4>1, SharesAgree
      <4>3. ApplyTrade(p, t)[x] = IF t.side = "BUY" THEN Bought(p[x], t) ELSE Sold(p[x], t)
        BY <1>2, <3>2 DEF ApplyTrade
      <4>4. ApplyTrade(q, t)[x] = IF t.side = "BUY" THEN Bought(q[x], t) ELSE Sold(q[x], t)
        BY <1>2, <3>2 DEF ApplyTrade
      <4> QED
        BY <4>2, <4>3, <4>4
    <3> QED
      BY <3>1, <3>2
  <2>3. KeepsEveryDigit => ApplyTrade(p, t) = ApplyTrade(q, t)
    BY DEF Agrees
  <2> QED
    BY <2>1, <2>2, <2>3 DEF Agrees
<1> QED
  BY <1>3, <1>4

\* An applied trade of any symbol: the ledger replays those of storable ones.
LEMMA EntriesAgree ==
  ASSUME NEW p \in [Symbols -> LotType], NEW q, Agrees(p, q),
         NEW e \in JournalEntries, e.verdict = "APPLIED", ~Underflows(p, e.event)
  PROVE  /\ Agrees(ApplyTrade(p, e.event), Promise!ReplayEntry(q, e))
         /\ Promise!Justified(q, e)
<1> PICK t : t = e.event
  OBVIOUS
<1>1. t \in Requests
  BY DEF JournalEntries
<1>2. CASE t.sym \in Promise!Exact
  <2>1. ~Underflows(q, t) /\ Agrees(ApplyTrade(p, t), ApplyTrade(q, t))
    BY <1>1, <1>2, TradesAgree
  <2>2. Promise!ReplayEntry(q, e) = ApplyTrade(q, t)
    BY <1>2, SameTrade DEF Promise!ReplayEntry
  <2>3. Promise!Justified(q, e)
    BY <2>1, SameTrade DEF Promise!Justified
  <2> QED
    BY <2>1, <2>2, <2>3
<1>3. CASE t.sym \notin Promise!Exact
  <2>1. Promise!ReplayEntry(q, e) = q /\ Promise!Justified(q, e)
    BY <1>3 DEF Promise!ReplayEntry, Promise!Justified
  <2>2. \A x \in Promise!Exact : ApplyTrade(p, t)[x] = p[x]
    BY <1>3, ExactFacts DEF ApplyTrade
  <2>3. ~KeepsEveryDigit
    BY <1>1, <1>3, ExactFacts, RequestFacts
  <2> QED
    BY <2>1, <2>2, <2>3 DEF Agrees
<1> QED
  BY <1>2, <1>3

-----------------------------------------------------------------------------
(* Stored state is a replay of the journal.                                *)

\* The journal as it will be once the batch in flight is committed.
Run(batch) == [i \in 1 .. Len(batch) |-> Entry(batch[i], "APPLIED")]

Ahead == settled \o Run(okBatch)

\* Every verdict is the one the entries before it call for.
VerdictsFollow(a) ==
  \A n \in DOMAIN a : Promise!Justified(Replayed(a, n - 1), a[n])

\* The rows are the replay of the journal, and the aggregate is the replay of
\* the journal and the batch in flight.
BooksAreReplayed ==
  /\ Agrees(positions, Replayed(settled, Len(settled)))
  /\ known /\ pc # "rebuild" => Agrees(agg, Replayed(Ahead, Len(Ahead)))

\* What is about to be refused is not covered.
StopIsJustified ==
  verdict = "POSITION_UNDERFLOW" => Underflows(agg, EarliestOf(queue))

SnapshotsFollow ==
  \A s \in snapshots : \E n \in DOMAIN settled :
    /\ s.asOf = Key(settled[n].event)
    /\ Agrees(s.lots, Replayed(settled, n))

ReplayInv ==
  BooksAreReplayed /\ VerdictsFollow(Ahead) /\ StopIsJustified /\ SnapshotsFollow

LEMMA RunFacts ==
  ASSUME NEW b \in Seq(Requests)
  PROVE  /\ Run(b) \in Seq(JournalEntries) /\ Len(Run(b)) = Len(b)
         /\ Run(<<>>) = <<>>
         /\ \A e \in Requests : Run(Append(b, e)) = Append(Run(b), Entry(e, "APPLIED"))
<1>1. Run(b) \in Seq(JournalEntries) /\ Len(Run(b)) = Len(b) /\ Len(b) \in Nat
  BY BatchEntries, LenProperties DEF Run, JournalEntries
<1>2. Run(<<>>) = <<>>
  BY DEF Run
<1>3. ASSUME NEW e \in Requests
      PROVE  Run(Append(b, e)) = Append(Run(b), Entry(e, "APPLIED"))
  <2>1. Len(Append(b, e)) = Len(b) + 1
    BY AppendProperties
  <2>2. \A i \in 1 .. Len(b) + 1 :
          Append(b, e)[i] = IF i = Len(b) + 1 THEN e ELSE b[i]
    BY <1>1, AppendProperties
  <2>3. \A i \in 1 .. Len(b) : Run(b)[i] = Entry(b[i], "APPLIED")
    BY DEF Run
  <2>4. \A i \in 1 .. Len(b) + 1 :
          Run(Append(b, e))[i] = Entry(Append(b, e)[i], "APPLIED")
    BY <2>1 DEF Run
  <2>5. Append(b, e) \in Seq(Requests)
    BY AppendProperties
  <2>6. /\ Run(Append(b, e)) \in Seq(JournalEntries)
        /\ Len(Run(Append(b, e))) = Len(b) + 1
    BY <2>1, <2>5, BatchEntries DEF Run, JournalEntries
  <2>7. Entry(e, "APPLIED") \in JournalEntries
    BY DEF Entry, JournalEntries, Verdicts
  <2> DEFINE r == Run(b)
             t == Run(Append(b, e))
             x == Entry(e, "APPLIED")
  <2>8. \A i \in 1 .. Len(b) + 1 : t[i] = IF i = Len(b) + 1 THEN x ELSE r[i]
    <3>1. \A i \in 1 .. Len(b) + 1 : i # Len(b) + 1 => i \in 1 .. Len(b)
      BY <1>1
    <3> QED
      BY <2>2, <2>3, <2>4, <3>1
  <2> HIDE DEF r, t, x
  <2>9. /\ r \in Seq(JournalEntries) /\ Len(r) = Len(b) /\ Len(b) \in Nat
        /\ t \in Seq(JournalEntries) /\ Len(t) = Len(b) + 1
        /\ x \in JournalEntries
    BY <1>1, <2>6, <2>7 DEF r, t, x
  <2>10. /\ Append(r, x) \in Seq(JournalEntries)
         /\ Len(Append(r, x)) = Len(b) + 1
         /\ \A i \in 1 .. Len(b) + 1 :
              Append(r, x)[i] = IF i = Len(b) + 1 THEN x ELSE r[i]
    BY <2>9, AppendProperties
  <2>11. t = Append(r, x)
    BY <2>8, <2>9, <2>10, SeqEqual
  <2> QED
    BY <2>11 DEF r, t, x
<1> QED
  BY <1>1, <1>2, <1>3

LEMMA AheadFacts ==
  ASSUME TypeOK
  PROVE  /\ settled \in Seq(JournalEntries) /\ Len(settled) \in Nat
         /\ Ahead \in Seq(JournalEntries) /\ Len(Ahead) \in Nat
         /\ Len(Ahead) = Len(settled) + Len(okBatch)
         /\ \A i \in 1 .. Len(settled) : Ahead[i] = settled[i]
         /\ okBatch = <<>> => Ahead = settled
<1> DEFINE r == Run(okBatch)
<1>1. settled \in Seq(JournalEntries) /\ okBatch \in Seq(Requests)
  BY DEF TypeOK, JournalEntries
<1>2. r \in Seq(JournalEntries) /\ Len(r) = Len(okBatch)
  BY <1>1, RunFacts
<1>3. Len(settled) \in Nat /\ Len(r) \in Nat
  BY <1>1, <1>2, LenProperties
<1>4. okBatch = <<>> => r = <<>>
  BY <1>1, RunFacts
<1> HIDE DEF r
<1>5. /\ settled \o r \in Seq(JournalEntries)
      /\ Len(settled \o r) = Len(settled) + Len(r)
      /\ \A i \in 1 .. Len(settled) : (settled \o r)[i] = settled[i]
  BY <1>1, <1>2, <1>3
<1>6. settled \o <<>> = settled
  BY <1>1
<1> QED
  BY <1>1, <1>2, <1>3, <1>4, <1>5, <1>6 DEF Ahead, r

\* Nothing in flight: the journal is all there is.
LEMMA NothingAhead ==
  ASSUME TypeOK', okBatch' = <<>>
  PROVE  Ahead' = settled'
<1>1. settled' \in Seq(JournalEntries)
  BY DEF TypeOK, JournalEntries
<1>2. Run(<<>>) = <<>>
  BY DEF Run
<1>3. settled' \o <<>> = settled'
  BY <1>1
<1>4. Ahead' = settled' \o Run(okBatch')
  BY DEF Ahead, Run
<1> QED
  BY <1>2, <1>3, <1>4

\* Verdicts on a journal are verdicts on what it starts with.
LEMMA VerdictsOfPrefix ==
  ASSUME NEW a \in Seq(JournalEntries), NEW b \in Seq(JournalEntries),
         Len(b) <= Len(a), \A i \in 1 .. Len(b) : a[i] = b[i],
         VerdictsFollow(a)
  PROVE  VerdictsFollow(b)
<1>1. Len(a) \in Nat /\ Len(b) \in Nat /\ DOMAIN a = 1 .. Len(a) /\ DOMAIN b = 1 .. Len(b)
  BY LenProperties
<1>2. ASSUME NEW n \in 1 .. Len(b) PROVE Promise!Justified(Replayed(b, n - 1), b[n])
  <2>1. n \in DOMAIN a /\ a[n] = b[n]
    BY <1>1
  <2>2. n - 1 \in 0 .. Len(b) /\ n - 1 <= Len(a) /\ \A i \in 1 .. n - 1 : b[i] = a[i]
    BY <1>1
  <2>3. Replayed(b, n - 1) = Replayed(a, n - 1)
    BY <2>2, ReplayedPrefix
  <2>4. Promise!Justified(Replayed(a, n - 1), a[n])
    BY <2>1 DEF VerdictsFollow
  <2> QED
    BY <2>1, <2>3, <2>4
<1> QED
  BY <1>1, <1>2 DEF VerdictsFollow

\* One more entry.
LEMMA VerdictsGrow ==
  ASSUME NEW a \in Seq(JournalEntries), NEW e \in JournalEntries,
         VerdictsFollow(a), Promise!Justified(Replayed(a, Len(a)), e)
  PROVE  LET b == Append(a, e)
         IN  /\ VerdictsFollow(b)
             /\ Replayed(b, Len(b)) = Promise!ReplayEntry(Replayed(a, Len(a)), e)
<1> DEFINE b == Append(a, e)
           m == Len(a)
<1>1. /\ b \in Seq(JournalEntries) /\ m \in Nat /\ Len(b) = m + 1
      /\ DOMAIN a = 1 .. m /\ DOMAIN b = 1 .. m + 1
      /\ \A i \in 1 .. m : b[i] = a[i]
      /\ b[m + 1] = e
  BY LenProperties, AppendProperties
<1> HIDE DEF b
<1>2. \A n \in 0 .. m : Replayed(a, n) = Replayed(b, n)
  <2> SUFFICES ASSUME NEW n \in 0 .. m PROVE Replayed(a, n) = Replayed(b, n)
    OBVIOUS
  <2>1. n <= Len(b) /\ \A i \in 1 .. n : a[i] = b[i]
    BY <1>1
  <2> QED
    BY <1>1, <2>1, ReplayedPrefix
<1>3. Replayed(b, Len(b)) = Promise!ReplayEntry(Replayed(a, m), e)
  <2>1. Len(b) \in 1 .. Len(b) /\ Len(b) - 1 = m /\ b[Len(b)] = e /\ m \in 0 .. m
    BY <1>1
  <2>2. Replayed(b, Len(b)) = Promise!ReplayEntry(Replayed(b, Len(b) - 1), b[Len(b)])
    BY <1>1, <2>1, ReplayedSteps
  <2> QED
    BY <1>2, <2>1, <2>2
<1>4. ASSUME NEW n \in 1 .. m + 1 PROVE Promise!Justified(Replayed(b, n - 1), b[n])
  <2>1. CASE n \in 1 .. m
    <3>1. n - 1 \in 0 .. m /\ b[n] = a[n] /\ n \in DOMAIN a
      BY <1>1, <2>1
    <3> QED
      BY <1>2, <3>1 DEF VerdictsFollow
  <2>2. CASE n = m + 1
    <3>1. n - 1 = m /\ m \in 0 .. m
      BY <1>1, <2>2
    <3>2. Replayed(b, m) = Replayed(a, m)
      BY <1>2, <3>1
    <3> QED
      BY <1>1, <2>2, <3>1, <3>2
  <2> QED
    BY <1>1, <2>1, <2>2
<1>5. VerdictsFollow(b)
  BY <1>1, <1>4 DEF VerdictsFollow
<1> QED
  BY <1>3, <1>5 DEF b

\* Steps that leave alone what is replayed.
LEMMA ReplayStays ==
  ASSUME ReplayInv, UNCHANGED <<positions, settled, snapshots, agg, okBatch>>,
         known' /\ pc' # "rebuild" => known /\ pc # "rebuild",
         verdict' = "POSITION_UNDERFLOW" => UNCHANGED <<verdict, queue>>
  PROVE  ReplayInv'
<1>1. Ahead' = Ahead
  BY DEF Ahead, Run
<1>2. BooksAreReplayed'
  BY <1>1 DEF ReplayInv, BooksAreReplayed
<1>3. VerdictsFollow(Ahead)'
  BY <1>1 DEF ReplayInv, VerdictsFollow
<1>4. StopIsJustified'
  BY DEF ReplayInv, StopIsJustified
<1>5. SnapshotsFollow'
  BY DEF ReplayInv, SnapshotsFollow
<1> QED
  BY <1>2, <1>3, <1>4, <1>5 DEF ReplayInv

\* The batch in flight is given up, and the aggregate with it or nothing was
\* in flight.
LEMMA BatchIsDropped ==
  ASSUME TypeOK, TypeOK', ReplayInv, UNCHANGED <<positions, settled, snapshots>>,
         okBatch' = <<>>, verdict' # "POSITION_UNDERFLOW",
         known' /\ pc' # "rebuild" => Agrees(agg', Replayed(settled, Len(settled)))
  PROVE  ReplayInv'
<1>1. /\ settled \in Seq(JournalEntries) /\ Ahead \in Seq(JournalEntries)
      /\ Len(settled) <= Len(Ahead)
      /\ \A i \in 1 .. Len(settled) : Ahead[i] = settled[i]
  <2>1. Len(okBatch) \in Nat
    BY LenProperties DEF TypeOK
  <2> QED
    BY <2>1, AheadFacts
<1>2. Ahead' = settled
  BY NothingAhead
<1>3. BooksAreReplayed'
  BY <1>2 DEF ReplayInv, BooksAreReplayed
<1>4. VerdictsFollow(settled)
  BY <1>1, VerdictsOfPrefix DEF ReplayInv
<1>5. VerdictsFollow(Ahead)'
  BY <1>2, <1>4 DEF VerdictsFollow
<1>6. StopIsJustified'
  BY DEF StopIsJustified
<1>7. SnapshotsFollow'
  BY DEF ReplayInv, SnapshotsFollow
<1> QED
  BY <1>3, <1>5, <1>6, <1>7 DEF ReplayInv

\* Snapshots stay replays while the journal grows.
LEMMA SnapshotsStay ==
  ASSUME SnapshotsFollow, snapshots' = snapshots,
         settled \in Seq(JournalEntries), settled' \in Seq(JournalEntries),
         Len(settled) <= Len(settled'),
         \A i \in 1 .. Len(settled) : settled'[i] = settled[i]
  PROVE  SnapshotsFollow'
<1>1. /\ Len(settled) \in Nat /\ DOMAIN settled = 1 .. Len(settled)
      /\ Len(settled') \in Nat /\ DOMAIN settled' = 1 .. Len(settled')
  BY LenProperties
<1>2. SUFFICES ASSUME NEW s \in snapshots
               PROVE  \E n \in DOMAIN settled' :
                        /\ s.asOf = Key(settled'[n].event)
                        /\ Agrees(s.lots, Replayed(settled', n))
  BY DEF SnapshotsFollow
<1>3. PICK n \in DOMAIN settled : /\ s.asOf = Key(settled[n].event)
                                  /\ Agrees(s.lots, Replayed(settled, n))
  BY DEF SnapshotsFollow
<1>4. n \in DOMAIN settled' /\ settled'[n] = settled[n]
  BY <1>1, <1>3
<1>5. n \in 0 .. Len(settled) /\ n <= Len(settled')
      /\ \A i \in 1 .. n : settled[i] = settled'[i]
  BY <1>1, <1>3
<1>6. Replayed(settled, n) = Replayed(settled', n)
  BY <1>5, ReplayedPrefix
<1> QED
  BY <1>3, <1>4, <1>6

\* The transaction of a batch: the journal becomes what lay ahead.
LEMMA BatchIsReplayed ==
  ASSUME BookInv, TypeOK', ReplayInv, pc = "flush", CommitBatch, okBatch' = <<>>,
         ~known' \/ agg' = agg,
         verdict' = "POSITION_UNDERFLOW" => UNCHANGED <<verdict, queue, agg>>
  PROVE  ReplayInv'
<1>1. TypeOK /\ known
  BY DEF BookInv, OrderInv, TypeInv, CursorIsCached, InPass
<1>2. /\ settled \in Seq(JournalEntries) /\ Ahead \in Seq(JournalEntries)
      /\ Len(settled) <= Len(Ahead)
      /\ \A i \in 1 .. Len(settled) : Ahead[i] = settled[i]
  <2>1. Len(okBatch) \in Nat
    BY <1>1, LenProperties DEF TypeOK
  <2> QED
    BY <1>1, <2>1, AheadFacts
<1>3. settled' = Ahead /\ snapshots' = snapshots
  BY DEF CommitBatch, Ahead, Run
<1>4. Ahead' = settled'
  BY NothingAhead
<1>5. Agrees(agg, Replayed(Ahead, Len(Ahead)))
  BY <1>1 DEF ReplayInv, BooksAreReplayed
<1>6. Agrees(positions', Replayed(Ahead, Len(Ahead)))
  BY <1>1, <1>5, CommitStores, StoredAgrees DEF TypeOK
<1>7. BooksAreReplayed'
  BY <1>3, <1>4, <1>5, <1>6 DEF BooksAreReplayed
<1>8. VerdictsFollow(Ahead)'
  BY <1>3, <1>4 DEF ReplayInv, VerdictsFollow
<1>9. StopIsJustified'
  BY DEF ReplayInv, StopIsJustified
<1>10. SnapshotsFollow'
  BY <1>2, <1>3, SnapshotsStay DEF ReplayInv
<1> QED
  BY <1>7, <1>8, <1>9, <1>10 DEF ReplayInv

\* The transaction of a dead letter: an entry that changes no book.
LEMMA DeadLetterIsReplayed ==
  ASSUME BookInv, TypeOK', ReplayInv, pc = "dlq", CommitDLQ, okBatch' = <<>>,
         ~known' \/ agg' = agg, verdict' = "APPLIED"
  PROVE  ReplayInv'
<1> DEFINE e == EarliestOf(queue)
           entry == Entry(e, verdict)
           a == settled
<1>1. /\ TypeOK /\ known /\ okBatch = <<>> /\ queue # {} /\ verdict # "APPLIED"
  BY DEF BookInv, OrderInv, TypeInv, ControlIsConsistent, CursorIsCached, InPass
<1>2. a \in Seq(JournalEntries) /\ Len(a) \in Nat /\ Ahead = a
  BY <1>1, AheadFacts
<1>3. e \in Requests
  BY <1>1, EarliestRequest DEF TypeOK
<1>4. entry \in JournalEntries /\ entry.verdict = verdict /\ entry.event = e
  BY <1>1, <1>3 DEF Entry, JournalEntries, TypeOK
<1>5. settled' = Append(a, entry) /\ snapshots' = snapshots /\ positions' = positions
  BY DEF CommitDLQ
<1>6. Agrees(agg, Replayed(a, Len(a))) /\ Agrees(positions, Replayed(a, Len(a)))
      /\ VerdictsFollow(a)
  BY <1>1, <1>2 DEF ReplayInv, BooksAreReplayed
<1> HIDE DEF e, a, entry
<1>7. Promise!Justified(Replayed(a, Len(a)), entry)
  <2>1. CASE verdict = "EVENT_TOO_STALE"
    BY <1>4, <2>1 DEF Promise!Justified
  <2>2. CASE verdict = "POSITION_UNDERFLOW"
    <3>1. Underflows(agg, e)
      BY <2>2 DEF ReplayInv, StopIsJustified, e
    <3>2. agg \in [Symbols -> LotType]
      BY <1>1 DEF TypeOK
    <3>3. e.sym \in Promise!Exact => Underflows(Replayed(a, Len(a)), e)
      BY <1>3, <1>6, <3>1, <3>2, TradesAgree
    <3> QED
      BY <1>4, <2>2, <3>3, SameTrade DEF Promise!Justified
  <2>3. verdict \in Verdicts
    BY <1>1 DEF TypeOK
  <2> QED
    BY <1>1, <2>1, <2>2, <2>3 DEF Verdicts
<1> DEFINE b == Append(a, entry)
<1>8. VerdictsFollow(b) /\ Replayed(b, Len(b)) = Replayed(a, Len(a))
  <2>1. Replayed(b, Len(b)) = Promise!ReplayEntry(Replayed(a, Len(a)), entry)
        /\ VerdictsFollow(b)
    BY <1>2, <1>4, <1>6, <1>7, VerdictsGrow
  <2>2. Promise!ReplayEntry(Replayed(a, Len(a)), entry) = Replayed(a, Len(a))
    BY <1>1, <1>4 DEF Promise!ReplayEntry
  <2> QED
    BY <2>1, <2>2
<1>9. /\ b \in Seq(JournalEntries) /\ Len(b) = Len(a) + 1
      /\ \A i \in 1 .. Len(a) : b[i] = a[i]
  BY <1>2, <1>4, AppendProperties
<1> HIDE DEF b
<1>10. settled' = b /\ Ahead' = b
  <2>1. Ahead' = settled'
    BY NothingAhead
  <2> QED
    BY <1>5, <2>1 DEF b
<1>11. BooksAreReplayed'
  BY <1>5, <1>6, <1>8, <1>10 DEF BooksAreReplayed
<1>12. VerdictsFollow(Ahead)'
  BY <1>8, <1>10 DEF VerdictsFollow
<1>13. StopIsJustified'
  BY DEF StopIsJustified
<1>14. SnapshotsFollow'
  <2>1. Len(settled) <= Len(settled')
    BY <1>2, <1>9, <1>10 DEF a
  <2> QED
    BY <1>2, <1>5, <1>9, <1>10, <2>1, SnapshotsStay DEF ReplayInv, a
<1> QED
  BY <1>11, <1>12, <1>13, <1>14 DEF ReplayInv

\* A trade applied in memory: an entry that lies ahead.
LEMMA TradeIsReplayed ==
  ASSUME BookInv, TypeOK', ReplayInv, pc = "apply", queue # {},
         ~Underflows(agg, EarliestOf(queue)),
         agg' = ApplyTrade(agg, EarliestOf(queue)),
         okBatch' = Append(okBatch, EarliestOf(queue)),
         UNCHANGED <<positions, settled, snapshots, pc, known, verdict>>
  PROVE  ReplayInv'
<1> DEFINE e == EarliestOf(queue)
           entry == Entry(e, "APPLIED")
           a == Ahead
           b == Append(a, entry)
<1>1. TypeOK /\ known /\ verdict = "APPLIED"
  BY DEF BookInv, OrderInv, TypeInv, ControlIsConsistent, CursorIsCached, InPass
<1>2. e \in Requests /\ okBatch \in Seq(Requests) /\ agg \in [Symbols -> LotType]
      /\ settled \in Seq(JournalEntries)
  BY <1>1, EarliestRequest DEF TypeOK, JournalEntries
<1>3. a \in Seq(JournalEntries) /\ Len(a) \in Nat
  BY <1>1, AheadFacts
<1>4. entry \in JournalEntries /\ entry.verdict = "APPLIED" /\ entry.event = e
  BY <1>2 DEF Entry, JournalEntries, Verdicts
<1>5. Ahead' = b
  <2> DEFINE r == Run(okBatch)
  <2>1. Run(Append(okBatch, e)) = Append(r, entry) /\ r \in Seq(JournalEntries)
    BY <1>2, RunFacts
  <2>2. Ahead' = settled' \o Run(okBatch')
    BY DEF Ahead, Run
  <2>3. settled' = settled /\ okBatch' = Append(okBatch, e)
    OBVIOUS
  <2>4. a = settled \o r
    BY DEF Ahead
  <2> HIDE DEF r, entry, a, e
  <2>5. settled \o Append(r, entry) = Append(settled \o r, entry)
    BY <1>2, <1>4, <2>1
  <2> QED
    BY <2>1, <2>2, <2>3, <2>4, <2>5
<1>6. Agrees(agg, Replayed(a, Len(a))) /\ Agrees(positions, Replayed(settled, Len(settled)))
      /\ VerdictsFollow(a)
  BY <1>1 DEF ReplayInv, BooksAreReplayed, InPass
<1>7. /\ Agrees(ApplyTrade(agg, e), Promise!ReplayEntry(Replayed(a, Len(a)), entry))
      /\ Promise!Justified(Replayed(a, Len(a)), entry)
  <2>1. ~Underflows(agg, entry.event)
    BY <1>4
  <2>2. Agrees(agg, Replayed(a, Len(a))) /\ agg \in [Symbols -> LotType]
    BY <1>2, <1>6
  <2> HIDE DEF a, e, entry
  <2> QED
    BY <1>4, <2>1, <2>2, EntriesAgree
<1> HIDE DEF e, a, entry
<1>9. VerdictsFollow(b)
      /\ Replayed(b, Len(b)) = Promise!ReplayEntry(Replayed(a, Len(a)), entry)
  BY <1>3, <1>4, <1>6, <1>7, VerdictsGrow
<1>11. Agrees(agg', Replayed(b, Len(b)))
  BY <1>7, <1>9 DEF e
<1> HIDE DEF b
<1>12. BooksAreReplayed'
  BY <1>5, <1>6, <1>11 DEF BooksAreReplayed
<1>13. VerdictsFollow(Ahead)'
  BY <1>5, <1>9 DEF VerdictsFollow
<1>14. StopIsJustified'
  BY <1>1 DEF StopIsJustified
<1>15. SnapshotsFollow'
  BY DEF ReplayInv, SnapshotsFollow
<1> QED
  BY <1>12, <1>13, <1>14, <1>15 DEF ReplayInv

\* A snapshot written: the aggregate with nothing in flight.
LEMMA SnapshotIsReplayed ==
  ASSUME BookInv, ReplayInv, pc = "snapshot", InsertSnapshot, cur = dbCur,
         UNCHANGED <<settled>>
  PROVE  SnapshotsFollow'
<1> DEFINE n == Len(settled)
           new == [asOf |-> cur, lots |-> StoredPositions(agg)]
<1>1. /\ TypeOK /\ known /\ okBatch = <<>> /\ dbCur # ZeroCursor /\ SettledInOrder
  BY DEF BookInv, OrderInv, TypeInv, ControlIsConsistent, CursorIsCached, InPass, JournalInv
<1>2. settled # <<>> /\ dbCur = Key(settled[n].event)
  BY <1>1 DEF SettledInOrder
<1>3. settled \in Seq(JournalEntries) /\ n \in Nat /\ Ahead = settled
  BY <1>1, AheadFacts
<1>4. n \in DOMAIN settled
  BY <1>2, <1>3, EmptySeq, LenProperties
<1>5. Agrees(agg, Replayed(settled, n))
  BY <1>1, <1>3 DEF ReplayInv, BooksAreReplayed
<1>6. Agrees(StoredPositions(agg), Replayed(settled, n))
  BY <1>1, <1>5, StoredAgrees DEF TypeOK
<1>7. new.asOf = Key(settled[n].event) /\ Agrees(new.lots, Replayed(settled, n))
  BY <1>2, <1>6
<1>8. snapshots' = snapshots \/ snapshots' = snapshots \cup {new}
  BY DEF InsertSnapshot
<1> HIDE DEF new, n
<1>9. ASSUME NEW s \in snapshots'
      PROVE  \E k \in DOMAIN settled : /\ s.asOf = Key(settled[k].event)
                                       /\ Agrees(s.lots, Replayed(settled, k))
  <2>1. CASE s = new
    BY <1>4, <1>7, <2>1
  <2>2. CASE s \in snapshots
    BY <2>2 DEF ReplayInv, SnapshotsFollow
  <2> QED
    BY <1>8, <2>1, <2>2
<1> QED
  BY <1>9 DEF SnapshotsFollow

LEMMA InitReplay == Init => ReplayInv
<1> SUFFICES ASSUME Init PROVE ReplayInv
  OBVIOUS
<1>1. /\ settled = <<>> /\ okBatch = <<>> /\ snapshots = {} /\ ~known
      /\ positions = NoPositions /\ verdict = "APPLIED" /\ TypeOK
  BY InitTypeInv DEF Init, TypeInv
<1>2. Ahead = settled /\ settled \in Seq(JournalEntries)
  BY <1>1, AheadFacts
<1>3. Replayed(settled, Len(settled)) = NoPositions
  <2>1. Len(settled) = 0 /\ Replayed(settled, 0) = NoPositions
    BY <1>1, <1>2, ReplayedSteps
  <2> QED
    BY <2>1
<1>4. Agrees(NoPositions, NoPositions)
  <2>1. \A x \in Promise!Exact : RoundTo(NoPositions[x].qty, QtyUnit) = NoPositions[x].qty
    BY ExactFacts, UnitTypes, ZeroIsStored DEF NoPositions, ZeroLot
  <2> QED
    BY <2>1, NoPositionsType DEF Agrees
<1>5. DOMAIN settled = {}
  BY <1>1
<1> QED
  BY <1>1, <1>2, <1>3, <1>4, <1>5
  DEF ReplayInv, BooksAreReplayed, VerdictsFollow, StopIsJustified, SnapshotsFollow

LEMMA NextReplay ==
  ASSUME CommitsSucceed
  PROVE  BookInv /\ BookInv' /\ ReplayInv /\ [Next]_vars => ReplayInv'
<1> SUFFICES ASSUME BookInv, BookInv', ReplayInv, [Next]_vars PROVE ReplayInv'
  OBVIOUS
<1> USE DEF world, database, memory, pass
<1>b. /\ TypeOK /\ TypeOK' /\ ControlIsConsistent /\ CursorIsCached
  BY DEF BookInv, OrderInv, TypeInv
<1>a. /\ okBatch = <<>> => Ahead = settled
      /\ Agrees(positions, Replayed(settled, Len(settled)))
      /\ known /\ pc # "rebuild" => Agrees(agg, Replayed(Ahead, Len(Ahead)))
  BY <1>b, AheadFacts DEF ReplayInv, BooksAreReplayed
\* Returns from a pass, and a worker that is forgotten.
<1>1. ASSUME UNCHANGED <<positions, settled, snapshots>>, okBatch' = <<>>,
             verdict' = "APPLIED",
             ~known' \/ (okBatch = <<>> /\ agg' = agg /\ known /\ pc # "rebuild")
      PROVE  ReplayInv'
  <2>1. known' => Agrees(agg', Replayed(settled, Len(settled)))
    BY <1>1, <1>a
  <2> QED
    BY <1>1, <1>b, <2>1, BatchIsDropped
<1>2. ASSUME PassFails, UNCHANGED database,
             rebuilding \/ (okBatch = <<>> /\ pc \in InPass)
      PROVE  ReplayInv'
  <2>1. okBatch' = <<>> /\ verdict' = "APPLIED"
    BY <1>2 DEF PassFails, ClearPass
  <2>2. CASE rebuilding
    <3>1. ~known'
      BY <1>2, <2>2 DEF PassFails, ForgetWorker
    <3> QED
      BY <1>1, <1>2, <2>1, <3>1
  <2>3. CASE ~rebuilding
    <3>1. agg' = agg /\ known
      BY <1>2, <1>b, <2>3 DEF PassFails, CursorIsCached
    <3> QED
      BY <1>1, <1>2, <2>1, <2>3, <3>1 DEF InPass
  <2> QED
    BY <2>2, <2>3
<1>3. ASSUME PassEnds, UNCHANGED database, pc \in InPass, okBatch = <<>>
      PROVE  ReplayInv'
  <2>1. okBatch' = <<>> /\ verdict' = "APPLIED" /\ agg' = agg /\ known
    BY <1>3, <1>b DEF PassEnds, ClearPass, CursorIsCached
  <2> QED
    BY <1>1, <1>3, <2>1 DEF InPass
<1>4. ASSUME NEW e \in Requests, PostTrade(e) PROVE ReplayInv'
  BY <1>4, ReplayStays DEF PostTrade
<1>5. CASE ClockTicks \/ Start \/ ReadMaxEventTime
  BY <1>5, ReplayStays DEF ClockTicks, Start, ReadMaxEventTime
<1>6. CASE Tick
  BY <1>6, ReplayStays DEF Tick
<1>7. CASE Rebuild
  <2>1. /\ agg' = positions /\ pc = "rebuild"
        /\ UNCHANGED <<positions, settled, snapshots, okBatch, verdict>>
    BY <1>7, RebuildReads
  <2>2. okBatch = <<>> /\ verdict = "APPLIED"
    BY <1>b, <2>1 DEF ControlIsConsistent, TypeOK
  <2>3. okBatch' = <<>> /\ verdict' # "POSITION_UNDERFLOW"
        /\ Agrees(agg', Replayed(settled, Len(settled)))
    BY <1>a, <2>1, <2>2
  <2> QED
    BY <1>b, <2>1, <2>3, BatchIsDropped
<1>8. CASE FetchPage
  <2>1. /\ pc = "fetch" /\ UNCHANGED database
        /\ \/ PassEnds
           \/ pc' = "apply" /\ UNCHANGED <<memory, okBatch, verdict>>
    BY <1>8 DEF FetchPage
  <2>2. okBatch = <<>> /\ known /\ verdict = "APPLIED"
    BY <1>b, <2>1 DEF ControlIsConsistent, CursorIsCached, InPass
  <2>3. CASE PassEnds
    BY <1>3, <2>1, <2>2, <2>3 DEF InPass
  <2>4. CASE pc' = "apply" /\ UNCHANGED <<memory, okBatch, verdict>>
    BY <2>1, <2>2, <2>4, ReplayStays
  <2> QED
    BY <2>1, <2>3, <2>4
<1>9. CASE ApplyNext
  <2> DEFINE d == EarliestOf(queue)
  <2>1. /\ pc = "apply" /\ queue # {} /\ UNCHANGED <<database, known>>
    BY <1>9 DEF ApplyNext
  <2>2. CASE Stop(d, "EVENT_TOO_STALE")
    <3>1. /\ UNCHANGED <<positions, settled, snapshots, agg, okBatch, known>>
          /\ verdict' = "EVENT_TOO_STALE"
      BY <2>1, <2>2 DEF Stop
    <3>2. known /\ pc # "rebuild"
      BY <1>b, <2>1 DEF CursorIsCached, InPass
    <3> QED
      BY <3>1, <3>2, ReplayStays
  <2>3. CASE Stop(d, "POSITION_UNDERFLOW") /\ Underflows(agg, d)
    <3>1. /\ UNCHANGED <<positions, settled, snapshots, agg, okBatch, queue, known>>
          /\ verdict' = "POSITION_UNDERFLOW" /\ pc # "rebuild" /\ known
      BY <1>b, <2>1, <2>3 DEF Stop, CursorIsCached, InPass
    <3>2. Ahead' = Ahead
      BY <3>1 DEF Ahead, Run
    <3>3. BooksAreReplayed'
      BY <3>1, <3>2 DEF ReplayInv, BooksAreReplayed
    <3>4. VerdictsFollow(Ahead)'
      BY <3>2 DEF ReplayInv, VerdictsFollow
    <3>5. StopIsJustified'
      BY <2>3, <3>1 DEF StopIsJustified
    <3>6. SnapshotsFollow'
      BY <3>1 DEF ReplayInv, SnapshotsFollow
    <3> QED
      BY <3>3, <3>4, <3>5, <3>6 DEF ReplayInv
  <2>4. CASE /\ ~Underflows(agg, d) /\ agg' = ApplyTrade(agg, d)
             /\ okBatch' = Append(okBatch, d) /\ UNCHANGED <<pc, verdict>>
    BY <1>b, <2>1, <2>4, TradeIsReplayed
  <2> QED
    BY <1>9, <2>2, <2>3, <2>4 DEF ApplyNext
<1>10. CASE ApplyDone
  <2>1. /\ pc = "apply" /\ UNCHANGED database
        /\ \/ okBatch = <<>> /\ PassEnds
           \/ pc' \in {"flush", "max"} /\ UNCHANGED <<memory, pass>>
    BY <1>10 DEF ApplyDone
  <2>2. known
    BY <1>b, <2>1 DEF CursorIsCached, InPass
  <2>3. CASE okBatch = <<>> /\ PassEnds
    BY <1>3, <2>1, <2>3 DEF InPass
  <2>4. CASE pc' \in {"flush", "max"} /\ UNCHANGED <<memory, pass>>
    BY <2>1, <2>2, <2>4, ReplayStays
  <2> QED
    BY <2>1, <2>3, <2>4
<1>11. CASE Flush
  <2>1. /\ pc = "flush" /\ CommitBatch /\ okBatch' = <<>>
        /\ UNCHANGED <<agg, verdict, queue>>
    BY <1>11 DEF Flush
  <2> QED
    BY <1>b, <2>1, BatchIsReplayed
<1>12. CASE ApplyBatchAckLost
  <2>1. pc = "flush" /\ CommitBatch /\ PassFails
    BY <1>12 DEF ApplyBatchAckLost
  <2>2. rebuilding
    BY <1>12 DEF ApplyBatchAckLost, Fault, CommitsSucceed
  <2>3. ~known' /\ okBatch' = <<>> /\ verdict' = "APPLIED"
    BY <2>1, <2>2 DEF PassFails, ForgetWorker, ClearPass
  <2> QED
    BY <1>b, <2>1, <2>3, BatchIsReplayed
<1>12a. ASSUME pc = "snapshot", pc' # "rebuild",
               UNCHANGED <<positions, settled, known, agg, okBatch, verdict, queue>>,
               UNCHANGED snapshots \/ (InsertSnapshot /\ cur = dbCur)
        PROVE  ReplayInv'
  <2>1. known
    BY <1>b, <1>12a DEF CursorIsCached, InPass
  <2>2. CASE UNCHANGED snapshots
    BY <1>12a, <2>1, <2>2, ReplayStays
  <2>3. CASE InsertSnapshot /\ cur = dbCur
    <3>1. Ahead' = Ahead
      BY <1>12a DEF Ahead, Run
    <3>2. BooksAreReplayed'
      BY <1>12a, <2>1, <3>1 DEF ReplayInv, BooksAreReplayed
    <3>3. VerdictsFollow(Ahead)'
      BY <3>1 DEF ReplayInv, VerdictsFollow
    <3>4. StopIsJustified'
      BY <1>12a DEF ReplayInv, StopIsJustified
    <3>5. SnapshotsFollow'
      BY <1>12a, <2>3, SnapshotIsReplayed
    <3> QED
      BY <3>2, <3>3, <3>4, <3>5 DEF ReplayInv
  <2> QED
    BY <1>12a, <2>2, <2>3
<1>13. CASE WriteSnapshot
  BY <1>12a, <1>13 DEF WriteSnapshot, Resume
<1>14. CASE SnapshotFails
  BY <1>12a, <1>14 DEF SnapshotFails, Resume
<1>15. CASE DeadLetter
  <2>1. /\ pc = "dlq" /\ CommitDLQ /\ UNCHANGED <<known, agg, okBatch>>
        /\ verdict' = "APPLIED"
    BY <1>15 DEF DeadLetter
  <2>2. okBatch' = <<>>
    BY <1>b, <2>1 DEF ControlIsConsistent
  <2> QED
    BY <1>b, <2>1, <2>2, DeadLetterIsReplayed
<1>16. CASE DeadLetterAckLost
  <2>1. pc = "dlq" /\ CommitDLQ /\ PassFails
    BY <1>16 DEF DeadLetterAckLost
  <2>2. rebuilding
    BY <1>16 DEF DeadLetterAckLost, Fault, CommitsSucceed
  <2>3. ~known' /\ okBatch' = <<>> /\ verdict' = "APPLIED"
    BY <2>1, <2>2 DEF PassFails, ForgetWorker, ClearPass
  <2> QED
    BY <1>b, <2>1, <2>3, DeadLetterIsReplayed
<1>17. CASE Crash
  <2>1. UNCHANGED database /\ okBatch' = <<>> /\ verdict' = "APPLIED" /\ ~known'
    BY <1>17 DEF Crash, ClearPass, ForgetWorker
  <2> QED
    BY <1>1, <2>1
<1>18. CASE ReadFails
  <2>1. PassFails /\ UNCHANGED database /\ pc \in {"rebuild", "max", "fetch"}
    BY <1>18 DEF ReadFails
  <2>2. rebuilding \/ (okBatch = <<>> /\ pc \in InPass)
    BY <1>b, <2>1 DEF CursorIsCached, ControlIsConsistent, InPass
  <2> QED
    BY <1>2, <2>1, <2>2
<1>19. CASE ApplyBatchFails
  <2>1. PassFails /\ UNCHANGED database /\ rebuilding
    BY <1>19 DEF ApplyBatchFails, Fault, CommitsSucceed
  <2> QED
    BY <1>2, <2>1
<1>20. CASE DeadLetterFails
  <2>1. PassFails /\ UNCHANGED database /\ pc = "dlq"
    BY <1>20 DEF DeadLetterFails
  <2>2. okBatch = <<>> /\ pc \in InPass
    BY <1>b, <2>1 DEF ControlIsConsistent, InPass
  <2> QED
    BY <1>2, <2>1, <2>2
<1>21. CASE UNCHANGED vars
  BY <1>21, ReplayStays DEF vars
<1> QED
  BY <1>4, <1>5, <1>6, <1>7, <1>8, <1>9, <1>10, <1>11, <1>12, <1>13, <1>14,
     <1>15, <1>16, <1>17, <1>18, <1>19, <1>20, <1>21
  DEF Next, Worker, Failure

\* A journal extended by a run.
LEMMA ExtendedByRun ==
  ASSUME NEW a \in Seq(JournalEntries), NEW run \in Seq(JournalEntries),
         NEW next, next = a \o run
  PROVE  /\ next \in Seq(JournalEntries)
         /\ Len(a) \in Nat /\ Len(run) \in Nat /\ Len(next) = Len(a) + Len(run)
         /\ \A i \in 1 .. Len(a) : next[i] = a[i]
         /\ \A i \in 1 .. Len(run) : next[Len(a) + i] = run[i]
         /\ SubSeq(next, 1, Len(a)) = a
         /\ SubSeq(next, Len(a) + 1, Len(next)) = run
<1> PICK n : n = Len(a)
  OBVIOUS
<1> PICK m : m = Len(run)
  OBVIOUS
<1>1. /\ next \in Seq(JournalEntries) /\ n \in Nat /\ m \in Nat /\ Len(next) = n + m
      /\ \A i \in 1 .. n : next[i] = a[i]
      /\ \A i \in 1 .. m : next[n + i] = run[i]
  OBVIOUS
<1>2. SubSeq(next, 1, n) = a
  <2>1. /\ SubSeq(next, 1, n) \in Seq(JournalEntries) /\ Len(SubSeq(next, 1, n)) = n
        /\ \A i \in 1 .. n : SubSeq(next, 1, n)[i] = next[i]
    BY <1>1
  <2> QED
    BY <1>1, <2>1, SeqEqual
<1>3. SubSeq(next, n + 1, Len(next)) = run
  <2> DEFINE b == SubSeq(next, n + 1, Len(next))
  <2>1. b \in Seq(JournalEntries) /\ Len(b) = m /\ \A i \in 1 .. m : b[i] = next[n + i]
    BY <1>1
  <2> HIDE DEF b
  <2>2. Len(b) = Len(run) /\ \A i \in 1 .. Len(b) : b[i] = run[i]
    BY <1>1, <2>1
  <2>3. b = run
    BY <2>1, <2>2, SeqEqual
  <2> QED
    BY <2>3 DEF b
<1> QED
  BY <1>1, <1>2, <1>3

\* A run replayed from lots that agree with the journal before it ends in lots
\* that agree with the journal behind it: no verdict in it tells them apart.
LEMMA RunAgrees ==
  ASSUME NEW next \in Seq(JournalEntries), VerdictsFollow(next),
         NEW n \in 0 .. Len(next),
         NEW p \in [Symbols -> LotType], Agrees(p, Replayed(next, n)),
         NEW b, Len(b) \in Nat, n + Len(b) <= Len(next),
         \A i \in 1 .. Len(b) : b[i] = next[n + i]
  PROVE  /\ Promise!Replay(p, b) \in [Symbols -> LotType]
         /\ Agrees(Promise!Replay(p, b), Replayed(next, n + Len(b)))
<1> PICK last : last = Len(b)
  OBVIOUS
<1> PICK f : f = Promise!After(p, b)
  OBVIOUS
<1> DEFINE Good(k) == /\ f[k] \in [Symbols -> LotType]
                      /\ Agrees(f[k], Replayed(next, n + k))
           T == {k \in 0 .. last : Good(k)}
<1>1. Len(next) \in Nat /\ n \in Nat /\ last \in Nat /\ n + last <= Len(next)
  BY LenProperties
<1>2. f[0] = p /\ \A k \in 1 .. last : f[k] = Promise!ReplayEntry(f[k - 1], b[k])
  BY AfterSteps
<1>3. 0 \in T
  <2>1. n + 0 = n /\ 0 \in 0 .. last
    BY <1>1
  <2>2. Good(0)
    BY <1>2, <2>1
  <2> HIDE DEF Good
  <2> QED
    BY <2>1, <2>2
<1>4. ASSUME NEW k \in 0 .. last, k \in T, k < last PROVE k + 1 \in T
  <2> PICK m : m = n + (k + 1)
    OBVIOUS
  <2>1. /\ k + 1 \in 1 .. last /\ (k + 1) - 1 = k /\ k + 1 \in 0 .. last
        /\ m \in 1 .. Len(next) /\ m - 1 = n + k
    BY <1>1, <1>4
  <2> PICK e : e = next[m]
    OBVIOUS
  <2>2. /\ f[k + 1] = Promise!ReplayEntry(f[k], e)
        /\ Replayed(next, m) = Promise!ReplayEntry(Replayed(next, n + k), e)
    <3>1. f[k + 1] = Promise!ReplayEntry(f[k], b[k + 1]) /\ b[k + 1] = e
      BY <1>2, <2>1
    <3>2. Replayed(next, m) = Promise!ReplayEntry(Replayed(next, m - 1), e)
      BY <2>1, ReplayedSteps
    <3> QED
      BY <2>1, <3>1, <3>2
  <2>3. e \in JournalEntries /\ Promise!Justified(Replayed(next, n + k), e)
    BY <2>1, ElementOfSeq, LenProperties DEF VerdictsFollow
  <2>4. Good(k)
    BY <1>4
  <2> DEFINE replayed == e.verdict = "APPLIED" /\ e.event.sym \in Promise!Exact
  <2>5. CASE ~replayed
    <3>1. f[k + 1] = f[k] /\ Replayed(next, m) = Replayed(next, n + k)
      BY <2>2, <2>5 DEF Promise!ReplayEntry
    <3>2. Good(k + 1)
      BY <2>4, <3>1
    <3> HIDE DEF Good
    <3> QED
      BY <2>1, <3>2
  <2>6. CASE replayed
    <3> PICK q : q = Replayed(next, n + k)
      OBVIOUS
    <3> PICK t : t = e.event
      OBVIOUS
    <3>1. /\ t \in Requests /\ f[k] \in [Symbols -> LotType] /\ Agrees(f[k], q)
          /\ t.sym \in Promise!Exact
      BY <2>3, <2>4, <2>6 DEF JournalEntries
    <3>2. ~Underflows(q, t)
      BY <2>3, <2>6, SameTrade DEF Promise!Justified
    <3>3. f[k + 1] = ApplyTrade(f[k], t) /\ Replayed(next, m) = ApplyTrade(q, t)
      BY <2>2, <2>6, SameTrade DEF Promise!ReplayEntry
    <3>4. ~Underflows(f[k], t) /\ Agrees(ApplyTrade(f[k], t), ApplyTrade(q, t))
      BY <3>1, <3>2, TradesAgree
    <3>5. ApplyTrade(f[k], t) \in [Symbols -> LotType]
      BY <3>1, <3>4, RequestFacts, ApplyTradeType
    <3>6. Good(k + 1)
      BY <3>3, <3>4, <3>5
    <3> HIDE DEF Good
    <3> QED
      BY <2>1, <3>6
  <2> QED
    BY <2>5, <2>6
<1>5. last \in T
  <2> HIDE DEF T
  <2>1. \A k \in 0 .. last : k \in T
    BY <1>1, <1>3, <1>4, UpTo
  <2> QED
    BY <1>1, <2>1
<1>6. Good(last)
  BY <1>5
<1>7. Promise!Replay(p, b) = f[last]
  BY DEF Promise!Replay
<1> QED
  BY <1>6, <1>7

\* Two books that agree with a third stand for each other.
LEMMA AgreeingBooks ==
  ASSUME NEW p, NEW q, NEW r, Agrees(p, r), Agrees(q, r)
  PROVE  Promise!StandsFor(p, q)
BY DEF Agrees, KeepsEveryDigit, Promise!StandsFor

\* A settling transaction is a step of the ledger.
LEMMA TransactionSettles ==
  ASSUME BookInv, BookInv', ReplayInv, ReplayInv',
         NEW run \in Seq(JournalEntries), run # <<>>,
         settled' = settled \o run, okBatch' = <<>>, log' = log
  PROVE  Promise!Settle
<1> PICK next : next = settled'
  OBVIOUS
<1> PICK old : old = settled
  OBVIOUS
<1> PICK n : n = Len(old)
  OBVIOUS
<1>1. TypeOK /\ TypeOK' /\ SettledInOrder' /\ SettledIsLogged'
  BY DEF BookInv, OrderInv, TypeInv, JournalInv
<1>2. old \in Seq(JournalEntries) /\ next = old \o run
  BY <1>1 DEF TypeOK, JournalEntries
<1>3. /\ next \in Seq(JournalEntries)
      /\ n \in Nat /\ Len(run) \in Nat /\ Len(next) = n + Len(run)
      /\ \A i \in 1 .. n : next[i] = old[i]
      /\ \A i \in 1 .. Len(run) : next[n + i] = run[i]
      /\ SubSeq(next, 1, n) = old
      /\ SubSeq(next, n + 1, Len(next)) = run
  BY <1>2, ExtendedByRun
<1>4. /\ DOMAIN run = 1 .. Len(run) /\ DOMAIN next = 1 .. Len(next)
      /\ Len(run) # 0
  BY <1>3, EmptySeq, LenProperties
<1>5. ASSUME NEW i \in DOMAIN run PROVE run[i].event \in log
  <2>1. n + i \in DOMAIN next /\ next[n + i] = run[i]
    BY <1>3, <1>4
  <2>2. run[i].event \in SettledEvents'
    BY <2>1 DEF SettledEvents
  <2> QED
    BY <1>1, <2>2 DEF SettledIsLogged
<1>6. ASSUME NEW i \in 2 .. Len(next)
      PROVE  Before(Key(next[i - 1].event), Key(next[i].event))
  <2>1. i - 1 \in DOMAIN next /\ i \in DOMAIN next /\ i - 1 < i
    BY <1>3, <1>4
  <2> QED
    BY <1>1, <2>1 DEF SettledInOrder
\* The rows agree with what the journal replays to, before and after.
<1>7. /\ Agrees(positions, Replayed(next, n))
      /\ Agrees(positions', Replayed(next, Len(next)))
  <2>1. Agrees(positions, Replayed(old, n)) /\ Agrees(positions', Replayed(next, Len(next)))
    BY DEF ReplayInv, BooksAreReplayed, Agrees
  <2>2. n \in 0 .. Len(old) /\ n <= Len(next) /\ \A i \in 1 .. n : old[i] = next[i]
    BY <1>3
  <2>3. Replayed(old, n) = Replayed(next, n)
    BY <1>2, <1>3, <2>2, ReplayedPrefix
  <2> QED
    BY <2>1, <2>3
<1>8. VerdictsFollow(next)
  <2>1. Ahead' = next
    BY <1>1, NothingAhead
  <2> QED
    BY <2>1 DEF ReplayInv, VerdictsFollow
<1>9. ASSUME NEW b, Len(b) \in 0 .. Len(run), \A i \in 1 .. Len(b) : b[i] = run[i]
      PROVE  /\ Promise!Replay(positions, b) \in [Symbols -> LotType]
             /\ Agrees(Promise!Replay(positions, b), Replayed(next, n + Len(b)))
  <2>1. /\ n \in 0 .. Len(next) /\ Len(b) \in Nat /\ n + Len(b) <= Len(next)
        /\ \A i \in 1 .. Len(b) : b[i] = next[n + i]
        /\ next \in Seq(JournalEntries)
    BY <1>3, <1>9
  <2>2. positions \in [Symbols -> LotType]
    BY <1>1 DEF TypeOK
  <2> QED
    BY <1>7, <1>8, <2>1, <2>2, RunAgrees
<1>10. Promise!StandsFor(positions', Promise!Replay(positions, run))
  <2>1. Len(run) \in 0 .. Len(run) /\ \A i \in 1 .. Len(run) : run[i] = run[i]
    BY <1>3
  <2>2. Agrees(Promise!Replay(positions, run), Replayed(next, n + Len(run)))
    BY <1>9, <2>1
  <2> QED
    BY <1>3, <1>7, <2>2, AgreeingBooks
<1>11. ASSUME NEW i \in DOMAIN run
       PROVE  Promise!Justified(Promise!Replay(positions, SubSeq(run, 1, i - 1)), run[i])
  <2> PICK lots : lots = Promise!Replay(positions, SubSeq(run, 1, i - 1))
    OBVIOUS
  <2>1. n + i \in DOMAIN next /\ next[n + i] = run[i] /\ (n + i) - 1 = n + (i - 1)
        /\ i - 1 \in 0 .. Len(run)
    <3> PICK m : m = Len(run)
      OBVIOUS
    <3>1. m \in Nat /\ n \in Nat /\ i \in 1 .. m
      BY <1>3, <1>4
    <3>2. n + i \in 1 .. n + m /\ i - 1 \in 0 .. m
      BY <3>1
    <3>3. (n + i) - 1 = n + (i - 1)
      BY <3>1
    <3>4. DOMAIN next = 1 .. n + m /\ next[n + i] = run[i]
      BY <1>3, <1>4, <3>1
    <3> QED
      BY <3>2, <3>3, <3>4
  <2>2. Promise!Justified(Replayed(next, n + (i - 1)), run[i])
    BY <1>8, <2>1 DEF VerdictsFollow
  <2>3. /\ Len(SubSeq(run, 1, i - 1)) = i - 1
        /\ \A j \in 1 .. i - 1 : SubSeq(run, 1, i - 1)[j] = run[j]
    BY <1>3, <1>4
  <2>4. lots \in [Symbols -> LotType] /\ Agrees(lots, Replayed(next, n + (i - 1)))
    BY <1>9, <2>1, <2>3
  <2>5. run[i].event \in Requests
    <3>1. run[i] \in JournalEntries
      BY <1>4, ElementOfSeq
    <3> QED
      BY <3>1 DEF JournalEntries
  <2> PICK e : e = run[i]
    OBVIOUS
  <2> PICK other : other = Replayed(next, n + (i - 1))
    OBVIOUS
  <2>6. e.event.sym \in Promise!Exact =>
          (Underflows(lots, e.event) <=> Underflows(other, e.event))
    <3> PICK t : t = e.event
      OBVIOUS
    <3>1. lots \in [Symbols -> LotType] /\ Agrees(lots, other) /\ t \in Requests
      BY <2>4, <2>5
    <3>2. ASSUME t.sym \in Promise!Exact
          PROVE  Underflows(lots, t) <=> Underflows(other, t)
      BY <3>1, <3>2, TradesAgree
    <3> QED
      BY <3>2
  <2>7. Promise!Justified(other, e)
    BY <2>2
  <2>8. Promise!Justified(lots, e)
    BY <2>6, <2>7, SameTrade DEF Promise!Justified
  <2> QED
    BY <2>8
<1>12. Len(next) > n
  BY <1>3, <1>4
<1> QED
  BY <1>3, <1>5, <1>6, <1>10, <1>11, <1>12
  DEF Promise!Settle, Promise!Before, Before, Promise!Key, Key

\* Every step is a record, a settling or nothing to the ledger.
LEMMA StepsOfTheLedger ==
  ASSUME BookInv, BookInv', ReplayInv, ReplayInv', [Next]_vars
  PROVE  [Promise!Next]_(Promise!ledger)
<1> USE DEF world, database, memory, pass
<1>1. TypeOK /\ ControlIsConsistent
  BY DEF BookInv, OrderInv, TypeInv
<1>2. ASSUME UNCHANGED <<log, settled, positions>>
      PROVE  [Promise!Next]_(Promise!ledger)
  BY <1>2 DEF Promise!ledger
<1>3. ASSUME NEW e \in Requests, PostTrade(e) PROVE [Promise!Next]_(Promise!ledger)
  <2>1. log' = Promise!AppendEvent(log, e) /\ UNCHANGED <<settled, positions>>
    BY <1>3 DEF PostTrade, AppendEvent, Promise!AppendEvent
  <2>2. CASE log' = log
    BY <1>2, <2>1, <2>2
  <2>3. CASE log' # log
    <3>1. e \in log' \ log
      BY <1>3, <2>1, <2>3 DEF PostTrade, Promise!AppendEvent
    <3>2. Promise!Record
      BY <2>1, <2>3, <3>1 DEF Promise!Record
    <3> QED
      BY <3>2 DEF Promise!Next
  <2> QED
    BY <2>2, <2>3
<1>4. ASSUME pc = "flush", CommitBatch, okBatch' = <<>>, log' = log
      PROVE  [Promise!Next]_(Promise!ledger)
  <2> DEFINE run == Run(okBatch)
  <2>1. okBatch \in Seq(Requests) /\ okBatch # <<>>
    BY <1>1, <1>4 DEF TypeOK, ControlIsConsistent
  <2>2. run \in Seq(JournalEntries) /\ Len(run) = Len(okBatch) /\ Len(okBatch) # 0
    BY <2>1, RunFacts, LastOfBatch
  <2>3. settled' = settled \o run
    BY <1>4 DEF CommitBatch, Run
  <2> HIDE DEF run
  <2>4. run # <<>>
    BY <2>2
  <2>5. Promise!Settle
    BY <1>4, <2>2, <2>3, <2>4, TransactionSettles
  <2> QED
    BY <2>5 DEF Promise!Next
<1>5. ASSUME pc = "dlq", CommitDLQ, okBatch' = <<>>, log' = log
      PROVE  [Promise!Next]_(Promise!ledger)
  <2> DEFINE entry == Entry(EarliestOf(queue), verdict)
             run == <<entry>>
  <2>1. queue # {} /\ queue \subseteq Requests /\ verdict \in Verdicts
    BY <1>1, <1>5 DEF TypeOK, ControlIsConsistent
  <2>2. entry \in JournalEntries
    BY <2>1, EarliestRequest DEF Entry, JournalEntries
  <2>3. settled' = Append(settled, entry) /\ settled \in Seq(JournalEntries)
    BY <1>1, <1>5 DEF CommitDLQ, TypeOK, JournalEntries
  <2> HIDE DEF entry
  <2>4. settled' = settled \o run /\ run \in Seq(JournalEntries) /\ run # <<>>
    BY <2>2, <2>3
  <2> HIDE DEF run
  <2>5. Promise!Settle
    BY <1>5, <2>4, TransactionSettles
  <2> QED
    BY <2>5 DEF Promise!Next
<1>6. CASE ClockTicks \/ Start \/ Tick \/ ReadMaxEventTime \/ Crash \/ ReadFails
           \/ ApplyBatchFails \/ DeadLetterFails
  BY <1>2, <1>6
  DEF ClockTicks, Start, Tick, ReadMaxEventTime, Crash, ReadFails,
      ApplyBatchFails, DeadLetterFails
<1>7. CASE Rebuild
  BY <1>2, <1>7, RebuildReads
<1>8. CASE FetchPage \/ ApplyNext \/ ApplyDone
  BY <1>2, <1>8 DEF FetchPage, ApplyNext, ApplyDone
<1>9. CASE WriteSnapshot \/ SnapshotFails
  BY <1>2, <1>9 DEF WriteSnapshot, SnapshotFails
<1>10. CASE Flush
  BY <1>4, <1>10 DEF Flush
<1>11. CASE ApplyBatchAckLost
  BY <1>4, <1>11 DEF ApplyBatchAckLost, PassFails, ClearPass
<1>12. CASE DeadLetter
  <2>1. okBatch' = <<>>
    BY <1>1, <1>12 DEF DeadLetter, ControlIsConsistent
  <2> QED
    BY <1>5, <1>12, <2>1 DEF DeadLetter
<1>13. CASE DeadLetterAckLost
  BY <1>5, <1>13 DEF DeadLetterAckLost, PassFails, ClearPass
<1>14. CASE UNCHANGED vars
  BY <1>2, <1>14 DEF vars
<1> QED
  BY <1>3, <1>6, <1>7, <1>8, <1>9, <1>10, <1>11, <1>12, <1>13, <1>14
  DEF Next, Worker, Failure

LEMMA ReplayInvHolds ==
  ASSUME CommitsSucceed
  PROVE  Spec => [](BookInv /\ ReplayInv)
<1>1. Init => BookInv /\ ReplayInv
  BY InitBook, InitReplay
<1>2. BookInv /\ ReplayInv /\ [Next]_vars => (BookInv /\ ReplayInv)'
  BY NextBook, NextReplay
<1> QED
  BY <1>1, <1>2, PTL DEF Spec

\* Rounding, restarts and retries never create or lose a share of a symbol that
\* is traded in quantities a column holds: the quantities of its rows are the
\* replay of the journal, whatever is rounded of averages, of realised results
\* and of the quantities of other symbols.
THEOREM SharesStayReplayed ==
  ASSUME CommitsSucceed
  PROVE  Spec => []SharesAreReplayed
<1>1. BookInv /\ ReplayInv => SharesAreReplayed
  <2> SUFFICES ASSUME BookInv, ReplayInv PROVE SharesAreReplayed
    OBVIOUS
  <2>1. settled \in Seq(JournalEntries)
    BY DEF BookInv, OrderInv, TypeInv, TypeOK, JournalEntries
  <2>2. Replayed(settled, Len(settled)) = Promise!Replay(NoPositions, settled)
    BY <2>1, ReplayedSteps
  <2> QED
    BY <2>2 DEF ReplayInv, BooksAreReplayed, Agrees, SharesAreReplayed
<1> QED
  BY <1>1, ReplayInvHolds, PTL

\* No sell of such a symbol is refused that the journal before it covers, and
\* none is applied that it does not: the verdicts do not depend on batches,
\* restarts or on what is rounded of anything else.
THEOREM VerdictsFollowTheJournal ==
  ASSUME CommitsSucceed
  PROVE  Spec => []VerdictsFollow(settled)
<1>1. BookInv /\ ReplayInv => VerdictsFollow(settled)
  <2> SUFFICES ASSUME BookInv, ReplayInv PROVE VerdictsFollow(settled)
    OBVIOUS
  <2>1. TypeOK
    BY DEF BookInv, OrderInv, TypeInv
  <2>2. Len(okBatch) \in Nat
    BY <2>1, LenProperties DEF TypeOK
  <2>3. /\ settled \in Seq(JournalEntries) /\ Ahead \in Seq(JournalEntries)
        /\ Len(settled) <= Len(Ahead)
        /\ \A i \in 1 .. Len(settled) : Ahead[i] = settled[i]
    BY <2>1, <2>2, AheadFacts
  <2> QED
    BY <2>3, VerdictsOfPrefix DEF ReplayInv
<1> QED
  BY <1>1, ReplayInvHolds, PTL

\* A restart from a snapshot is a restart from a point of the log: its shares of
\* the symbols traded in quantities a column holds are the replay up to there,
\* and all of it is when the columns keep every digit.
THEOREM SnapshotsStayReplays ==
  ASSUME CommitsSucceed
  PROVE  Spec => []SnapshotsAreReplays
<1>1. ReplayInv => SnapshotsAreReplays
  BY DEF ReplayInv, SnapshotsFollow, SnapshotsAreReplays, Agrees, KeepsEveryDigit,
         Replayed, Promise!StandsFor
<1> QED
  BY <1>1, ReplayInvHolds, PTL

\* The database implements the ledger: each transaction of the worker settles a
\* run of events with the verdicts the book calls for, and the book becomes
\* their replay: in the shares of every symbol traded in quantities a column
\* holds, and in every field when the columns keep every digit.
THEOREM LedgerIsImplemented ==
  ASSUME CommitsSucceed
  PROVE  Spec => ImplementsLedger
<1>1. Init => Promise!Init
  BY DEF Init, Promise!Init, NoPositions, Promise!NoPositions, ZeroLot, Promise!ZeroLot
<1>2. /\ BookInv /\ BookInv' /\ ReplayInv /\ ReplayInv' /\ [Next]_vars
      => [Promise!Next]_(Promise!ledger)
  BY StepsOfTheLedger
<1> QED
  BY <1>1, <1>2, ReplayInvHolds, PTL DEF Spec, ImplementsLedger, Promise!Spec

-----------------------------------------------------------------------------
(* A pass runs down.  No failure is excluded: the cursor meant here is the *)
(* one in memory, which a commit whose answer was lost leaves behind.      *)

\* The batch is in key order and beyond the cursor, the queue beyond both.
PageIsAhead ==
  /\ \A i \in DOMAIN okBatch : Before(cur, Key(okBatch[i]))
  /\ \A i, j \in DOMAIN okBatch : i < j => Before(Key(okBatch[i]), Key(okBatch[j]))
  /\ \A e \in queue : Before(cur, Key(e))
  /\ \A i \in DOMAIN okBatch, e \in queue : Before(Key(okBatch[i]), Key(e))

LEMMA NothingIsAhead ==
  ASSUME queue' = {}, okBatch' = <<>>
  PROVE  PageIsAhead'
BY DEF PageIsAhead

LEMMA AheadUntouched ==
  ASSUME PageIsAhead, UNCHANGED <<cur, queue, okBatch>>
  PROVE  PageIsAhead'
BY DEF PageIsAhead

\* The last event of a batch is the newest of it.
LEMMA BatchEndsLast ==
  ASSUME TypeOK, PageIsAhead, okBatch # <<>>
  PROVE  /\ LastKey \in Cursors /\ Before(cur, LastKey)
         /\ \A e \in Batched : e \in Requests /\ ~Before(LastKey, Key(e))
         /\ \A e \in queue : Before(LastKey, Key(e))
<1>1. okBatch \in Seq(Requests) /\ cur \in Cursors
  BY DEF TypeOK, Cursors
<1> PICK n : n = Len(okBatch)
  OBVIOUS
<1>2. n \in Nat /\ n \in DOMAIN okBatch /\ okBatch[n] \in Requests
      /\ DOMAIN okBatch = 1 .. n
  BY <1>1, LastOfBatch, LenProperties
<1>3. LastKey = Key(okBatch[n]) /\ LastKey \in Cursors
  BY <1>2, RequestFacts DEF LastKey
<1>4. ASSUME NEW i \in DOMAIN okBatch
      PROVE  okBatch[i] \in Requests /\ ~Before(LastKey, Key(okBatch[i]))
  <2>1. okBatch[i] \in Requests
    BY <1>1, <1>2, ElementOfSeq
  <2>2. Key(okBatch[i]) \in Cursors
    BY <2>1, RequestFacts
  <2>3. i = n \/ i < n
    BY <1>2
  <2>4. CASE i = n
    BY <1>3, <2>1, <2>4, BeforeIsOrder
  <2>5. CASE i < n
    <3>1. Before(Key(okBatch[i]), LastKey)
      BY <1>2, <1>3, <2>5 DEF PageIsAhead
    <3> QED
      BY <1>3, <2>1, <2>2, <3>1, BeforeIsOrder
  <2> QED
    BY <2>3, <2>4, <2>5
<1>5. Before(cur, LastKey) /\ \A e \in queue : Before(LastKey, Key(e))
  BY <1>2, <1>3 DEF PageIsAhead
<1> QED
  BY <1>3, <1>4, <1>5 DEF Batched

\* An event taken off the queue joins the batch.
LEMMA TradeJoinsBatch ==
  ASSUME TypeOK, PageIsAhead, queue # {}, UNCHANGED cur,
         okBatch' = Append(okBatch, EarliestOf(queue)),
         queue' = queue \ {EarliestOf(queue)}
  PROVE  PageIsAhead' /\ Fetched' = Fetched /\ Shrinks(queue', queue)
<1> PICK d : d = EarliestOf(queue)
  OBVIOUS
<1> PICK n : n = Len(okBatch)
  OBVIOUS
<1>1. queue \subseteq Requests /\ okBatch \in Seq(Requests)
  BY DEF TypeOK
<1>2. d \in queue /\ d \in Requests /\ \A f \in queue : f = d \/ Before(Key(d), Key(f))
  BY <1>1, EarliestRequest
<1>3. /\ n \in Nat /\ DOMAIN okBatch = 1 .. n
      /\ okBatch' \in Seq(Requests) /\ Len(okBatch') = n + 1
      /\ \A i \in 1 .. n : okBatch'[i] = okBatch[i]
      /\ okBatch'[n + 1] = d
  BY <1>1, <1>2, AppendProperties, LenProperties
<1>4. DOMAIN okBatch' = 1 .. n + 1
  BY <1>3, LenProperties
<1>5. Fetched' = Fetched
  <2>1. Batched' = Batched \cup {d}
    BY <1>3, <1>4 DEF Batched
  <2> QED
    BY <1>2, <2>1 DEF Fetched
<1>6. \A i \in DOMAIN okBatch' : \/ i \in DOMAIN okBatch /\ okBatch'[i] = okBatch[i]
                                 \/ i = n + 1 /\ okBatch'[i] = d
  BY <1>3, <1>4
<1>7. \A i, j \in DOMAIN okBatch' :
        i < j => i \in DOMAIN okBatch /\ okBatch'[i] = okBatch[i]
  BY <1>3, <1>4
<1>8. \A i, j \in DOMAIN okBatch' :
        i < j => Before(Key(okBatch'[i]), Key(okBatch'[j]))
  BY <1>2, <1>6, <1>7 DEF PageIsAhead
<1>9. \A i \in DOMAIN okBatch' : Before(cur, Key(okBatch'[i]))
  BY <1>2, <1>6 DEF PageIsAhead
<1>10. \A i \in DOMAIN okBatch', e \in queue \ {d} : Before(Key(okBatch'[i]), Key(e))
  BY <1>2, <1>6 DEF PageIsAhead
<1>11. PageIsAhead'
  BY <1>8, <1>9, <1>10 DEF PageIsAhead
<1> QED
  BY <1>2, <1>5, <1>11 DEF Shrinks

\* A page is beyond the cursor.
LEMMA PageIsBeyond ==
  ASSUME TypeOK
  PROVE  EligibleBatchAfterWatermark(FetchAfter(log, cur, PageLimit),
           maxSeen - Watermark, Watermark, PageLimit) \subseteq Beyond(log, cur)
BY DEF EligibleBatchAfterWatermark, EligiblePrefix, FetchAfter

\* What every step within a pass does, unless it is one of the environment's.
StepRunsDown == {pc, pc'} \subseteq InPass /\ UNCHANGED world => RunsDown \/ UNCHANGED vars

\* A return ends the pass, or turns the pass of a rebuild into the one after it.
LEMMA ReturnRunsDown ==
  ASSUME PassEnds \/ PassFails
  PROVE  PageIsAhead' /\ StepRunsDown
<1>1. queue' = {} /\ okBatch' = <<>>
  BY DEF PassEnds, PassFails, ClearPass
<1>2. pc' \in InPass => rebuilding /\ ~rebuilding'
  BY DEF PassEnds, PassFails, InPass
<1> QED
  BY <1>1, <1>2, NothingIsAhead DEF StepRunsDown, RunsDown

\* A commit leaves nothing of its batch behind the cursor.
LEMMA CommitRunsDown ==
  ASSUME TypeInv, PageIsAhead, Flush
  PROVE  PageIsAhead' /\ RunsDown
<1>1. /\ pc = "flush" /\ cur' = LastKey /\ okBatch' = <<>>
      /\ UNCHANGED <<log, now, overtaken, rebuilding, queue>>
  BY DEF Flush, world
<1>2. okBatch # <<>> /\ TypeOK
  BY <1>1 DEF TypeInv, ControlIsConsistent
<1>3. log \subseteq Requests /\ cur \in Cursors
  BY <1>2 DEF TypeOK, Cursors
<1> PICK last : last = LastKey
  OBVIOUS
<1>4. /\ last \in Cursors /\ Before(cur, last)
      /\ \A e \in Batched : ~Before(last, Key(e))
      /\ \A e \in queue : Before(last, Key(e))
  BY <1>2, BatchEndsLast
<1>5. PageIsAhead'
  BY <1>1, <1>4 DEF PageIsAhead
<1>6. Waiting' \subseteq Waiting
  <2>1. Waiting' = {e \in log : Before(last, Key(e))} \ queue
    BY <1>1 DEF Waiting, Beyond, Fetched, Batched
  <2>2. ASSUME NEW e \in log, Before(last, Key(e)) PROVE Before(cur, Key(e)) /\ e \notin Batched
    <3>1. Key(e) \in Cursors
      BY <1>3, RequestFacts
    <3> QED
      BY <1>3, <1>4, <2>2, <3>1, BeforeIsOrder
  <2> QED
    BY <2>1, <2>2 DEF Waiting, Beyond, Fetched
<1>7. RunsDown
  BY <1>1, <1>2, <1>6 DEF RunsDown, Shrinks
<1> QED
  BY <1>5, <1>7

\* A dead letter takes the head off the queue and the cursor to it.
LEMMA DeadLetterRunsDown ==
  ASSUME TypeInv, PageIsAhead, DeadLetter
  PROVE  PageIsAhead' /\ RunsDown
<1> PICK d : d = EarliestOf(queue)
  OBVIOUS
<1>1. /\ pc = "dlq" /\ cur' = Key(d) /\ queue' = queue \ {d}
      /\ UNCHANGED <<log, now, overtaken, rebuilding, okBatch>>
  BY DEF DeadLetter, world
<1>2. okBatch = <<>> /\ queue # {} /\ TypeOK
  BY <1>1 DEF TypeInv, ControlIsConsistent
<1>3. log \subseteq Requests /\ cur \in Cursors /\ queue \subseteq Requests
  BY <1>2 DEF TypeOK, Cursors
<1>4. /\ d \in queue /\ Key(d) \in Cursors /\ Before(cur, Key(d))
      /\ \A f \in queue : f = d \/ Before(Key(d), Key(f))
  BY <1>2, <1>3, EarliestRequest, RequestFacts DEF PageIsAhead
<1>5. PageIsAhead'
  BY <1>1, <1>2, <1>4 DEF PageIsAhead
<1>6. Waiting' \subseteq Waiting
  <2>1. Batched = {} /\ Batched' = {}
    BY <1>1, <1>2 DEF Batched
  <2>2. /\ Waiting' = {e \in log : Before(Key(d), Key(e))} \ (queue \ {d})
        /\ Waiting = {e \in log : Before(cur, Key(e))} \ queue
    BY <1>1, <2>1 DEF Waiting, Beyond, Fetched
  <2>3. ASSUME NEW e \in log, Before(Key(d), Key(e)) PROVE Before(cur, Key(e)) /\ e # d
    <3>1. Key(e) \in Cursors
      BY <1>3, RequestFacts
    <3> QED
      BY <1>3, <1>4, <2>3, <3>1, BeforeIsOrder
  <2> QED
    BY <2>2, <2>3
<1>7. Shrinks(queue', queue)
  BY <1>1, <1>4 DEF Shrinks
<1>8. RunsDown
  BY <1>1, <1>6, <1>7 DEF RunsDown, Shrinks
<1> QED
  BY <1>5, <1>8

\* A page is taken off what waits.
LEMMA PageRunsDown ==
  ASSUME TypeInv, PageIsAhead, FetchPage
  PROVE  PageIsAhead' /\ StepRunsDown
<1> PICK page : page = EligibleBatchAfterWatermark(FetchAfter(log, cur, PageLimit),
                         maxSeen - Watermark, Watermark, PageLimit)
  OBVIOUS
<1>1. TypeOK /\ page \subseteq Beyond(log, cur)
  BY PageIsBeyond DEF TypeInv
<1>2. pc = "fetch" /\ queue = {} /\ okBatch = <<>>
  BY DEF FetchPage, TypeInv, ControlIsConsistent
<1>3. CASE page = {}
  BY <1>3, ReturnRunsDown DEF FetchPage
<1>4. CASE page # {}
  <2>1. queue' = page /\ UNCHANGED <<log, cur, okBatch, rebuilding>>
    BY <1>4 DEF FetchPage, world, memory
  <2>2. Waiting = Beyond(log, cur) /\ Waiting' = Beyond(log, cur) \ page
    BY <1>2, <2>1 DEF Waiting, Fetched, Batched
  <2>3. Shrinks(Waiting', Waiting)
    BY <1>1, <1>4, <2>2 DEF Shrinks
  <2>4. PageIsAhead'
    BY <1>1, <1>2, <2>1 DEF PageIsAhead, Beyond
  <2> QED
    BY <2>1, <2>3, <2>4 DEF StepRunsDown, RunsDown
<1> QED
  BY <1>3, <1>4

\* A step that goes on to a later stage of the round with the same page.
LEMMA StageRunsDown ==
  ASSUME PageIsAhead, UNCHANGED <<log, cur, rebuilding, queue, okBatch>>,
         pc' # pc, {pc, pc'} \subseteq InPass => Stage' < Stage
  PROVE  PageIsAhead' /\ StepRunsDown
<1>1. UNCHANGED Waiting
  BY DEF Waiting, Fetched, Batched
<1> QED
  BY <1>1, AheadUntouched DEF StepRunsDown, RunsDown

LEMMA NextRunsDown ==
  ASSUME TypeInv, PageIsAhead, [Next]_vars
  PROVE  PageIsAhead' /\ StepRunsDown
<1> USE DEF world, database, memory, pass
<1>0. TypeOK /\ ControlIsConsistent
  BY DEF TypeInv
<1>1. ASSUME NEW e \in Requests, PostTrade(e) PROVE PageIsAhead' /\ StepRunsDown
  <2>1. UNCHANGED <<database, pc, memory, pass, now, faults>> /\ (log' = log => overtaken' = overtaken)
    BY <1>1 DEF PostTrade
  <2> QED
    BY <2>1, AheadUntouched DEF StepRunsDown, vars
<1>2. CASE ClockTicks
  <2>1. now' # now
    BY <1>0, <1>2 DEF ClockTicks, TypeOK
  <2> QED
    BY <1>2, <2>1, AheadUntouched DEF ClockTicks, StepRunsDown
<1>3. CASE Start \/ Tick
  BY <1>3, AheadUntouched DEF Start, Tick, StepRunsDown, InPass
<1>4. CASE Rebuild
  <2>1. pc = "rebuild" /\ queue = {} /\ okBatch = <<>>
    BY <1>0, <1>4
    DEF Rebuild, RebuildFromSnapshot, RebuildFromLog, RebuildFromProjection, ControlIsConsistent
  <2>2. StepRunsDown
    BY <2>1 DEF StepRunsDown, InPass
  <2>3. CASE queue' = {} /\ okBatch' = <<>>
    BY <2>2, <2>3, NothingIsAhead
  <2>4. CASE queue' = log /\ okBatch' = <<>> /\ cur' = ZeroCursor
    <3>1. \A e \in log : Before(ZeroCursor, Key(e))
      BY <1>0, RequestFacts, ZeroIsFirst DEF TypeOK
    <3> QED
      BY <2>2, <2>4, <3>1 DEF PageIsAhead
  <2> QED
    BY <1>4, <2>1, <2>3, <2>4
    DEF Rebuild, RebuildFromSnapshot, RebuildFromLog, RebuildFromProjection
<1>5. CASE ReadMaxEventTime
  BY <1>5, StageRunsDown DEF ReadMaxEventTime, Stage
<1>6. CASE FetchPage
  BY <1>6, PageRunsDown
<1>7. CASE ApplyNext
  <2>1. pc = "apply" /\ queue # {} /\ UNCHANGED <<log, cur, rebuilding>>
    BY <1>7 DEF ApplyNext
  <2>2. CASE \E r \in {"EVENT_TOO_STALE", "POSITION_UNDERFLOW"} : Stop(EarliestOf(queue), r)
    BY <2>1, <2>2, StageRunsDown DEF Stop, Stage
  <2>3. CASE /\ okBatch' = Append(okBatch, EarliestOf(queue))
             /\ queue' = queue \ {EarliestOf(queue)}
    <3>1. PageIsAhead' /\ Fetched' = Fetched /\ Shrinks(queue', queue)
      BY <1>0, <2>1, <2>3, TradeJoinsBatch
    <3>2. UNCHANGED Waiting
      BY <2>1, <3>1 DEF Waiting
    <3> QED
      BY <2>1, <3>1, <3>2 DEF StepRunsDown, RunsDown
  <2> QED
    BY <1>7, <2>2, <2>3 DEF ApplyNext
<1>8. CASE ApplyDone
  <2>1. CASE pc = "apply" /\ pc' \in {"flush", "max"} /\ UNCHANGED <<log, memory, pass>>
    BY <2>1, StageRunsDown DEF Stage
  <2> QED
    BY <1>8, <2>1, ReturnRunsDown DEF ApplyDone
<1>9. CASE Flush
  BY <1>9, CommitRunsDown DEF StepRunsDown
<1>10. CASE WriteSnapshot \/ SnapshotFails
  BY <1>10, StageRunsDown DEF WriteSnapshot, SnapshotFails, Resume, Stage
<1>11. CASE DeadLetter
  BY <1>11, DeadLetterRunsDown DEF StepRunsDown
<1>12. CASE Crash
  BY <1>12, NothingIsAhead DEF Crash, ClearPass, StepRunsDown, InPass
<1>13. CASE ReadFails \/ ApplyBatchFails \/ ApplyBatchAckLost \/ DeadLetterFails
            \/ DeadLetterAckLost
  BY <1>13, ReturnRunsDown
  DEF ReadFails, ApplyBatchFails, ApplyBatchAckLost, DeadLetterFails, DeadLetterAckLost
<1>14. CASE UNCHANGED vars
  BY <1>14, AheadUntouched DEF vars, StepRunsDown
<1> QED
  BY <1>1, <1>2, <1>3, <1>4, <1>5, <1>6, <1>7, <1>8, <1>9, <1>10, <1>11, <1>12,
     <1>13, <1>14
  DEF Next, Worker, Failure

\* The loops of a pass end: no failure, no late arrival and no restart makes the
\* goroutine that drives a shard go round on one portfolio without taking events
\* off what waits there.
THEOREM PassesEnd == Spec => PassesRunDown
<1>1. Init => TypeInv /\ PageIsAhead
  BY InitTypeInv DEF Init, PageIsAhead
<1>2. TypeInv /\ PageIsAhead /\ [Next]_vars => (TypeInv /\ PageIsAhead)'
  BY NextTypeInv, NextRunsDown
<1>3. TypeInv /\ PageIsAhead /\ [Next]_vars
        => [({pc, pc'} \subseteq InPass /\ UNCHANGED world) => RunsDown]_vars
  BY NextRunsDown DEF StepRunsDown
<1> QED
  BY <1>1, <1>2, <1>3, PTL DEF Spec, PassesRunDown

-----------------------------------------------------------------------------
(* Nothing is skipped.  No failure is excluded here either: a commit whose *)
(* answer is lost leaves the cursor in memory behind the stored one, and   *)
(* the events in between are settled a second time, never passed over.     *)

CursorLags ==
  /\ pc = "down" => ~known
  /\ pc = "rebuild" => rebuilding
  /\ pc \in InPass \cup {"rebuild"} => known
  /\ known /\ pc # "rebuild" => cur = dbCur \/ Before(cur, dbCur)

CursorIsLogged == dbCur = ZeroCursor \/ \E f \in log : Key(f) = dbCur

\* A page leaves nothing out beyond the cursor it was read from.
PageIsComplete ==
  /\ Batched \subseteq log
  /\ \A e \in log, f \in Fetched :
       Before(cur, Key(e)) /\ Before(Key(e), Key(f)) => e \in Fetched \cup overtaken

NothingLost == CursorIsLogged /\ PageIsComplete /\ NoSilentSkip

SkipInv == TypeInv /\ PageIsAhead /\ CursorLags /\ NothingLost

LEMMA NothingLostYet ==
  ASSUME NothingLost, UNCHANGED <<log, overtaken, dbCur, settled>>,
         UNCHANGED <<cur, queue, okBatch>> \/ (queue' = {} /\ okBatch' = <<>>)
  PROVE  NothingLost'
<1>1. CursorIsLogged' /\ NoSilentSkip'
  BY DEF NothingLost, CursorIsLogged, NoSilentSkip, SettledEvents
<1>2. CASE UNCHANGED <<cur, queue, okBatch>>
  BY <1>1, <1>2 DEF NothingLost, PageIsComplete, Fetched, Batched
<1>3. CASE queue' = {} /\ okBatch' = <<>>
  <2>1. Fetched' = {} /\ Batched' = {}
    BY <1>3 DEF Fetched, Batched
  <2> QED
    BY <1>1, <2>1 DEF NothingLost, PageIsComplete
<1> QED
  BY <1>2, <1>3

\* An event that arrives behind the stored cursor or within a page is overtaken.
LEMMA ArrivalIsNotSkipped ==
  ASSUME TypeOK, NothingLost, NEW e \in Requests, PostTrade(e)
  PROVE  NothingLost'
<1>1. UNCHANGED <<dbCur, settled, cur, queue, okBatch>>
  BY DEF PostTrade, database, memory, pass
<1>2. CASE log' = log
  <2>1. overtaken' = overtaken
    BY <1>2 DEF PostTrade
  <2> QED
    BY <1>1, <1>2, <2>1, NothingLostYet
<1>3. CASE log' # log
  <2>1. log' = log \cup {e} /\ e \notin log
    BY <1>3 DEF PostTrade, AppendEvent
  <2>2. /\ overtaken \subseteq overtaken'
        /\ Before(Key(e), dbCur) => e \in overtaken'
        /\ \A f \in Fetched : Before(Key(e), Key(f)) => e \in overtaken'
    BY <1>3 DEF PostTrade
  <2>3. Fetched' = Fetched /\ Batched' = Batched /\ SettledEvents' = SettledEvents
    BY <1>1 DEF Fetched, Batched, SettledEvents
  <2>4. CursorIsLogged' /\ PageIsComplete'
    BY <1>1, <2>1, <2>2, <2>3 DEF NothingLost, CursorIsLogged, PageIsComplete
  <2>5. Key(e) # dbCur
    <3>1. IsLog(Requests) /\ log \subseteq Requests /\ Key(e) # ZeroCursor
      BY RequestsAreLog, RequestFacts DEF TypeOK
    <3> QED
      BY <2>1, <3>1, KeysAreDistinct DEF NothingLost, CursorIsLogged
  <2>6. Key(e) \in Cursors /\ dbCur \in Cursors
    BY RequestFacts DEF TypeOK, Cursors
  <2>7. Before(dbCur, Key(e)) \/ e \in overtaken'
    BY <2>2, <2>5, <2>6, BeforeIsOrder
  <2>8. NoSilentSkip'
    BY <1>1, <2>1, <2>2, <2>3, <2>7 DEF NothingLost, NoSilentSkip
  <2> QED
    BY <2>4, <2>8 DEF NothingLost
<1> QED
  BY <1>2, <1>3

EventsOf(journal) == {journal[i].event : i \in DOMAIN journal}

\* What a run of entries adds to the settled events.
LEMMA RunIsSettled ==
  ASSUME NEW old \in Seq(JournalEntries), NEW run \in Seq(JournalEntries)
  PROVE  EventsOf(old \o run) = EventsOf(old) \cup EventsOf(run)
<1> PICK new : new = old \o run
  OBVIOUS
<1> PICK n : n = Len(old)
  OBVIOUS
<1> PICK m : m = Len(run)
  OBVIOUS
<1>1. n \in Nat /\ DOMAIN old = 1 .. n /\ m \in Nat /\ DOMAIN run = 1 .. m
  BY LenProperties
<1>2. /\ new \in Seq(JournalEntries) /\ Len(new) = n + m
      /\ \A i \in 1 .. n + m : new[i] = IF i <= n THEN old[i] ELSE run[i - n]
  BY ConcatProperties
<1>3. DOMAIN new = 1 .. n + m
  BY <1>2, LenProperties
<1>4. ASSUME NEW i \in DOMAIN old PROVE \E k \in DOMAIN new : new[k] = old[i]
  BY <1>1, <1>2, <1>3
<1>5. ASSUME NEW i \in DOMAIN run PROVE \E k \in DOMAIN new : new[k] = run[i]
  <2>1. n + i \in DOMAIN new /\ new[n + i] = run[i]
    BY <1>1, <1>2, <1>3
  <2> QED
    BY <2>1
<1>6. ASSUME NEW k \in DOMAIN new
      PROVE  (\E i \in DOMAIN old : new[k] = old[i]) \/ (\E i \in DOMAIN run : new[k] = run[i])
  <2>1. \/ k \in DOMAIN old /\ new[k] = old[k]
        \/ k - n \in DOMAIN run /\ new[k] = run[k - n]
    BY <1>1, <1>2, <1>3
  <2> QED
    BY <2>1
<1>7. EventsOf(old) \subseteq EventsOf(new)
  BY <1>4 DEF EventsOf
<1>8. EventsOf(run) \subseteq EventsOf(new)
  BY <1>5 DEF EventsOf
<1>9. EventsOf(new) \subseteq EventsOf(old) \cup EventsOf(run)
  BY <1>6 DEF EventsOf
<1> QED
  BY <1>7, <1>8, <1>9

\* The batch, or the dead letter.
LEMMA SettledByCommit ==
  ASSUME TypeOK
  PROVE  /\ CommitBatch => SettledEvents' = SettledEvents \cup Batched
         /\ queue # {} /\ CommitDLQ => SettledEvents' = SettledEvents \cup {EarliestOf(queue)}
<1>1. /\ settled \in Seq(JournalEntries) /\ okBatch \in Seq(Requests)
      /\ queue \subseteq Requests /\ verdict \in Verdicts
  BY DEF TypeOK, JournalEntries
<1>2. SettledEvents = EventsOf(settled) /\ SettledEvents' = EventsOf(settled')
  BY DEF SettledEvents, EventsOf
<1>3. ASSUME CommitBatch PROVE SettledEvents' = SettledEvents \cup Batched
  <2> PICK run : run = [i \in 1 .. Len(okBatch) |-> Entry(okBatch[i], "APPLIED")]
    OBVIOUS
  <2>1. settled' = settled \o run
    BY <1>3 DEF CommitBatch
  <2>2. run \in Seq(JournalEntries) /\ DOMAIN okBatch = 1 .. Len(okBatch)
    BY <1>1, BatchEntries, LenProperties DEF JournalEntries
  <2>3. EventsOf(run) = Batched
    BY <2>2 DEF EventsOf, Batched, Entry
  <2>4. EventsOf(settled \o run) = EventsOf(settled) \cup EventsOf(run)
    BY <1>1, <2>2, RunIsSettled
  <2> QED
    BY <1>2, <2>1, <2>3, <2>4
<1>4. ASSUME queue # {}, CommitDLQ
      PROVE  SettledEvents' = SettledEvents \cup {EarliestOf(queue)}
  <2> PICK d : d = EarliestOf(queue)
    OBVIOUS
  <2>1. d \in Requests
    BY <1>1, <1>4, EarliestRequest
  <2> PICK letter : letter = Entry(d, verdict)
    OBVIOUS
  <2>2. letter \in JournalEntries /\ letter.event = d
    BY <1>1, <2>1 DEF Entry, JournalEntries
  <2> PICK run : run = <<letter>>
    OBVIOUS
  <2>3. settled' = settled \o run
    BY <1>1, <1>4, <2>2, AppendIsConcat DEF CommitDLQ
  <2>4. run \in Seq(JournalEntries) /\ EventsOf(run) = {d}
    BY <2>2 DEF EventsOf
  <2>5. EventsOf(settled \o run) = EventsOf(settled) \cup EventsOf(run)
    BY <1>1, <2>4, RunIsSettled
  <2> QED
    BY <1>2, <2>3, <2>4, <2>5
<1> QED
  BY <1>3, <1>4

\* A commit takes the stored cursor, forward or back, to an event of the page
\* that is being worked on, and settles what the page has up to there.
LEMMA CommitSkipsNothing ==
  ASSUME TypeOK, NoSilentSkip, cur = dbCur \/ Before(cur, dbCur),
         NEW done, NEW last \in log,
         dbCur' = Key(last), SettledEvents' = SettledEvents \cup done,
         UNCHANGED <<log, overtaken>>,
         \A e \in log :
           Before(cur, Key(e)) /\ ~Before(Key(last), Key(e)) => e \in done \cup overtaken
  PROVE  CursorIsLogged' /\ NoSilentSkip'
<1>1. CursorIsLogged'
  BY DEF CursorIsLogged
<1>2. ASSUME NEW e \in log, ~Before(Key(last), Key(e)), e \notin overtaken
      PROVE  e \in SettledEvents \cup done
  <2>1. CASE Before(cur, Key(e))
    BY <1>2, <2>1
  <2>2. CASE ~Before(cur, Key(e))
    <3>1. Key(e) \in Cursors /\ cur \in Cursors /\ dbCur \in Cursors
      BY RequestFacts DEF TypeOK, Cursors
    <3>2. ~Before(dbCur, Key(e))
      BY <2>2, <3>1, BeforeIsOrder
    <3> QED
      BY <1>2, <3>2 DEF NoSilentSkip
  <2> QED
    BY <2>1, <2>2
<1>3. NoSilentSkip'
  BY <1>2 DEF NoSilentSkip
<1> QED
  BY <1>1, <1>3

\* What a batch leaves of the page: the queue.
LEMMA BatchSkipsNothing ==
  ASSUME SkipInv, pc = "flush", CommitBatch, UNCHANGED <<log, overtaken>>
  PROVE  /\ CursorIsLogged' /\ NoSilentSkip'
         /\ cur' = LastKey /\ queue' = queue /\ okBatch' = <<>> => PageIsComplete'
<1>1. /\ TypeOK /\ PageIsAhead /\ CursorLags /\ PageIsComplete /\ NoSilentSkip
      /\ okBatch # <<>>
  BY DEF SkipInv, NothingLost, TypeInv, ControlIsConsistent
<1>2. okBatch \in Seq(Requests) /\ log \subseteq Requests /\ cur \in Cursors
  BY <1>1 DEF TypeOK, Cursors
<1> PICK n : n = Len(okBatch)
  OBVIOUS
<1>3. n \in Nat /\ DOMAIN okBatch = 1 .. n /\ n \in DOMAIN okBatch
      /\ okBatch[n] \in Batched
  BY <1>1, <1>2, LastOfBatch, LenProperties DEF Batched
<1> PICK last : last = okBatch[n]
  OBVIOUS
<1>4. LastKey = Key(last) /\ last \in Batched /\ last \in Fetched
  BY <1>3 DEF LastKey, Fetched
<1>5. /\ Key(last) \in Cursors /\ Before(cur, Key(last))
      /\ \A e \in Batched : e \in Requests /\ ~Before(Key(last), Key(e))
      /\ \A e \in queue : Before(Key(last), Key(e))
  BY <1>1, <1>4, BatchEndsLast
<1>6. last \in Requests
  BY <1>4, <1>5
<1>7. Batched \subseteq log /\ last \in log
  BY <1>1, <1>4 DEF PageIsComplete
<1>8. ASSUME NEW e \in log, Before(cur, Key(e)), ~Before(Key(last), Key(e))
      PROVE  e \in Batched \cup overtaken
  <2>1. Key(e) \in Cursors
    BY <1>2, RequestFacts
  <2>2. Key(e) = Key(last) \/ Before(Key(e), Key(last))
    BY <1>5, <1>8, <2>1, BeforeIsOrder
  <2>3. CASE Key(e) = Key(last)
    BY <1>2, <1>4, <1>7, <2>3, RequestsAreLog, KeysAreDistinct
  <2>4. CASE Before(Key(e), Key(last))
    <3>1. e \in Fetched \cup overtaken
      BY <1>1, <1>4, <1>8, <2>4 DEF PageIsComplete
    <3>2. e \notin queue
      BY <1>5, <1>8
    <3> QED
      BY <3>1, <3>2 DEF Fetched
  <2> QED
    BY <2>2, <2>3, <2>4
<1>9. CursorIsLogged' /\ NoSilentSkip'
  <2>1. SettledEvents' = SettledEvents \cup Batched
    BY <1>1, SettledByCommit
  <2>2. dbCur' = Key(last)
    BY <1>4 DEF CommitBatch
  <2>3. cur = dbCur \/ Before(cur, dbCur)
    BY <1>1 DEF CursorLags, InPass
  <2> QED
    BY <1>1, <1>7, <1>8, <2>1, <2>2, <2>3, CommitSkipsNothing
<1>10. ASSUME cur' = LastKey, queue' = queue, okBatch' = <<>>
       PROVE  PageIsComplete'
  <2>1. Batched' = {} /\ Fetched' = queue
    BY <1>10 DEF Batched, Fetched
  <2>2. ASSUME NEW e \in log, NEW f \in queue, Before(Key(last), Key(e)), Before(Key(e), Key(f))
        PROVE  e \in queue \cup overtaken
    <3>1. Key(e) \in Cursors
      BY <1>2, RequestFacts
    <3>2. Before(cur, Key(e))
      BY <1>2, <1>5, <2>2, <3>1, BeforeIsOrder
    <3>3. e \in Fetched \cup overtaken
      BY <1>1, <2>2, <3>2 DEF PageIsComplete, Fetched
    <3>4. e \notin Batched
      BY <1>5, <2>2
    <3> QED
      BY <3>3, <3>4 DEF Fetched
  <2> QED
    BY <1>4, <1>10, <2>1, <2>2 DEF PageIsComplete
<1> QED
  BY <1>9, <1>10

\* So does a dead letter.
LEMMA DeadLetterSkipsNothing ==
  ASSUME SkipInv, pc = "dlq", CommitDLQ, UNCHANGED <<log, overtaken>>
  PROVE  LET d == EarliestOf(queue)
         IN  /\ CursorIsLogged' /\ NoSilentSkip'
             /\ cur' = Key(d) /\ queue' = queue \ {d} /\ okBatch' = okBatch
                  => PageIsComplete'
<1> PICK d : d = EarliestOf(queue)
  OBVIOUS
<1>1. /\ TypeOK /\ PageIsAhead /\ CursorLags /\ PageIsComplete /\ NoSilentSkip
      /\ queue # {} /\ okBatch = <<>>
  BY DEF SkipInv, NothingLost, TypeInv, ControlIsConsistent
<1>2. queue \subseteq log /\ log \subseteq Requests /\ cur \in Cursors /\ verdict \in Verdicts
  BY <1>1 DEF TypeOK, Cursors
<1>3. /\ d \in queue /\ d \in log /\ Key(d) \in Cursors /\ Before(cur, Key(d))
      /\ \A f \in queue : f = d \/ Before(Key(d), Key(f))
  BY <1>1, <1>2, EarliestRequest, RequestFacts DEF PageIsAhead
<1>4. Batched = {} /\ Fetched = queue
  BY <1>1 DEF Batched, Fetched
<1>5. ASSUME NEW e \in log, Before(cur, Key(e)), ~Before(Key(d), Key(e))
      PROVE  e \in {d} \cup overtaken
  <2>1. Key(e) \in Cursors
    BY <1>2, RequestFacts
  <2>2. Key(e) = Key(d) \/ Before(Key(e), Key(d))
    BY <1>3, <1>5, <2>1, BeforeIsOrder
  <2>3. CASE Key(e) = Key(d)
    BY <1>2, <1>3, <2>3, RequestsAreLog, KeysAreDistinct
  <2>4. CASE Before(Key(e), Key(d))
    <3>1. e \in queue \cup overtaken
      BY <1>1, <1>3, <1>4, <1>5, <2>4 DEF PageIsComplete
    <3> QED
      BY <1>3, <1>5, <3>1
  <2> QED
    BY <2>2, <2>3, <2>4
<1>6. CursorIsLogged' /\ NoSilentSkip'
  <2>1. SettledEvents' = SettledEvents \cup {d}
    BY <1>1, SettledByCommit
  <2>2. dbCur' = Key(d)
    BY DEF CommitDLQ
  <2>3. cur = dbCur \/ Before(cur, dbCur)
    BY <1>1 DEF CursorLags, InPass
  <2> QED
    BY <1>1, <1>3, <1>5, <2>1, <2>2, <2>3, CommitSkipsNothing
<1>7. ASSUME cur' = Key(d), queue' = queue \ {d}, okBatch' = okBatch
      PROVE  PageIsComplete'
  <2>1. Batched' = {} /\ Fetched' = queue \ {d}
    BY <1>1, <1>7 DEF Batched, Fetched
  <2>2. ASSUME NEW e \in log, NEW f \in queue, Before(Key(d), Key(e)), Before(Key(e), Key(f))
        PROVE  e \in (queue \ {d}) \cup overtaken
    <3>1. Key(e) \in Cursors
      BY <1>2, RequestFacts
    <3>2. Before(cur, Key(e)) /\ e # d
      BY <1>2, <1>3, <2>2, <3>1, BeforeIsOrder
    <3> QED
      BY <1>1, <1>4, <2>2, <3>2 DEF PageIsComplete
  <2> QED
    BY <1>7, <2>1, <2>2 DEF PageIsComplete
<1> QED
  BY <1>6, <1>7

\* A page begins at the cursor of the worker.
LEMMA PageSkipsNothing ==
  ASSUME TypeOK, NothingLost, okBatch' = <<>>,
         UNCHANGED <<log, cur, dbCur, settled, overtaken>>,
         queue' = EligibleBatchAfterWatermark(FetchAfter(log, cur, PageLimit),
                    maxSeen - Watermark, Watermark, PageLimit)
  PROVE  NothingLost'
<1> PICK batch : batch = FetchAfter(log, cur, PageLimit)
  OBVIOUS
<1>1. /\ log \subseteq Requests /\ cur \in Cursors /\ maxSeen - Watermark \in Int
      /\ PageLimit \in Nat
  BY ParametersAssumption DEF TypeOK, Cursors
<1>2. IsLog(log) /\ IsFiniteSet(log)
  BY <1>1, RequestsAreLog
<1>3. /\ batch \subseteq log
      /\ \A e \in batch, f \in log :
           Before(cur, Key(f)) /\ Before(Key(f), Key(e)) => f \in batch
  BY <1>1, <1>2, PageIsPrefix
<1>4. IsLog(batch)
  BY <1>2, <1>3, SubsetIsLog
<1>5. /\ queue' \subseteq batch
      /\ \A e \in queue', f \in batch : Before(Key(f), Key(e)) => f \in queue'
  BY <1>1, <1>4, EligibleIsPrefix
<1>6. Batched' = {} /\ Fetched' = queue'
  BY DEF Batched, Fetched
<1>7. PageIsComplete'
  BY <1>3, <1>5, <1>6 DEF PageIsComplete
<1> QED
  BY <1>7 DEF NothingLost, CursorIsLogged, NoSilentSkip, SettledEvents

\* A failed pass leaves a cursor no further than it was, or no worker.
LEMMA FailedPassLags ==
  ASSUME TypeOK, CursorLags, PassFails, pc \in InPass \cup {"rebuild"},
         dbCur' = dbCur \/ (pc # "rebuild" /\ Before(cur, dbCur'))
  PROVE  CursorLags'
<1>1. pc' = "idle"
  BY DEF PassFails
<1>2. CASE rebuilding
  <2>1. known' = FALSE
    BY <1>2 DEF PassFails, ForgetWorker
  <2> QED
    BY <1>1, <2>1 DEF CursorLags, InPass
<1>3. CASE ~rebuilding
  <2>1. UNCHANGED <<known, cur>> /\ pc # "rebuild" /\ known
    BY <1>3 DEF PassFails, memory, CursorLags
  <2> QED
    BY <1>1, <2>1 DEF CursorLags, InPass
<1> QED
  BY <1>2, <1>3

LEMMA NextSkip == SkipInv /\ [Next]_vars => SkipInv'
<1> SUFFICES ASSUME SkipInv, [Next]_vars PROVE SkipInv'
  OBVIOUS
<1> USE DEF world, database, memory, pass
<1>0. TypeInv' /\ PageIsAhead'
  BY NextTypeInv, NextRunsDown DEF SkipInv
<1>a. SUFFICES CursorLags' /\ NothingLost'
  BY <1>0 DEF SkipInv
<1>b. TypeOK /\ ControlIsConsistent /\ CursorLags /\ NothingLost /\ PageIsAhead
  BY DEF SkipInv, TypeInv
<1>c. cur \in Cursors /\ dbCur \in Cursors
  BY <1>b DEF TypeOK, Cursors
<1>1. ASSUME NEW e \in Requests, PostTrade(e) PROVE CursorLags' /\ NothingLost'
  <2>1. CursorLags'
    BY <1>1, <1>b DEF PostTrade, CursorLags
  <2> QED
    BY <1>1, <1>b, <2>1, ArrivalIsNotSkipped
<1>2. CASE ClockTicks
  BY <1>2, <1>b, NothingLostYet DEF ClockTicks, CursorLags
<1>3. CASE Start
  BY <1>3, <1>b, NothingLostYet DEF Start, CursorLags, InPass
<1>4. CASE Tick
  BY <1>4, <1>b, NothingLostYet DEF Tick, CursorLags, InPass
<1>5. CASE Rebuild
  <2>1. /\ pc = "rebuild" /\ queue = {} /\ okBatch = <<>> /\ Fetched = {}
        /\ UNCHANGED <<log, dbCur, settled, overtaken, known, okBatch>>
    BY <1>5, <1>b
    DEF Rebuild, RebuildFromSnapshot, RebuildFromLog, RebuildFromProjection,
        ControlIsConsistent, Fetched, Batched
  <2>2. CASE queue' = {} /\ cur' = dbCur /\ pc' = "max"
    <3>1. CursorLags'
      BY <1>b, <2>1, <2>2 DEF CursorLags, InPass
    <3> QED
      BY <1>b, <2>1, <2>2, <3>1, NothingLostYet
  <2>3. CASE queue' = log /\ cur' = dbCur /\ pc' = "apply"
    <3>1. CursorLags'
      BY <1>b, <2>1, <2>3 DEF CursorLags, InPass
    <3>2. Batched' = {} /\ Fetched' = log
      BY <2>1, <2>3 DEF Batched, Fetched
    <3>3. PageIsComplete'
      BY <2>1, <3>2 DEF PageIsComplete
    <3> QED
      BY <1>b, <2>1, <3>1, <3>3 DEF NothingLost, CursorIsLogged, NoSilentSkip, SettledEvents
  <2>4. CASE RebuildFromSnapshot
    <3>1. cur' = dbCur
      BY <1>b, <2>4 DEF RebuildFromSnapshot, Usable, ControlIsConsistent
    <3> QED
      BY <2>1, <2>2, <2>4, <3>1 DEF RebuildFromSnapshot
  <2>5. ASSUME NEW r \in BOOLEAN, RebuildFromLog(r) PROVE CursorLags' /\ NothingLost'
    BY <2>3, <2>5 DEF RebuildFromLog
  <2>6. ASSUME NEW r \in BOOLEAN, RebuildFromProjection(r) PROVE CursorLags' /\ NothingLost'
    BY <2>1, <2>2, <2>6 DEF RebuildFromProjection
  <2> QED
    BY <1>5, <2>4, <2>5, <2>6 DEF Rebuild
<1>6. CASE ReadMaxEventTime
  BY <1>6, <1>b, NothingLostYet DEF ReadMaxEventTime, CursorLags, InPass
<1>7. CASE FetchPage
  <2>1. pc = "fetch" /\ UNCHANGED <<world, database, faults>> /\ okBatch = <<>>
    BY <1>7, <1>b DEF FetchPage, ControlIsConsistent
  <2>2. CASE PassEnds
    <3>1. /\ queue' = {} /\ okBatch' = <<>> /\ pc' \in {"max", "idle"}
          /\ UNCHANGED <<known, cur>>
      BY <2>2 DEF PassEnds, ClearPass
    <3> QED
      BY <1>b, <2>1, <3>1, NothingLostYet DEF CursorLags, InPass
  <2>3. CASE /\ queue' = EligibleBatchAfterWatermark(FetchAfter(log, cur, PageLimit),
                           maxSeen - Watermark, Watermark, PageLimit)
             /\ pc' = "apply" /\ UNCHANGED <<memory, okBatch>>
    <3>1. CursorLags'
      BY <1>b, <2>1, <2>3 DEF CursorLags, InPass
    <3> QED
      BY <1>b, <2>1, <2>3, <3>1, PageSkipsNothing
  <2> QED
    BY <1>7, <2>2, <2>3 DEF FetchPage
<1>8. CASE ApplyNext
  <2>1. /\ pc = "apply" /\ queue # {} /\ pc' \in {"apply", "dlq", "flush"}
        /\ UNCHANGED <<world, database, known, cur>>
    BY <1>8 DEF ApplyNext, Stop
  <2>2. CursorLags'
    BY <1>b, <2>1 DEF CursorLags, InPass
  <2>3. CASE UNCHANGED <<queue, okBatch>>
    BY <1>b, <2>1, <2>2, <2>3, NothingLostYet
  <2>4. CASE /\ okBatch' = Append(okBatch, EarliestOf(queue))
             /\ queue' = queue \ {EarliestOf(queue)}
    <3>1. Fetched' = Fetched
      BY <1>b, <2>1, <2>4, TradeJoinsBatch
    <3>2. Fetched \subseteq log /\ Batched' \subseteq Fetched'
      BY <1>b DEF NothingLost, PageIsComplete, Fetched, TypeOK
    <3>3. PageIsComplete'
      BY <1>b, <2>1, <3>1, <3>2 DEF NothingLost, PageIsComplete
    <3> QED
      BY <1>b, <2>1, <2>2, <3>3 DEF NothingLost, CursorIsLogged, NoSilentSkip, SettledEvents
  <2> QED
    BY <1>8, <2>3, <2>4 DEF ApplyNext, Stop
<1>9. CASE ApplyDone
  <2>1. pc = "apply" /\ UNCHANGED <<world, database, faults>>
    BY <1>9 DEF ApplyDone
  <2>2. CASE PassEnds
    <3>1. /\ queue' = {} /\ okBatch' = <<>> /\ pc' \in {"max", "idle"}
          /\ UNCHANGED <<known, cur>>
      BY <2>2 DEF PassEnds, ClearPass
    <3> QED
      BY <1>b, <2>1, <3>1, NothingLostYet DEF CursorLags, InPass
  <2>3. CASE pc' \in {"flush", "max"} /\ UNCHANGED <<memory, pass>>
    BY <1>b, <2>1, <2>3, NothingLostYet DEF CursorLags, InPass
  <2> QED
    BY <1>9, <2>2, <2>3 DEF ApplyDone
<1>10. CASE Flush
  <2>1. /\ pc = "flush" /\ CommitBatch /\ cur' = LastKey /\ okBatch' = <<>>
        /\ UNCHANGED <<world, known, queue>>
        /\ pc' \in {"snapshot", "apply", "dlq"}
    BY <1>10 DEF Flush, Resume
  <2>2. NothingLost'
    BY <2>1, BatchSkipsNothing DEF NothingLost
  <2>3. cur' = dbCur'
    BY <2>1 DEF CommitBatch
  <2> QED
    BY <1>b, <2>1, <2>2, <2>3 DEF CursorLags, InPass
<1>11. CASE WriteSnapshot \/ SnapshotFails
  <2>1. /\ pc = "snapshot" /\ pc' \in {"apply", "dlq"}
        /\ UNCHANGED <<world, dbCur, settled, known, cur, queue, okBatch>>
    BY <1>11 DEF WriteSnapshot, SnapshotFails, Resume
  <2> QED
    BY <1>b, <2>1, NothingLostYet DEF CursorLags, InPass
<1>12. CASE DeadLetter
  <2>1. /\ pc = "dlq" /\ pc' = "apply" /\ CommitDLQ
        /\ cur' = Key(EarliestOf(queue)) /\ queue' = queue \ {EarliestOf(queue)}
        /\ UNCHANGED <<world, known, okBatch>>
    BY <1>12 DEF DeadLetter
  <2>2. NothingLost'
    BY <2>1, DeadLetterSkipsNothing DEF NothingLost
  <2>3. cur' = dbCur'
    BY <2>1 DEF CommitDLQ
  <2> QED
    BY <1>b, <2>1, <2>2, <2>3 DEF CursorLags, InPass
<1>13. CASE Crash
  <2>1. /\ queue' = {} /\ okBatch' = <<>> /\ pc' = "down" /\ known' = FALSE
        /\ UNCHANGED <<world, database>>
    BY <1>13 DEF Crash, ClearPass, ForgetWorker
  <2> QED
    BY <1>b, <2>1, NothingLostYet DEF CursorLags, InPass
<1>14. CASE PassFails /\ pc \in InPass \cup {"rebuild"} /\ UNCHANGED <<world, database>>
  BY <1>14, <1>b, FailedPassLags, NothingLostYet DEF PassFails, ClearPass
<1>15. CASE ApplyBatchAckLost
  <2>1. PassFails /\ pc = "flush" /\ CommitBatch /\ UNCHANGED world
    BY <1>15 DEF ApplyBatchAckLost
  <2>2. Before(cur, dbCur')
    BY <1>b, <2>1, BatchEndsLast DEF CommitBatch, ControlIsConsistent
  <2>3. CursorLags'
    BY <1>b, <2>1, <2>2, FailedPassLags DEF InPass
  <2>4. CursorIsLogged' /\ NoSilentSkip'
    BY <2>1, BatchSkipsNothing
  <2>5. PageIsComplete'
    BY <2>1 DEF PassFails, ClearPass, PageIsComplete, Fetched, Batched
  <2> QED
    BY <2>3, <2>4, <2>5 DEF NothingLost
<1>16. CASE DeadLetterAckLost
  <2>1. PassFails /\ pc = "dlq" /\ CommitDLQ /\ UNCHANGED world
    BY <1>16 DEF DeadLetterAckLost
  <2>2. Before(cur, dbCur')
    <3>1. queue # {} /\ queue \subseteq Requests
      BY <1>b, <2>1 DEF ControlIsConsistent, TypeOK
    <3>2. EarliestOf(queue) \in queue
      BY <3>1, EarliestRequest
    <3> QED
      BY <1>b, <2>1, <3>2 DEF CommitDLQ, PageIsAhead
  <2>3. CursorLags'
    BY <1>b, <2>1, <2>2, FailedPassLags DEF InPass
  <2>4. CursorIsLogged' /\ NoSilentSkip'
    BY <2>1, DeadLetterSkipsNothing
  <2>5. PageIsComplete'
    BY <2>1 DEF PassFails, ClearPass, PageIsComplete, Fetched, Batched
  <2> QED
    BY <2>3, <2>4, <2>5 DEF NothingLost
<1>17. CASE ReadFails \/ ApplyBatchFails \/ DeadLetterFails
  BY <1>14, <1>17 DEF ReadFails, ApplyBatchFails, DeadLetterFails, InPass
<1>18. CASE UNCHANGED vars
  BY <1>18, <1>b, NothingLostYet DEF vars, CursorLags
<1> QED
  BY <1>1, <1>2, <1>3, <1>4, <1>5, <1>6, <1>7, <1>8, <1>9, <1>10, <1>11, <1>12,
     <1>13, <1>15, <1>16, <1>17, <1>18
  DEF Next, Worker, Failure

\* The worker steps over no event that had arrived when it read the page: what
\* lies at or behind the stored cursor is settled or was overtaken, whatever
\* call fails and whatever answer is lost.
THEOREM NothingIsSkipped == Spec => []NoSilentSkip
<1>1. Init => SkipInv
  <2> SUFFICES ASSUME Init PROVE SkipInv
    OBVIOUS
  <2>1. TypeInv
    BY InitTypeInv
  <2> QED
    BY <2>1
    DEF Init, SkipInv, PageIsAhead, CursorLags, InPass, NothingLost, CursorIsLogged,
        PageIsComplete, NoSilentSkip, Fetched, Batched
<1>2. SkipInv => NoSilentSkip
  BY DEF SkipInv, NothingLost
<1> QED
  BY <1>1, <1>2, NextSkip, PTL DEF Spec
=============================================================================
