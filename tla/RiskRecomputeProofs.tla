------------------------ MODULE RiskRecomputeProofs -------------------------
(***************************************************************************)
(* Proofs about RiskRecompute, for any set of portfolios and symbols, any  *)
(* number of timers and any bounds: type correctness, that a row never     *)
(* claims less than it contains, and that no trigger is forgotten.         *)
(***************************************************************************)
EXTENDS RiskRecompute, TLAPS

-----------------------------------------------------------------------------
(* Types.                                                                  *)

LEMMA FreshType ==
  ASSUME NEW phase \in Phases
  PROVE  Fresh(phase) \in TimerType /\ Fresh(phase).phase = phase
BY DEF Fresh, TimerType, NoMarks

\* What an action that only moves one timer on does to it.
LEMMA MovesType ==
  ASSUME TypeOK, NEW p \in Portfolios, NEW i \in Timers, NEW t \in TimerType,
         Moves(p, i, t)
  PROVE  /\ timer' \in [Portfolios -> [Timers -> TimerType]]
         /\ timer'[p][i] = t
         /\ \A q \in Portfolios : \A j \in Timers :
              q # p \/ j # i => timer'[q][j] = timer[q][j]
BY DEF TypeOK, Moves

LEMMA StoppedType ==
  ASSUME TypeOK, NEW p \in Portfolios
  PROVE  Stopped(p) \in [Timers -> TimerType]
<1>1. Fresh("free") \in TimerType
  BY FreshType DEF Phases
<1> QED
  BY <1>1 DEF TypeOK, Stopped

\* What Schedule does to the timers: one that was free is armed and named by
\* the entry, and no other portfolio notices.
LEMMA ScheduleArms ==
  ASSUME TypeOK, NEW p \in Portfolios, Schedule(p)
  PROVE  /\ timer' \in [Portfolios -> [Timers -> TimerType]]
         /\ entry' \in [Portfolios -> Timers \cup {0}]
         /\ \E i \in Timers : /\ entry'[p] = i
                              /\ timer'[p][i] = Fresh("armed")
                              /\ \A j \in Timers : j # i => timer'[p][j] = Stopped(p)[j]
         /\ \A q \in Portfolios : q # p => timer'[q] = timer[q] /\ entry'[q] = entry[q]
<1>1. PICK i \in Timers :
        /\ timer' = [timer EXCEPT ![p] = [Stopped(p) EXCEPT ![i] = Fresh("armed")]]
        /\ entry' = [entry EXCEPT ![p] = i]
  BY DEF Schedule
<1>2. Fresh("armed") \in TimerType
  BY FreshType DEF Phases
<1> QED
  BY <1>1, <1>2, StoppedType DEF TypeOK

LEMMA TypeInit == Init => TypeOK
<1> SUFFICES ASSUME Init PROVE TypeOK
  OBVIOUS
<1>1. Fresh("free") \in TimerType
  BY FreshType DEF Phases
<1> QED
  BY <1>1 DEF Init, TypeOK, NoMarks

LEMMA TypeNext == BoundsAssumption /\ TypeOK /\ [Next]_vars => TypeOK'
<1> SUFFICES ASSUME BoundsAssumption, TypeOK, [Next]_vars PROVE TypeOK'
  OBVIOUS
<1>1. ASSUME NEW p \in Portfolios, NEW n \in 1 .. MaxEvents,
             \/ CommitTrades(p, n) \/ CommitTradesFails(p, n) \/ CommitDeadLetter(p, n)
      PROVE  TypeOK'
  <2>1. /\ \A f \in {cursor, book, at, agg} : f \in [Portfolios -> Nat]
        /\ n \in Nat /\ Applied(p, n) \in Nat
    BY DEF TypeOK, Applied
  <2>2. /\ cursor' \in [Portfolios -> Nat]
        /\ book' \in [Portfolios -> Nat]
        /\ at' \in [Portfolios -> Nat]
        /\ agg' \in [Portfolios -> Nat]
    <3>1. CASE CommitTrades(p, n)
      BY <2>1, <3>1 DEF CommitTrades
    <3>2. CASE CommitTradesFails(p, n)
      BY <2>1, <3>2 DEF CommitTradesFails, tables
    <3>3. CASE CommitDeadLetter(p, n)
      BY <2>1, <3>3 DEF CommitDeadLetter
    <3> QED
      BY <1>1, <3>1, <3>2, <3>3
  <2>3. /\ held' \in [Portfolios -> SUBSET Symbols]
        /\ tradeDue' \subseteq Portfolios /\ retried' \subseteq Portfolios
        /\ disrupted' \in Nat
        /\ UNCHANGED <<price, rows, priceDue, holders, entry, timer, running>>
    BY <1>1 DEF TypeOK, CommitTrades, CommitTradesFails, CommitDeadLetter, Disrupt, tables,
                triggers, scheduler
  <2> QED
    BY <2>2, <2>3 DEF TypeOK
<1>3. ASSUME NEW p \in Portfolios, ScheduleAfterTrades(p) PROVE TypeOK'
  <2>1. Fresh("armed").phase # "free"
    BY DEF Fresh
  <2> QED
    BY <1>3, <2>1, ScheduleArms DEF TypeOK, ScheduleAfterTrades, tables, workers
<1>4. ASSUME NEW p \in Portfolios, ScheduleHolder(p) PROVE TypeOK'
  <2>1. Fresh("armed").phase # "free"
    BY DEF Fresh
  <2> QED
    BY <1>4, <2>1, ScheduleArms DEF TypeOK, ScheduleHolder, tables, workers
<1>5. ASSUME NEW p \in Portfolios, NEW i \in Timers, Fire(p, i) PROVE TypeOK'
  <2>1. Fresh("positions") \in TimerType /\ Fresh("positions").phase = "positions"
    BY FreshType DEF Phases
  <2> QED
    BY <1>5, <2>1, MovesType DEF TypeOK, Fire, Moves, tables, workers, triggers
<1>6. ASSUME NEW p \in Portfolios, NEW i \in Timers, LoadPositions(p, i) PROVE TypeOK'
  <2> DEFINE t == [timer[p][i] EXCEPT !.read = book[p], !.open = held[p],
                     !.phase = IF held[p] = {} THEN "cursor" ELSE "prices"]
  <2>1. t \in TimerType /\ t.phase # "free"
    <3>1. timer[p][i] \in TimerType /\ book[p] \in Nat /\ held[p] \in SUBSET Symbols
      BY DEF TypeOK
    <3>2. CASE held[p] = {}
      BY <3>1, <3>2 DEF TimerType, Phases
    <3>3. CASE held[p] # {}
      BY <3>1, <3>3 DEF TimerType, Phases
    <3> QED
      BY <3>2, <3>3
  <2>2. Moves(p, i, t) /\ UNCHANGED <<rows, entry, disrupted>>
    BY <1>6 DEF LoadPositions
  <2> HIDE DEF t
  <2> QED
    BY <2>1, <2>2, MovesType DEF TypeOK, Moves, tables, workers, triggers
<1>7. ASSUME NEW p \in Portfolios, NEW i \in Timers, LoadPrices(p, i) PROVE TypeOK'
  <2> DEFINE m == [s \in Symbols |-> IF s \in timer[p][i].open THEN price[s] ELSE 0]
             t == [timer[p][i] EXCEPT !.marks = m, !.phase = "cursor"]
  <2>1. m \in [Symbols -> Nat]
    BY DEF TypeOK
  <2>2. Moves(p, i, t) /\ UNCHANGED <<rows, entry, disrupted>>
    BY <1>7 DEF LoadPrices
  <2> HIDE DEF m
  <2>3. t \in TimerType /\ t.phase # "free"
    <3>1. timer[p][i] \in TimerType
      BY DEF TypeOK
    <3> QED
      BY <2>1, <3>1 DEF TimerType, Phases
  <2> HIDE DEF t
  <2> QED
    BY <2>2, <2>3, MovesType DEF TypeOK, Moves, tables, workers, triggers
<1>8. ASSUME NEW p \in Portfolios, NEW i \in Timers, LoadCursor(p, i) PROVE TypeOK'
  <2> DEFINE t == [timer[p][i] EXCEPT !.asOf = cursor[p],
                     !.phase = IF cursor[p] = 0 THEN "done" ELSE "insert"]
  <2>1. t \in TimerType /\ t.phase # "free"
    <3>1. timer[p][i] \in TimerType /\ cursor[p] \in Nat
      BY DEF TypeOK
    <3>2. CASE cursor[p] = 0
      BY <3>1, <3>2 DEF TimerType, Phases
    <3>3. CASE cursor[p] # 0
      BY <3>1, <3>3 DEF TimerType, Phases
    <3> QED
      BY <3>2, <3>3
  <2>2. Moves(p, i, t) /\ UNCHANGED <<rows, entry, disrupted>>
    BY <1>8 DEF LoadCursor
  <2> HIDE DEF t
  <2> QED
    BY <2>1, <2>2, MovesType DEF TypeOK, Moves, tables, workers, triggers
<1>9. ASSUME NEW p \in Portfolios, NEW i \in Timers, InsertRow(p, i) PROVE TypeOK'
  <2>1. Fresh("done") \in TimerType /\ Fresh("done").phase = "done"
    BY FreshType DEF Phases
  <2>2. timer[p][i] \in TimerType
    BY DEF TypeOK
  <2>3. [portfolio |-> p, asOf |-> timer[p][i].asOf, read |-> timer[p][i].read,
         marks |-> timer[p][i].marks]
          \in [portfolio : Portfolios, asOf : Nat, read : Nat, marks : [Symbols -> Nat]]
    BY <2>2 DEF TimerType
  <2> QED
    BY <1>9, <2>1, <2>3, MovesType DEF TypeOK, InsertRow, Moves, tables, workers, triggers
<1>10. ASSUME NEW p \in Portfolios, NEW i \in Timers, RecomputeFails(p, i) PROVE TypeOK'
  <2>1. Fresh("done") \in TimerType /\ Fresh("done").phase = "done"
    BY FreshType DEF Phases
  <2> QED
    BY <1>10, <2>1, MovesType DEF TypeOK, RecomputeFails, Disrupt, Moves, tables, workers, triggers
<1>11. ASSUME NEW p \in Portfolios, NEW i \in Timers, DeleteEntry(p, i) PROVE TypeOK'
  <2>1. Fresh("free") \in TimerType
    BY FreshType DEF Phases
  <2> QED
    BY <1>11, <2>1, MovesType DEF TypeOK, DeleteEntry, Moves, tables, workers, triggers
<1>12. ASSUME NEW batch \in SUBSET Symbols \ {{}}, CommitPrices(batch) PROVE TypeOK'
  BY <1>12 DEF TypeOK, CommitPrices, Disrupt, workers, scheduler
<1>13. ASSUME ListHolders PROVE TypeOK'
  BY <1>13 DEF TypeOK, ListHolders, Disrupt, tables, workers, scheduler
<1>14. ASSUME Shutdown PROVE TypeOK'
  <2>1. timer' \in [Portfolios -> [Timers -> TimerType]]
    BY <1>14, StoppedType DEF Shutdown
  <2>2. entry' = [p \in Portfolios |-> 0]
    BY <1>14 DEF Shutdown
  <2>3. entry' \in [Portfolios -> Timers \cup {0}] /\ \A p \in Portfolios : entry'[p] = 0
    BY <2>2
  <2>4. UNCHANGED <<cursor, book, held, price, rows, at, agg, retried, tradeDue, priceDue,
                   holders>>
    BY <1>14 DEF Shutdown, tables, workers, triggers
  <2>5. running' \in BOOLEAN
    BY <1>14 DEF Shutdown
  <2>6. disrupted \in Nat /\ disrupted' = disrupted + 1
    BY <1>14 DEF TypeOK, Shutdown, Disrupt
  <2>7. disrupted' \in Nat
    BY <2>6
  <2> QED
    BY <2>1, <2>3, <2>4, <2>5, <2>7 DEF TypeOK
<1>15. ASSUME Exit PROVE TypeOK'
  <2>1. Fresh("free") \in TimerType
    BY FreshType DEF Phases
  <2> QED
    BY <1>15, <2>1 DEF TypeOK, Exit, Disrupt, tables
<1>16. CASE UNCHANGED vars
  BY <1>16 DEF TypeOK, vars
<1> QED
  BY <1>1, <1>3, <1>4, <1>5, <1>6, <1>7, <1>8, <1>9, <1>10, <1>11, <1>12, <1>13,
     <1>14, <1>15, <1>16 DEF Next, Callback

\* Type correctness, with what the scheduler's map can hold.
THEOREM TypeCorrect == Spec => []TypeOK
<1>1. Init => TypeOK
  BY TypeInit
<1>2. TypeOK /\ [Next]_vars => TypeOK'
  BY TypeNext, BoundsAssumption
<1> QED
  BY <1>1, <1>2, PTL DEF Spec

-----------------------------------------------------------------------------
(* What the steps of a callback do to its timer.                           *)

OthersStay(p, i) ==
  \A q \in Portfolios : \A j \in Timers :
    q # p \/ j # i => timer'[q][j] = timer[q][j]

LEMMA LoadPositionsStep ==
  ASSUME TypeOK, NEW p \in Portfolios, NEW i \in Timers, LoadPositions(p, i)
  PROVE  /\ timer[p][i].phase = "positions"
         /\ timer'[p][i].read = book[p]
         /\ timer'[p][i].open = held[p]
         /\ timer'[p][i].phase = IF held[p] = {} THEN "cursor" ELSE "prices"
         /\ OthersStay(p, i)
         /\ UNCHANGED <<tables, workers, triggers, running, rows, entry, disrupted>>
<1>1. timer[p][i] \in TimerType
  BY DEF TypeOK
<1> QED
  BY <1>1 DEF LoadPositions, Moves, OthersStay, TypeOK, TimerType

LEMMA LoadPricesStep ==
  ASSUME TypeOK, NEW p \in Portfolios, NEW i \in Timers, LoadPrices(p, i)
  PROVE  /\ timer[p][i].phase = "prices"
         /\ timer'[p][i].read = timer[p][i].read
         /\ timer'[p][i].marks =
              [s \in Symbols |-> IF s \in timer[p][i].open THEN price[s] ELSE 0]
         /\ timer'[p][i].phase = "cursor"
         /\ OthersStay(p, i)
         /\ UNCHANGED <<tables, workers, triggers, running, rows, entry, disrupted>>
<1>1. timer[p][i] \in TimerType
  BY DEF TypeOK
<1> QED
  BY <1>1 DEF LoadPrices, Moves, OthersStay, TypeOK, TimerType

LEMMA LoadCursorStep ==
  ASSUME TypeOK, NEW p \in Portfolios, NEW i \in Timers, LoadCursor(p, i)
  PROVE  /\ timer[p][i].phase = "cursor"
         /\ timer'[p][i].read = timer[p][i].read
         /\ timer'[p][i].marks = timer[p][i].marks
         /\ timer'[p][i].asOf = cursor[p]
         /\ timer'[p][i].phase = IF cursor[p] = 0 THEN "done" ELSE "insert"
         /\ OthersStay(p, i)
         /\ UNCHANGED <<tables, workers, triggers, running, rows, entry, disrupted>>
<1>1. timer[p][i] \in TimerType
  BY DEF TypeOK
<1> QED
  BY <1>1 DEF LoadCursor, Moves, OthersStay, TypeOK, TimerType

LEMMA InsertRowStep ==
  ASSUME TypeOK, NEW p \in Portfolios, NEW i \in Timers, InsertRow(p, i)
  PROVE  /\ timer[p][i].phase = "insert"
         /\ rows' = rows \cup {[portfolio |-> p, asOf |-> timer[p][i].asOf,
                                read |-> timer[p][i].read,
                                marks |-> timer[p][i].marks]}
         /\ timer'[p][i].phase = "done"
         /\ OthersStay(p, i)
         /\ UNCHANGED <<tables, workers, triggers, running, entry, disrupted>>
BY DEF InsertRow, Moves, OthersStay, TypeOK, Fresh

\* Fire, the failure and the end of a callback leave nothing read in the timer.
LEMMA FreshStep ==
  ASSUME TypeOK, NEW p \in Portfolios, NEW i \in Timers,
         Fire(p, i) \/ RecomputeFails(p, i) \/ DeleteEntry(p, i)
  PROVE  /\ timer'[p][i].phase \in {"positions", "done", "free"}
         /\ OthersStay(p, i)
         /\ UNCHANGED <<tables, workers, triggers, running, rows>>
BY DEF Fire, RecomputeFails, DeleteEntry, Moves, OthersStay, TypeOK, Fresh

\* Schedule leaves the other timers of the portfolio alone or stops them.
LEMMA ScheduleStep ==
  ASSUME TypeOK, NEW p \in Portfolios, Schedule(p)
  PROVE  /\ \E i \in Timers : timer'[p][i].phase = "armed"
         /\ \A q \in Portfolios : \A j \in Timers :
              timer'[q][j].phase \in {"free", "armed"} \/ timer'[q][j] = timer[q][j]
         /\ \A q \in Portfolios : q # p => timer'[q] = timer[q]
<1>1. Fresh("armed").phase = "armed" /\ Fresh("free").phase = "free"
  BY DEF Fresh
<1>2. PICK i \in Timers : /\ timer'[p][i] = Fresh("armed")
                          /\ \A j \in Timers : j # i => timer'[p][j] = Stopped(p)[j]
  BY ScheduleArms
<1>3. \A j \in Timers : Stopped(p)[j] = Fresh("free") \/ Stopped(p)[j] = timer[p][j]
  BY DEF Stopped
<1> QED
  BY <1>1, <1>2, <1>3, ScheduleArms


-----------------------------------------------------------------------------
(* A row never claims less than it contains.                               *)

\* While no commit of its worker was reported as failed, the worker is where the
\* tables are, and the positions contain nothing beyond the cursor.
WorkersAreInStep ==
  \A p \in Portfolios \ retried :
    at[p] = cursor[p] /\ agg[p] = book[p] /\ book[p] <= cursor[p]

\* What a callback has read stays behind the cursor, and the as-of it read last
\* lies in between.
Covered(t, c) ==
  /\ t.phase \in {"prices", "cursor", "insert"} => t.read <= c
  /\ t.phase = "insert" => t.read <= t.asOf /\ t.asOf <= c

HasAsOf(t) == t.phase = "insert" => 0 < t.asOf

ReadsAreCovered ==
  \A p \in Portfolios : \A i \in Timers :
    /\ HasAsOf(timer[p][i])
    /\ p \in retried \/ Covered(timer[p][i], cursor[p])

AsOfInv == TypeOK /\ WorkersAreInStep /\ ReadsAreCovered /\ AsOfCoversPositions

LEMMA CoveredGrows ==
  ASSUME NEW t \in TimerType, NEW c \in Nat, NEW d \in Nat, c <= d, Covered(t, c)
  PROVE  Covered(t, d)
BY DEF Covered, TimerType

\* A step of one timer: the rest stays as covered as it was.
LEMMA CoveredStep ==
  ASSUME ReadsAreCovered, NEW p \in Portfolios, NEW i \in Timers,
         OthersStay(p, i), UNCHANGED <<cursor, retried>>, HasAsOf(timer'[p][i]),
         p \in retried \/ Covered(timer'[p][i], cursor[p])
  PROVE  ReadsAreCovered'
BY DEF ReadsAreCovered, OthersStay

\* A commit of a worker in step moves its cursor on, and the positions no further.
LEMMA CommitMovesOn ==
  ASSUME TypeOK, WorkersAreInStep, NEW p \in Portfolios, NEW n \in 1 .. MaxEvents,
         \/ CommitTrades(p, n) \/ CommitTradesFails(p, n) \/ CommitDeadLetter(p, n)
  PROVE  /\ WorkersAreInStep'
         /\ retried \subseteq retried'
         /\ \A q \in Portfolios \ retried : cursor[q] <= cursor'[q]
         /\ UNCHANGED <<timer, rows>>
<1> DEFINE m == Applied(p, n)
<1>1. /\ n \in Nat /\ m \in Nat /\ n <= m
      /\ \A f \in {cursor, book, at, agg} : f \in [Portfolios -> Nat]
  BY DEF TypeOK, Applied
<1>2. p \notin retried => cursor[p] < n /\ m = n
  BY DEF WorkersAreInStep, TypeOK, Applied, CommitTrades, CommitTradesFails, CommitDeadLetter
<1>3. retried \subseteq retried' /\ UNCHANGED <<timer, rows>>
  BY DEF CommitTrades, CommitTradesFails, CommitDeadLetter, scheduler
<1>4. CASE CommitTrades(p, n)
  <2>1. /\ cursor' = [cursor EXCEPT ![p] = n]
        /\ agg' = [agg EXCEPT ![p] = m] /\ book' = [book EXCEPT ![p] = m]
        /\ at' = [at EXCEPT ![p] = n] \/ (at' = at /\ p \in retried')
    BY <1>4 DEF CommitTrades
  <2> HIDE DEF m
  <2> QED
    BY <1>1, <1>2, <1>3, <2>1 DEF WorkersAreInStep
<1>5. CASE CommitTradesFails(p, n)
  <2>1. p \in retried' /\ agg' = [agg EXCEPT ![p] = m] /\ UNCHANGED <<cursor, book, at>>
    BY <1>5 DEF CommitTradesFails, tables
  <2> HIDE DEF m
  <2> QED
    BY <1>1, <1>3, <2>1 DEF WorkersAreInStep
<1>6. CASE CommitDeadLetter(p, n)
  <2>1. /\ cursor' = [cursor EXCEPT ![p] = n] /\ UNCHANGED <<book, agg>>
        /\ at' = [at EXCEPT ![p] = n] \/ (at' = at /\ p \in retried')
    BY <1>6 DEF CommitDeadLetter
  <2> HIDE DEF m
  <2> QED
    BY <1>1, <1>2, <1>3, <2>1 DEF WorkersAreInStep
<1> QED
  BY <1>4, <1>5, <1>6, <1>3

LEMMA InStepNext ==
  ASSUME BoundsAssumption, TypeOK, WorkersAreInStep, [Next]_vars
  PROVE  WorkersAreInStep'
<1>1. ASSUME NEW p \in Portfolios, NEW n \in 1 .. MaxEvents,
             \/ CommitTrades(p, n) \/ CommitTradesFails(p, n) \/ CommitDeadLetter(p, n)
      PROVE  WorkersAreInStep'
  BY <1>1, CommitMovesOn
<1>2. CASE Exit
  BY <1>2 DEF Exit, tables, WorkersAreInStep
<1>3. CASE UNCHANGED <<cursor, book, workers>>
  BY <1>3 DEF workers, WorkersAreInStep
<1>4. ASSUME NEW p \in Portfolios, NEW i \in Timers,
             Fire(p, i) \/ Callback(p, i) \/ RecomputeFails(p, i)
      PROVE  UNCHANGED <<cursor, book, workers>>
  BY <1>4 DEF Fire, Callback, LoadPositions, LoadPrices, LoadCursor, InsertRow, DeleteEntry,
              RecomputeFails, Moves, tables
<1>5. ASSUME NEW p \in Portfolios, ScheduleAfterTrades(p) \/ ScheduleHolder(p)
      PROVE  UNCHANGED <<cursor, book, workers>>
  BY <1>5 DEF ScheduleAfterTrades, ScheduleHolder, tables
<1>6. ASSUME NEW batch \in SUBSET Symbols \ {{}}, CommitPrices(batch)
      PROVE  UNCHANGED <<cursor, book, workers>>
  BY <1>6 DEF CommitPrices
<1>7. ASSUME ListHolders \/ Shutdown \/ UNCHANGED vars
      PROVE  UNCHANGED <<cursor, book, workers>>
  BY <1>7 DEF ListHolders, Shutdown, tables, vars, workers
<1> QED
  BY <1>1, <1>2, <1>3, <1>4, <1>5, <1>6, <1>7 DEF Next

LEMMA AsOfNext == BoundsAssumption /\ AsOfInv /\ [Next]_vars => AsOfInv'
<1> SUFFICES ASSUME BoundsAssumption, AsOfInv, [Next]_vars PROVE AsOfInv'
  OBVIOUS
<1> USE DEF AsOfInv
<1>0. TypeOK' /\ WorkersAreInStep'
  BY TypeNext, InStepNext
<1> SUFFICES ReadsAreCovered' /\ AsOfCoversPositions'
  BY <1>0
<1>1. ASSUME NEW p \in Portfolios, NEW n \in 1 .. MaxEvents,
             \/ CommitTrades(p, n) \/ CommitTradesFails(p, n) \/ CommitDeadLetter(p, n)
      PROVE  ReadsAreCovered' /\ AsOfCoversPositions'
  <2>1. /\ UNCHANGED <<timer, rows>>
        /\ retried \subseteq retried'
        /\ \A q \in Portfolios \ retried : cursor[q] <= cursor'[q]
    BY <1>1, CommitMovesOn
  <2>2. \A q \in Portfolios : cursor[q] \in Nat /\ cursor'[q] \in Nat
    BY <1>0 DEF TypeOK
  <2>3. \A q \in Portfolios : \A i \in Timers : timer[q][i] \in TimerType
    BY DEF TypeOK
  <2>4. ReadsAreCovered'
    BY <2>1, <2>2, <2>3, CoveredGrows DEF ReadsAreCovered
  <2>5. \A r \in rows : r.portfolio \in Portfolios /\ r.asOf \in Nat
    BY DEF TypeOK
  <2> QED
    BY <2>1, <2>2, <2>4, <2>5 DEF AsOfCoversPositions
<1>2. ASSUME NEW p \in Portfolios, ScheduleAfterTrades(p) \/ ScheduleHolder(p)
      PROVE  ReadsAreCovered' /\ AsOfCoversPositions'
  <2>1. Schedule(p) /\ UNCHANGED <<cursor, rows, retried>>
    BY <1>2 DEF ScheduleAfterTrades, ScheduleHolder, tables, workers
  <2>2. \A q \in Portfolios : \A j \in Timers :
          timer'[q][j].phase \in {"free", "armed"} \/ timer'[q][j] = timer[q][j]
    BY <2>1, ScheduleStep
  <2> QED
    BY <2>1, <2>2 DEF ReadsAreCovered, AsOfCoversPositions, Covered, HasAsOf
<1>3. ASSUME NEW p \in Portfolios, NEW i \in Timers,
             Fire(p, i) \/ RecomputeFails(p, i) \/ DeleteEntry(p, i)
      PROVE  ReadsAreCovered' /\ AsOfCoversPositions'
  <2>1. /\ p \in retried \/ Covered(timer'[p][i], cursor[p])
        /\ HasAsOf(timer'[p][i])
        /\ OthersStay(p, i)
        /\ UNCHANGED <<cursor, rows, retried>>
    BY <1>3, FreshStep DEF Covered, HasAsOf, tables, workers
  <2> QED
    BY <2>1, CoveredStep DEF AsOfCoversPositions
<1>4. ASSUME NEW p \in Portfolios, NEW i \in Timers, LoadPositions(p, i)
      PROVE  ReadsAreCovered' /\ AsOfCoversPositions'
  <2>1. /\ p \in retried \/ Covered(timer'[p][i], cursor[p])
        /\ HasAsOf(timer'[p][i])
        /\ OthersStay(p, i)
        /\ UNCHANGED <<cursor, rows, retried>>
    BY <1>4, LoadPositionsStep DEF Covered, HasAsOf, tables, workers, TypeOK, WorkersAreInStep
  <2> QED
    BY <2>1, CoveredStep DEF AsOfCoversPositions
<1>5. ASSUME NEW p \in Portfolios, NEW i \in Timers, LoadPrices(p, i)
      PROVE  ReadsAreCovered' /\ AsOfCoversPositions'
  <2>1. /\ p \in retried \/ Covered(timer'[p][i], cursor[p])
        /\ HasAsOf(timer'[p][i])
        /\ OthersStay(p, i)
        /\ UNCHANGED <<cursor, rows, retried>>
    BY <1>5, LoadPricesStep DEF Covered, HasAsOf, tables, workers, ReadsAreCovered
  <2> QED
    BY <2>1, CoveredStep DEF AsOfCoversPositions
<1>6. ASSUME NEW p \in Portfolios, NEW i \in Timers, LoadCursor(p, i)
      PROVE  ReadsAreCovered' /\ AsOfCoversPositions'
  <2>1. cursor[p] \in Nat /\ (p \in retried \/ timer[p][i].read <= cursor[p])
    <3>1. timer[p][i].phase = "cursor"
      BY <1>6, LoadCursorStep
    <3>2. p \in retried \/ Covered(timer[p][i], cursor[p])
      BY DEF ReadsAreCovered
    <3>3. cursor[p] \in Nat
      BY DEF TypeOK
    <3> QED
      BY <3>1, <3>2, <3>3 DEF Covered
  <2>2. /\ p \in retried \/ Covered(timer'[p][i], cursor[p])
        /\ HasAsOf(timer'[p][i])
        /\ OthersStay(p, i)
        /\ UNCHANGED <<cursor, rows, retried>>
    BY <1>6, <2>1, LoadCursorStep DEF Covered, HasAsOf, tables, workers
  <2> QED
    BY <2>2, CoveredStep DEF AsOfCoversPositions
<1>7. ASSUME NEW p \in Portfolios, NEW i \in Timers, InsertRow(p, i)
      PROVE  ReadsAreCovered' /\ AsOfCoversPositions'
  <2>1. /\ p \in retried \/ Covered(timer'[p][i], cursor[p])
        /\ HasAsOf(timer'[p][i])
        /\ OthersStay(p, i)
        /\ UNCHANGED <<cursor, retried>>
    BY <1>7, InsertRowStep DEF Covered, HasAsOf, tables, workers
  <2>2. LET t == timer[p][i]
        IN  /\ 0 < t.asOf
            /\ p \in retried \/ (t.read <= t.asOf /\ t.asOf <= cursor[p])
    BY <1>7, InsertRowStep DEF ReadsAreCovered, Covered, HasAsOf
  <2>3. ASSUME NEW r \in rows'
        PROVE  /\ 0 < r.asOf
               /\ \/ r.portfolio \in retried
                  \/ r.read <= r.asOf /\ r.asOf <= cursor[r.portfolio]
    <3> DEFINE new == [portfolio |-> p, asOf |-> timer[p][i].asOf,
                       read |-> timer[p][i].read, marks |-> timer[p][i].marks]
    <3>1. r \in rows \/ r = new
      BY <1>7, <2>3, InsertRowStep
    <3> QED
      BY <2>2, <3>1 DEF AsOfCoversPositions
  <2> QED
    BY <2>1, <2>3, CoveredStep DEF AsOfCoversPositions
<1>8. ASSUME NEW batch \in SUBSET Symbols \ {{}}, CommitPrices(batch)
      PROVE  ReadsAreCovered' /\ AsOfCoversPositions'
  BY <1>8 DEF CommitPrices, scheduler, workers, ReadsAreCovered, AsOfCoversPositions
<1>9. ASSUME ListHolders PROVE ReadsAreCovered' /\ AsOfCoversPositions'
  BY <1>9 DEF ListHolders, tables, workers, scheduler, ReadsAreCovered, AsOfCoversPositions
<1>10. ASSUME Shutdown \/ Exit PROVE ReadsAreCovered' /\ AsOfCoversPositions'
  <2>1. UNCHANGED <<cursor, rows, retried>>
    BY <1>10 DEF Shutdown, Exit, tables, workers
  <2>2. \A p \in Portfolios : \A i \in Timers :
          timer'[p][i] = Fresh("free") \/ timer'[p][i] = timer[p][i]
    BY <1>10 DEF Shutdown, Exit, Stopped
  <2>3. Fresh("free").phase = "free"
    BY DEF Fresh
  <2> QED
    BY <2>1, <2>2, <2>3 DEF ReadsAreCovered, AsOfCoversPositions, Covered, HasAsOf
<1>11. CASE UNCHANGED vars
  BY <1>11 DEF vars, ReadsAreCovered, AsOfCoversPositions
<1> QED
  BY <1>1, <1>2, <1>3, <1>4, <1>5, <1>6, <1>7, <1>8, <1>9, <1>10, <1>11
     DEF Next, Callback

\* A row of risk_snapshots never claims less than it contains, unless a commit of
\* the portfolio's kept worker was reported as failed: the cursor is read after the
\* positions, and neither is stored behind an earlier one by a worker in step.
THEOREM AsOfIsCovered == Spec => []AsOfCoversPositions
<1>1. Init => AsOfInv
  <2> SUFFICES ASSUME Init PROVE AsOfInv
    OBVIOUS
  <2>1. \A p \in Portfolios : \A i \in Timers : timer[p][i].phase = "free"
    BY DEF Init, Fresh
  <2> QED
    BY <2>1, TypeInit DEF Init, AsOfInv, WorkersAreInStep, ReadsAreCovered, Covered,
                         HasAsOf, AsOfCoversPositions
<1>2. AsOfInv /\ [Next]_vars => AsOfInv'
  BY AsOfNext, BoundsAssumption
<1>3. AsOfInv => AsOfCoversPositions
  BY DEF AsOfInv
<1> QED
  BY <1>1, <1>2, <1>3, PTL DEF Spec

-----------------------------------------------------------------------------
(* No batch of trades is forgotten.                                        *)

\* Positions come with a cursor.
BookHasCursor == \A p \in Portfolios : book[p] # 0 => cursor[p] # 0

TradesInv == TypeOK /\ BookHasCursor /\ TradesArePending

\* Nothing goes wrong in a step after which nothing has gone wrong.
LEMMA NothingWrong ==
  ASSUME TypeOK, [Next]_vars, disrupted' = 0
  PROVE  disrupted = 0 /\ \A kind : ~Disrupt(kind)
<1>1. disrupted \in Nat /\ \A kind : ~Disrupt(kind)
  BY DEF Disrupt, TypeOK
<1>2. ASSUME NEW p \in Portfolios, NEW n \in 1 .. MaxEvents,
             \/ CommitTrades(p, n) \/ CommitTradesFails(p, n) \/ CommitDeadLetter(p, n)
      PROVE  UNCHANGED disrupted
  BY <1>1, <1>2 DEF CommitTrades, CommitTradesFails, CommitDeadLetter
<1>4. ASSUME NEW p \in Portfolios, ScheduleAfterTrades(p) \/ ScheduleHolder(p)
      PROVE  UNCHANGED disrupted
  BY <1>4 DEF ScheduleAfterTrades, ScheduleHolder
<1>5. ASSUME NEW p \in Portfolios, NEW i \in Timers,
             Fire(p, i) \/ Callback(p, i) \/ RecomputeFails(p, i)
      PROVE  UNCHANGED disrupted
  BY <1>1, <1>5 DEF Fire, Callback, LoadPositions, LoadPrices, LoadCursor, InsertRow,
                    DeleteEntry, RecomputeFails
<1>6. ASSUME NEW batch \in SUBSET Symbols \ {{}}, CommitPrices(batch)
      PROVE  UNCHANGED disrupted
  BY <1>1, <1>6 DEF CommitPrices
<1>7. ASSUME ListHolders PROVE UNCHANGED disrupted
  BY <1>1, <1>7 DEF ListHolders
<1>8. ~Shutdown /\ ~Exit
  BY <1>1 DEF Shutdown, Exit
<1> QED
  BY <1>1, <1>2, <1>4, <1>5, <1>6, <1>7, <1>8 DEF Next, vars

\* A step of one timer keeps trades pending when the timer keeps its word.
LEMMA TradesPendingStep ==
  ASSUME NEW p \in Portfolios, NEW i \in Timers, NEW q \in Portfolios,
         TradesPending(q), OthersStay(p, i), UNCHANGED <<book, tradeDue>>,
         rows \subseteq rows',
         q = p /\ WillReport(timer[p][i], book[p])
           => \/ WillReport(timer'[p][i], book[p])
              \/ \E r \in rows' : r.portfolio = p /\ r.read >= book[p]
  PROVE  TradesPending(q)'
<1>1. CASE book[q] = 0 \/ q \in tradeDue
  BY <1>1 DEF TradesPending
<1>2. CASE \E r \in rows : r.portfolio = q /\ r.read >= book[q]
  BY <1>2 DEF TradesPending
<1>3. ASSUME NEW j \in Timers, WillReport(timer[q][j], book[q])
      PROVE  TradesPending(q)'
  <2>1. CASE q = p /\ j = i
    BY <1>3, <2>1 DEF TradesPending
  <2>2. CASE q # p \/ j # i
    <3>1. WillReport(timer'[q][j], book'[q])
      BY <1>3, <2>2 DEF OthersStay
    <3> QED
      BY <3>1 DEF TradesPending, WillReport
  <2> QED
    BY <2>1, <2>2
<1> QED
  BY <1>1, <1>2, <1>3 DEF TradesPending

LEMMA TradesNext == BoundsAssumption /\ TradesInv /\ [Next]_vars => TradesInv'
<1> SUFFICES ASSUME BoundsAssumption, TradesInv, [Next]_vars PROVE TradesInv'
  OBVIOUS
<1> USE DEF TradesInv
<1>1. TypeOK'
  BY TypeNext
<1>2. BookHasCursor'
  <2>1. ASSUME NEW p \in Portfolios, NEW n \in 1 .. MaxEvents,
               \/ CommitTrades(p, n) \/ CommitTradesFails(p, n) \/ CommitDeadLetter(p, n)
        PROVE  BookHasCursor'
    BY <2>1 DEF CommitTrades, CommitTradesFails, CommitDeadLetter, tables, BookHasCursor, TypeOK
  <2>2. CASE UNCHANGED <<cursor, book>>
    BY <2>2 DEF BookHasCursor
  <2>3. ASSUME NEW p \in Portfolios, ScheduleAfterTrades(p) \/ ScheduleHolder(p)
        PROVE  UNCHANGED <<cursor, book>>
    BY <2>3 DEF ScheduleAfterTrades, ScheduleHolder, tables
  <2>4. ASSUME NEW p \in Portfolios, NEW i \in Timers, Callback(p, i)
        PROVE  UNCHANGED <<cursor, book>>
    BY <2>4 DEF Callback, LoadPositions, LoadPrices, LoadCursor, InsertRow, DeleteEntry,
         Moves, tables
  <2>5. ASSUME NEW p \in Portfolios, NEW i \in Timers, Fire(p, i) \/ RecomputeFails(p, i)
        PROVE  UNCHANGED <<cursor, book>>
    BY <2>5 DEF Fire, RecomputeFails, Moves, tables
  <2>6. ASSUME NEW batch \in SUBSET Symbols \ {{}}, CommitPrices(batch)
        PROVE  UNCHANGED <<cursor, book>>
    BY <2>6 DEF CommitPrices
  <2>7. ASSUME ListHolders \/ Shutdown \/ Exit \/ UNCHANGED vars
        PROVE  UNCHANGED <<cursor, book>>
    BY <2>7 DEF ListHolders, Shutdown, Exit, tables, vars
  <2> QED
    BY <2>1, <2>2, <2>3, <2>4, <2>5, <2>6, <2>7 DEF Next
<1>3. ASSUME disrupted' = 0, NEW q \in Portfolios PROVE TradesPending(q)'
  <2>0. TradesPending(q) /\ \A kind : ~Disrupt(kind)
    BY <1>3, NothingWrong DEF TradesArePending
  <2>1. ASSUME NEW p \in Portfolios, NEW n \in 1 .. MaxEvents, CommitTrades(p, n)
        PROVE  TradesPending(q)'
    <3>1. p \in tradeDue' /\ tradeDue \subseteq tradeDue' /\ UNCHANGED <<rows, timer>>
      BY <2>0, <2>1 DEF CommitTrades, scheduler
    <3>2. q # p => book'[q] = book[q]
      BY <2>1 DEF CommitTrades, TypeOK
    <3> QED
      BY <2>0, <3>1, <3>2 DEF TradesPending, WillReport
  <2>2. ASSUME NEW p \in Portfolios, NEW n \in 1 .. MaxEvents,
               CommitTradesFails(p, n) \/ CommitDeadLetter(p, n)
        PROVE  TradesPending(q)'
    BY <2>0, <2>2 DEF CommitTradesFails, CommitDeadLetter, TradesPending, WillReport, triggers, scheduler
  <2>3. ASSUME NEW p \in Portfolios, ScheduleAfterTrades(p) \/ ScheduleHolder(p)
        PROVE  TradesPending(q)'
    <3>1. Schedule(p) /\ UNCHANGED <<book, rows>> /\ tradeDue \ {p} \subseteq tradeDue'
      BY <2>3 DEF ScheduleAfterTrades, ScheduleHolder, tables
    <3>2. CASE q = p
      BY <3>1, <3>2, ScheduleStep DEF TradesPending, WillReport
    <3>3. CASE q # p
      BY <2>0, <3>1, <3>3, ScheduleStep DEF TradesPending, WillReport
    <3> QED
      BY <3>2, <3>3
  <2>4. ASSUME NEW p \in Portfolios, NEW i \in Timers, Fire(p, i)
        PROVE  TradesPending(q)'
    <3>1. WillReport(timer'[p][i], book[p])
      BY <2>4 DEF Fire, Moves, TypeOK, Fresh, WillReport
    <3>2. OthersStay(p, i) /\ UNCHANGED <<book, tradeDue, rows>>
      BY <2>4, FreshStep DEF tables, triggers
    <3> QED
      BY <2>0, <3>1, <3>2, TradesPendingStep
  <2>5. ASSUME NEW p \in Portfolios, NEW i \in Timers, LoadPositions(p, i)
        PROVE  TradesPending(q)'
    <3>1. WillReport(timer'[p][i], book[p])
      BY <2>5, LoadPositionsStep DEF WillReport, TypeOK
    <3>2. OthersStay(p, i) /\ UNCHANGED <<book, tradeDue, rows>>
      BY <2>5, LoadPositionsStep DEF tables, triggers
    <3> QED
      BY <2>0, <3>1, <3>2, TradesPendingStep
  <2>6. ASSUME NEW p \in Portfolios, NEW i \in Timers, LoadPrices(p, i)
        PROVE  TradesPending(q)'
    <3>1. WillReport(timer[p][i], book[p]) => WillReport(timer'[p][i], book[p])
      BY <2>6, LoadPricesStep DEF WillReport
    <3>2. OthersStay(p, i) /\ UNCHANGED <<book, tradeDue, rows>>
      BY <2>6, LoadPricesStep DEF tables, triggers
    <3> QED
      BY <2>0, <3>1, <3>2, TradesPendingStep
  <2>7. ASSUME NEW p \in Portfolios, NEW i \in Timers, LoadCursor(p, i)
        PROVE  TradesPending(q)'
    <3>1. OthersStay(p, i) /\ UNCHANGED <<book, tradeDue, rows>>
      BY <2>7, LoadCursorStep DEF tables, triggers
    <3>2. CASE cursor[p] # 0
      <4>1. WillReport(timer[p][i], book[p]) => WillReport(timer'[p][i], book[p])
        BY <2>7, <3>2, LoadCursorStep DEF WillReport
      <4> QED
        BY <2>0, <3>1, <4>1, TradesPendingStep
    <3>3. CASE cursor[p] = 0
      <4>1. book[p] = 0
        BY <3>3 DEF BookHasCursor, TypeOK
      <4>2. q # p => TradesPending(q)'
        BY <2>0, <3>1, TradesPendingStep
      <4> QED
        BY <3>1, <4>1, <4>2 DEF TradesPending
    <3> QED
      BY <3>2, <3>3
  <2>8. ASSUME NEW p \in Portfolios, NEW i \in Timers, InsertRow(p, i)
        PROVE  TradesPending(q)'
    <3>1. WillReport(timer[p][i], book[p])
            => \E r \in rows' : r.portfolio = p /\ r.read >= book[p]
      <4> DEFINE new == [portfolio |-> p, asOf |-> timer[p][i].asOf,
                         read |-> timer[p][i].read, marks |-> timer[p][i].marks]
      <4>1. timer[p][i].phase = "insert" /\ new \in rows'
        BY <2>8, InsertRowStep
      <4>2. WillReport(timer[p][i], book[p]) => new.portfolio = p /\ new.read >= book[p]
        BY <4>1 DEF WillReport
      <4> QED
        BY <4>1, <4>2
    <3>2. OthersStay(p, i) /\ UNCHANGED <<book, tradeDue>> /\ rows \subseteq rows'
      BY <2>8, InsertRowStep DEF tables, triggers
    <3> QED
      BY <2>0, <3>1, <3>2, TradesPendingStep
  <2>9. ASSUME NEW p \in Portfolios, NEW i \in Timers, DeleteEntry(p, i)
        PROVE  TradesPending(q)'
    <3>1. ~WillReport(timer[p][i], book[p])
      BY <2>9 DEF DeleteEntry, WillReport
    <3>2. OthersStay(p, i) /\ UNCHANGED <<book, tradeDue, rows>>
      BY <2>9, FreshStep DEF tables, triggers
    <3> QED
      BY <2>0, <3>1, <3>2, TradesPendingStep
  <2>10. ASSUME NEW p \in Portfolios, NEW i \in Timers, RecomputeFails(p, i)
         PROVE  TradesPending(q)'
    BY <2>0, <2>10 DEF RecomputeFails
  <2>11. ASSUME NEW batch \in SUBSET Symbols \ {{}}, CommitPrices(batch)
         PROVE  TradesPending(q)'
    BY <2>0, <2>11 DEF CommitPrices, scheduler, TradesPending, WillReport
  <2>12. ASSUME ListHolders PROVE TradesPending(q)'
    BY <2>0, <2>12 DEF ListHolders, tables, scheduler, TradesPending, WillReport
  <2>13. ~Shutdown /\ ~Exit
    BY <2>0 DEF Shutdown, Exit
  <2>14. CASE UNCHANGED vars
    BY <2>0, <2>14 DEF vars, TradesPending, WillReport
  <2> QED
    BY <2>1, <2>2, <2>3, <2>4, <2>5, <2>6, <2>7, <2>8, <2>9, <2>10, <2>11, <2>12,
       <2>13, <2>14 DEF Next, Callback
<1> QED
  BY <1>1, <1>2, <1>3 DEF TradesArePending

\* While nothing has failed, no committed batch of trades is forgotten by the
\* scheduler, for any number of timers and any burst of triggers.
THEOREM NoTradeIsForgotten == Spec => []TradesArePending
<1>1. Init => TradesInv
  <2> SUFFICES ASSUME Init PROVE TradesInv
    OBVIOUS
  <2> QED
    BY TypeInit DEF Init, TradesInv, BookHasCursor, TradesArePending, TradesPending
<1>2. TradesInv /\ [Next]_vars => TradesInv'
  BY TradesNext, BoundsAssumption
<1>3. TradesInv => TradesArePending
  BY DEF TradesInv
<1> QED
  BY <1>1, <1>2, <1>3, PTL DEF Spec

-----------------------------------------------------------------------------
(* No price of a held symbol is forgotten.                                 *)

\* The workers' context lives as long as nothing has gone wrong; one price batch
\* is under way at a time; who holds a symbol has a cursor to report under.
TriggersAreInTurn ==
  /\ disrupted = 0 => running
  /\ priceDue # {} => holders = {}
  /\ \A p \in Portfolios : held[p] # {} => cursor[p] > 0

PricesInv == TypeOK /\ TriggersAreInTurn /\ PricesArePending

LEMMA TriggersNext ==
  ASSUME TypeOK, TriggersAreInTurn, [Next]_vars
  PROVE  TriggersAreInTurn'
<1> USE DEF TriggersAreInTurn
<1>1. disrupted \in Nat /\ (disrupted' = 0 => disrupted = 0 /\ \A kind : ~Disrupt(kind))
  BY NothingWrong DEF TypeOK
<1>2. ASSUME NEW p \in Portfolios, NEW n \in 1 .. MaxEvents, CommitTrades(p, n)
      PROVE  TriggersAreInTurn'
  BY <1>1, <1>2 DEF CommitTrades, TypeOK
<1>3. ASSUME NEW p \in Portfolios, NEW n \in 1 .. MaxEvents,
             CommitTradesFails(p, n) \/ CommitDeadLetter(p, n)
      PROVE  TriggersAreInTurn'
  BY <1>1, <1>3 DEF CommitTradesFails, CommitDeadLetter, tables, triggers, TypeOK
<1>4. ASSUME NEW p \in Portfolios, ScheduleAfterTrades(p) \/ ScheduleHolder(p)
      PROVE  TriggersAreInTurn'
  BY <1>1, <1>4 DEF ScheduleAfterTrades, ScheduleHolder, tables
<1>5. ASSUME NEW p \in Portfolios, NEW i \in Timers,
             Fire(p, i) \/ Callback(p, i) \/ RecomputeFails(p, i)
      PROVE  TriggersAreInTurn'
  BY <1>1, <1>5 DEF Fire, Callback, LoadPositions, LoadPrices, LoadCursor, InsertRow,
                    DeleteEntry, RecomputeFails, Moves, tables, triggers
<1>6. ASSUME NEW batch \in SUBSET Symbols \ {{}}, CommitPrices(batch)
      PROVE  TriggersAreInTurn'
  BY <1>1, <1>6 DEF CommitPrices
<1>7. ASSUME ListHolders PROVE TriggersAreInTurn'
  BY <1>1, <1>7 DEF ListHolders, tables
<1>8. ASSUME Shutdown PROVE TriggersAreInTurn'
  <2>1. disrupted' # 0 /\ UNCHANGED <<priceDue, holders, held, cursor>>
    BY <1>1, <1>8 DEF Shutdown, tables, triggers
  <2> QED
    BY <2>1
<1>9. ASSUME Exit PROVE TriggersAreInTurn'
  BY <1>9 DEF Exit, tables
<1>10. CASE UNCHANGED vars
  BY <1>10 DEF vars
<1> QED
  BY <1>2, <1>3, <1>4, <1>5, <1>6, <1>7, <1>8, <1>9, <1>10 DEF Next

\* A step of one timer keeps a price pending when the timer keeps its word.
LEMMA PricePendingStep ==
  ASSUME NEW p \in Portfolios, NEW i \in Timers, NEW q \in Portfolios, NEW s \in Symbols,
         PricePending(q, s), OthersStay(p, i),
         UNCHANGED <<price, tradeDue, priceDue, holders>>, rows \subseteq rows',
         q = p /\ WillMark(timer[p][i], s)
           => \/ WillMark(timer'[p][i], s)
              \/ \E r \in rows' : r.portfolio = p /\ r.marks[s] = price[s]
  PROVE  PricePending(q, s)'
<1>1. CASE price[s] = 0 \/ q \in tradeDue \cup holders \/ s \in priceDue
  BY <1>1 DEF PricePending
<1>2. CASE \E r \in rows : r.portfolio = q /\ r.marks[s] = price[s]
  BY <1>2 DEF PricePending
<1>3. ASSUME NEW j \in Timers, WillMark(timer[q][j], s)
      PROVE  PricePending(q, s)'
  <2>1. CASE q = p /\ j = i
    BY <1>3, <2>1 DEF PricePending, WillMark
  <2>2. CASE q # p \/ j # i
    <3>1. timer'[q][j] = timer[q][j]
      BY <2>2 DEF OthersStay
    <3> QED
      BY <1>3, <3>1 DEF PricePending, WillMark
  <2> QED
    BY <2>1, <2>2
<1> QED
  BY <1>1, <1>2, <1>3 DEF PricePending

LEMMA PricesNext == BoundsAssumption /\ PricesInv /\ [Next]_vars => PricesInv'
<1> SUFFICES ASSUME BoundsAssumption, PricesInv, [Next]_vars PROVE PricesInv'
  OBVIOUS
<1> USE DEF PricesInv
<1>1. TypeOK' /\ TriggersAreInTurn'
  BY TypeNext, TriggersNext
<1>2. ASSUME disrupted' = 0, NEW q \in Portfolios, NEW s \in held'[q]
      PROVE  PricePending(q, s)'
  <2>0. /\ running /\ \A kind : ~Disrupt(kind)
        /\ s \in held[q] => PricePending(q, s)
        /\ s \in Symbols
    BY <1>1, <1>2, NothingWrong DEF PricesArePending, TriggersAreInTurn, TypeOK
  <2>1. ASSUME NEW p \in Portfolios, NEW n \in 1 .. MaxEvents, CommitTrades(p, n)
        PROVE  PricePending(q, s)'
    <3>1. /\ p \in tradeDue' /\ tradeDue \subseteq tradeDue'
          /\ UNCHANGED <<price, rows, timer, priceDue, holders>>
      BY <2>0, <2>1 DEF CommitTrades, scheduler
    <3>2. q # p => held'[q] = held[q]
      BY <2>1 DEF CommitTrades, TypeOK
    <3> QED
      BY <1>2, <2>0, <3>1, <3>2 DEF PricePending, WillMark
  <2>2. ASSUME NEW p \in Portfolios, NEW n \in 1 .. MaxEvents,
               CommitTradesFails(p, n) \/ CommitDeadLetter(p, n)
        PROVE  PricePending(q, s)'
    BY <1>2, <2>0, <2>2 DEF CommitTradesFails, CommitDeadLetter, tables, PricePending, WillMark, triggers, scheduler
  <2>3. ASSUME NEW p \in Portfolios, ScheduleAfterTrades(p) \/ ScheduleHolder(p)
        PROVE  PricePending(q, s)'
    <3>1. /\ Schedule(p)
          /\ UNCHANGED <<held, price, rows, priceDue>>
          /\ (tradeDue \cup holders) \ {p} \subseteq tradeDue' \cup holders'
      BY <2>3 DEF ScheduleAfterTrades, ScheduleHolder, tables
    <3>2. CASE q = p
      BY <3>1, <3>2, ScheduleStep DEF PricePending, WillMark
    <3>3. CASE q # p
      BY <1>2, <2>0, <3>1, <3>3, ScheduleStep DEF PricePending, WillMark
    <3> QED
      BY <3>2, <3>3
  <2>4. ASSUME NEW p \in Portfolios, NEW i \in Timers, Fire(p, i)
        PROVE  PricePending(q, s)'
    <3>1. WillMark(timer'[p][i], s)
      BY <2>4 DEF Fire, Moves, TypeOK, Fresh, WillMark
    <3>2. OthersStay(p, i) /\ UNCHANGED <<held, price, tradeDue, priceDue, holders, rows>>
      BY <2>4, FreshStep DEF tables, triggers
    <3> QED
      BY <1>2, <2>0, <3>1, <3>2, PricePendingStep
  <2>5. ASSUME NEW p \in Portfolios, NEW i \in Timers, LoadPositions(p, i)
        PROVE  PricePending(q, s)'
    <3>1. OthersStay(p, i) /\ UNCHANGED <<held, price, tradeDue, priceDue, holders, rows>>
      BY <2>5, LoadPositionsStep DEF tables, triggers
    <3>2. PICK u : u = timer'[p][i]
      OBVIOUS
    <3>3. /\ u.open = held[p]
          /\ u.phase = IF held[p] = {} THEN "cursor" ELSE "prices"
      BY <2>5, <3>2, LoadPositionsStep
    <3>4. q = p => s \in held[p]
      BY <1>2, <3>1
    <3>5. q = p => WillMark(u, s)
      BY <3>3, <3>4 DEF WillMark
    <3> QED
      BY <1>2, <2>0, <3>1, <3>2, <3>5, PricePendingStep
  <2>6. ASSUME NEW p \in Portfolios, NEW i \in Timers, LoadPrices(p, i)
        PROVE  PricePending(q, s)'
    <3>1. OthersStay(p, i) /\ UNCHANGED <<held, price, tradeDue, priceDue, holders, rows>>
      BY <2>6, LoadPricesStep DEF tables, triggers
    <3>2. PICK t, u : t = timer[p][i] /\ u = timer'[p][i]
      OBVIOUS
    <3>3. /\ t.phase = "prices" /\ u.phase = "cursor"
          /\ u.marks = [x \in Symbols |-> IF x \in t.open THEN price[x] ELSE 0]
      BY <2>6, <3>2, LoadPricesStep
    <3>4. s \in Symbols
      BY <2>0
    <3>5. WillMark(t, s) => s \in t.open
      BY <3>3 DEF WillMark
    <3>6. s \in t.open => WillMark(u, s)
      BY <3>3, <3>4 DEF WillMark
    <3>7. WillMark(timer[p][i], s) => WillMark(timer'[p][i], s)
      BY <3>2, <3>5, <3>6
    <3> QED
      BY <1>2, <2>0, <3>1, <3>7, PricePendingStep
  <2>7. ASSUME NEW p \in Portfolios, NEW i \in Timers, LoadCursor(p, i)
        PROVE  PricePending(q, s)'
    <3>1. OthersStay(p, i) /\ UNCHANGED <<held, price, tradeDue, priceDue, holders, rows>>
      BY <2>7, LoadCursorStep DEF tables, triggers
    <3>2. q = p => cursor[p] # 0
      BY <1>2, <3>1 DEF TriggersAreInTurn, TypeOK
    <3>3. PICK t, u : t = timer[p][i] /\ u = timer'[p][i]
      OBVIOUS
    <3>4. q = p => t.phase = "cursor" /\ u.phase = "insert" /\ u.marks = t.marks
      BY <2>7, <3>2, <3>3, LoadCursorStep
    <3>5. q = p /\ WillMark(t, s) => WillMark(u, s)
      BY <3>4 DEF WillMark
    <3>6. q = p /\ WillMark(timer[p][i], s) => WillMark(timer'[p][i], s)
      BY <3>3, <3>5
    <3> QED
      BY <1>2, <2>0, <3>1, <3>6, PricePendingStep
  <2>8. ASSUME NEW p \in Portfolios, NEW i \in Timers, InsertRow(p, i)
        PROVE  PricePending(q, s)'
    <3> DEFINE new == [portfolio |-> p, asOf |-> timer[p][i].asOf,
                       read |-> timer[p][i].read, marks |-> timer[p][i].marks]
    <3>0. /\ timer[p][i].phase = "insert"
          /\ rows' = rows \cup {new}
      BY <2>8, InsertRowStep
    <3>1. timer[p][i].phase = "insert" /\ new \in rows'
      BY <3>0
    <3>2. WillMark(timer[p][i], s) => new.portfolio = p /\ new.marks[s] = price[s]
      BY <3>1 DEF WillMark
    <3>3. /\ OthersStay(p, i) /\ rows \subseteq rows'
          /\ UNCHANGED <<held, price, tradeDue, priceDue, holders>>
      BY <2>8, InsertRowStep DEF tables, triggers
    <3> HIDE DEF new
    <3> QED
      BY <1>2, <2>0, <3>1, <3>2, <3>3, PricePendingStep
  <2>9. ASSUME NEW p \in Portfolios, NEW i \in Timers, DeleteEntry(p, i)
        PROVE  PricePending(q, s)'
    <3>1. ~WillMark(timer[p][i], s)
      BY <2>9 DEF DeleteEntry, WillMark
    <3>2. OthersStay(p, i) /\ UNCHANGED <<held, price, tradeDue, priceDue, holders, rows>>
      BY <2>9, FreshStep DEF tables, triggers
    <3> QED
      BY <1>2, <2>0, <3>1, <3>2, PricePendingStep
  <2>10. ASSUME NEW p \in Portfolios, NEW i \in Timers, RecomputeFails(p, i)
         PROVE  PricePending(q, s)'
    BY <2>0, <2>10 DEF RecomputeFails
  <2>11. ASSUME NEW batch \in SUBSET Symbols \ {{}}, CommitPrices(batch)
         PROVE  PricePending(q, s)'
    <3>1. /\ priceDue = {} /\ holders = {} /\ priceDue' = batch
          /\ UNCHANGED <<held, tradeDue, holders, rows, timer>>
      BY <2>0, <2>11 DEF CommitPrices, scheduler
    <3>2. s \in batch \/ price'[s] = price[s]
      BY <2>0, <2>11 DEF CommitPrices, TypeOK
    <3> QED
      BY <1>2, <2>0, <3>1, <3>2 DEF PricePending, WillMark
  <2>12. ASSUME ListHolders PROVE PricePending(q, s)'
    <3>1. /\ UNCHANGED <<held, price, rows, timer, tradeDue>>
          /\ holders = {}
          /\ holders' = {p \in Portfolios : held[p] \cap priceDue # {}}
      BY <2>0, <2>12 DEF ListHolders, tables, scheduler, TriggersAreInTurn
    <3>2. CASE s \in priceDue
      BY <1>2, <3>1, <3>2 DEF PricePending
    <3>3. CASE s \notin priceDue
      BY <1>2, <2>0, <3>1, <3>3 DEF PricePending, WillMark
    <3> QED
      BY <3>2, <3>3
  <2>13. ~Shutdown /\ ~Exit
    BY <2>0 DEF Shutdown, Exit
  <2>14. CASE UNCHANGED vars
    BY <1>2, <2>0, <2>14 DEF vars, PricePending, WillMark
  <2> QED
    BY <2>1, <2>2, <2>3, <2>4, <2>5, <2>6, <2>7, <2>8, <2>9, <2>10, <2>11, <2>12,
       <2>13, <2>14 DEF Next, Callback
<1> QED
  BY <1>1, <1>2 DEF PricesArePending

\* While nothing has failed, no price of a held symbol is forgotten, whatever the
\* order of purchases, price batches and listings of holders.
THEOREM NoPriceIsForgotten == Spec => []PricesArePending
<1>1. Init => PricesInv
  <2> SUFFICES ASSUME Init PROVE PricesInv
    OBVIOUS
  <2> QED
    BY TypeInit DEF Init, PricesInv, TriggersAreInTurn, PricesArePending
<1>2. PricesInv /\ [Next]_vars => PricesInv'
  BY PricesNext, BoundsAssumption
<1>3. PricesInv => PricesArePending
  BY DEF PricesInv
<1> QED
  BY <1>1, <1>2, <1>3, PTL DEF Spec
=============================================================================
