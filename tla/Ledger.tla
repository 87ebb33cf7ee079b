------------------------------- MODULE Ledger -------------------------------
(***************************************************************************)
(* What the apply path of a portfolio promises: an event-sourced ledger.   *)
(* Events are recorded; now and then a run of them is settled, each        *)
(* exactly once and in key order, either applied to the book or refused;   *)
(* and the book is the replay of what was applied, so restarts, retries    *)
(* and snapshots are invisible.  What is promised depends on what the      *)
(* columns keep: every share of the symbols that are traded in quantities  *)
(* a column can hold, and every field where all columns keep all digits.   *)
(***************************************************************************)
EXTENDS EventLog, Positions, Sequences

CONSTANT Requests  \* The events that may be recorded.

VARIABLES
  log,      \* The events recorded.
  journal,  \* The events settled, each with its verdict.
  book      \* The positions.

ledger == <<log, journal, book>>

\* The symbols whose trades the quantity column holds to the last digit.
Exact ==
  {s \in Symbols : \A e \in Requests : e.sym = s => RoundTo(e.qty, QtyUnit) = e.qty}

\* One entry of the journal replayed; of other symbols no book is kept.
ReplayEntry(lots, entry) ==
  IF entry.verdict = "APPLIED" /\ entry.event.sym \in Exact
  THEN ApplyTrade(lots, entry.event) ELSE lots

\* The lots after each number of entries.
After(lots, entries) ==
  LET after[n \in 0 .. Len(entries)] ==
        IF n = 0 THEN lots ELSE ReplayEntry(after[n - 1], entries[n])
  IN  after

Replay(lots, entries) == After(lots, entries)[Len(entries)]

\* Lots that went through rows or snapshots stand for those replayed in memory.
StandsFor(stored, lots) ==
  /\ \A s \in Exact : stored[s].qty = lots[s].qty
  /\ QtyUnit = 1 /\ CostUnit = 1 /\ ResultUnit = 1 => stored = lots

\* A sell is refused exactly when the book at its turn does not cover it.  Only
\* the age limit, which the ledger leaves open, may refuse any other event.
Justified(lots, entry) ==
  \/ entry.verdict = "EVENT_TOO_STALE"
  \/ entry.event.sym \notin Exact
  \/ entry.verdict = IF Underflows(lots, entry.event)
                     THEN "POSITION_UNDERFLOW" ELSE "APPLIED"

Init ==
  /\ log = {}
  /\ journal = <<>>
  /\ book = NoPositions

Record ==
  /\ \E e \in log' \ log : log' = AppendEvent(log, e)
  /\ log' # log
  /\ UNCHANGED <<journal, book>>

Settle ==
  LET old == Len(journal)
      run == SubSeq(journal', old + 1, Len(journal'))
  IN  /\ Len(journal') > old
      /\ SubSeq(journal', 1, old) = journal
      /\ \A i \in DOMAIN run : run[i].event \in log
      /\ \A i \in 2 .. Len(journal') :
           Before(Key(journal'[i - 1].event), Key(journal'[i].event))
      /\ \A i \in DOMAIN run :
           Justified(Replay(book, SubSeq(run, 1, i - 1)), run[i])
      /\ StandsFor(book', Replay(book, run))
      /\ UNCHANGED log

Next == Record \/ Settle

Spec == Init /\ [][Next]_ledger
=============================================================================
