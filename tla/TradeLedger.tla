---------------------------- MODULE TradeLedger ----------------------------
(***************************************************************************)
(* The trade apply path against the ledger it promises to be: the          *)
(* refinement mapping and the properties that compare stored state with a  *)
(* replay of the log.  Kept apart from TradeApply, which is the code alone.*)
(***************************************************************************)
EXTENDS TradeApply

\* Committed entries are the journal, projection rows are the book.
Promise == INSTANCE Ledger WITH journal <- settled, book <- positions

\* The database is an event-sourced ledger: every transaction of the worker is
\* a run of settled events whose effect is their replay in key order, whatever
\* batches, snapshots, crashes and failed calls lie in between ("Live state
\* equals replayed state for same ordered event set", "Idempotent processing").
ImplementsLedger == Promise!Spec

\* A snapshot is the replay of the log up to its as_of cursor, so a restart
\* from it is a restart from that point of the log.
SnapshotsAreReplays ==
  \A s \in snapshots : \E n \in DOMAIN settled :
    /\ s.asOf = Key(settled[n].event)
    /\ Promise!StandsFor(s.lots, Promise!Replay(NoPositions, SubSeq(settled, 1, n)))

\* Over the whole history no share is lost or created, whatever was rounded on
\* the way of averages, of results and of the quantities of other symbols.  Of a
\* symbol traded in finer quantities than the column's (validation asks no more
\* than that they are positive) a restart forgets the last digits.
SharesAreReplayed ==
  LET replayed == Promise!Replay(NoPositions, settled)
  IN  \A s \in Promise!Exact : positions[s].qty = replayed[s].qty

-----------------------------------------------------------------------------
(* Liveness.                                                               *)

Settled(e) == e \in SettledEvents

\* Nothing waits forever: an event that was not overtaken on arrival is applied
\* or dead-lettered (the watermark must not strand the newest events, and no
\* failure may leave the partition stuck).
EventuallySettled ==
  \A e \in Requests : e \in log \ overtaken ~> Settled(e)

-----------------------------------------------------------------------------
(* Documented promises the code does not keep.                             *)

\* "Out-of-order beyond W: either reject to dead-letter with reason, or apply
\* with explicit correction event (no silent wrong state)": an event behind the
\* cursor has been applied or dead-lettered.
NoSilentDrop ==
  \A e \in log : Before(dbCur, Key(e)) \/ Settled(e)
=============================================================================
