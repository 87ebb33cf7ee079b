------------------------------ MODULE EventLog ------------------------------
(***************************************************************************)
(* The append-only events table of one partition and the reads the apply   *)
(* workers make of it: the ordering key, the page after a cursor, the      *)
(* ordering watermark and the staleness test.                              *)
(*                                                                         *)
(* A page is kept as the SET of its rows.  Every query orders by the key   *)
(* and keys are unique, so a set together with EarliestOf is the ordered   *)
(* list the code walks, and a prefix of that list is a downward closed     *)
(* subset.                                                                 *)
(***************************************************************************)
EXTENDS Integers, FiniteSets

\* The ordering key (event_time, event_id) of an event.
Key(e) == <<e.time, e.id>>

\* Cursor{}: no event has been applied yet.  Real times and ids are positive.
ZeroCursor == <<0, 0>>

IsZero(c) == c = ZeroCursor

\* CompareCursors(a, b) < 0: by time, then by id.
Before(a, b) ==
  \/ a[1] < b[1]
  \/ a[1] = b[1] /\ a[2] < b[2]

\* Mutant: the comparison with the cursor is not strict.
BeyondInclusive(log, cursor) == {e \in log : ~Before(Key(e), cursor)}

\* The rows strictly after a cursor.
Beyond(log, cursor) == {e \in log : Before(cursor, Key(e))}

\* Mutant: the page is cut from the wrong end (ORDER BY ... DESC LIMIT).
FetchNewest(log, cursor, limit) ==
  {e \in Beyond(log, cursor) :
     Cardinality({f \in Beyond(log, cursor) : Before(Key(e), Key(f))}) < limit}

\* FetchAfter: the first limit rows after the cursor, in key order.
FetchAfter(log, cursor, limit) ==
  {e \in Beyond(log, cursor) :
     Cardinality({f \in Beyond(log, cursor) : Before(Key(f), Key(e))}) < limit}

\* MaxEventTime: MAX(event_time), the zero time for an empty partition.
MaxEventTime(log) ==
  IF log = {} THEN 0
  ELSE CHOOSE t \in {e.time : e \in log} : \A e \in log : e.time <= t

\* The row the loop over an ordered batch reaches first.
EarliestOf(batch) ==
  CHOOSE e \in batch : \A f \in batch : f = e \/ Before(Key(e), Key(f))

\* eligiblePrefix: rows are in time order, so the prefix is a filter.
EligiblePrefix(batch, cutoff) == {e \in batch : e.time <= cutoff}

\* Mutant: the watermark alone, without the rule for partial pages.
EligibleStrict(batch, cutoff, watermark, limit) == EligiblePrefix(batch, cutoff)

\* eligibleBatchAfterWatermark: when nothing of a partial page has cleared the
\* watermark the whole page is taken, or the tail would wait forever.
EligibleBatchAfterWatermark(batch, cutoff, watermark, limit) ==
  IF /\ EligiblePrefix(batch, cutoff) = {}
     /\ batch # {}
     /\ Cardinality(batch) < limit
     /\ watermark > 0
  THEN batch
  ELSE EligiblePrefix(batch, cutoff)

\* eventTooStaleForApply: a maximal age of zero disables the test.
TooStaleForApply(e, now, maxAge) == maxAge > 0 /\ now - e.time > maxAge

\* Append: at most one row per idempotency key; a retry changes nothing.
AppendEvent(log, e) ==
  IF \E f \in log : f.key = e.key THEN log ELSE log \cup {e}
=============================================================================
