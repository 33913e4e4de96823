----------------------------- MODULE EventStore -----------------------------
(***************************************************************************)
(* The archive's in-memory store (apps/indexer/src/store.js) as pure       *)
(* operators on a store value [events, ranges, latestLedger].              *)
(*                                                                         *)
(* An event is a record [ledger, tx, op, index, kind, who]: the RPC        *)
(* coordinates of one emission, its family, and its participants.  The     *)
(* store orders, pages and recognises events by cursor, and the cursor     *)
(* leaves the transaction out.                                             *)
(***************************************************************************)
EXTENDS Integers, SequencesExt

NoCursor == << >>
NoEvent  == [kind |-> "none"]

EmptyStore == [events |-> << >>, ranges |-> << >>, latestLedger |-> 0]

CursorOf(ev) == <<ev.ledger, ev.op, ev.index>>

\* compareEvents(a, b) < 0, on cursors.
CursorLess(c, d) ==
  \E i \in 1 .. 3 : c[i] < d[i] /\ \A j \in 1 .. i - 1 : c[j] = d[j]

\* Mutant: a page starts with the event the last one ended with.
AtOrAfterCursor(ev, cursor) ==
  cursor = NoCursor \/ ~ CursorLess(CursorOf(ev), cursor)

AfterCursor(ev, cursor) ==
  cursor = NoCursor \/ CursorLess(cursor, CursorOf(ev))

\* The elements of s that are in T, in their order.
Keep(s, T) ==
  LET kept[n \in 0 .. Len(s)] ==
        IF n = 0 THEN << >>
        ELSE IF s[n] \in T THEN Append(kept[n - 1], s[n]) ELSE kept[n - 1]
  IN  kept[Len(s)]

\* One step of a stable sort: x goes in front of the first of the places of s whose
\* elements come later than x, or behind everything.
InsertBefore(s, x, later) == InsertAt(s, Min(later \cup {Len(s) + 1}), x)

InsertEvent(events, ev) ==
  InsertBefore(events, ev,
    {i \in DOMAIN events : CursorLess(CursorOf(ev), CursorOf(events[i]))})

SortedEvents(events, added) ==
  LET all      == ToSet(events) \cup ToSet(added)
      inserted == [ev \in all |-> [s \in Seq(all) |-> InsertEvent(s, ev)]]
      sorted[n \in 0 .. Len(added)] ==
        IF n = 0 THEN events ELSE inserted[added[n]][sorted[n - 1]]
  IN  sorted[Len(added)]

\* Mutants: adjacent ranges stay apart; ranges join over an unexamined ledger;
\* a joined range ends where the later one does.
JoinOverlapping(out, range) ==
  LET n == Len(out) IN
  IF n > 0 /\ range[1] <= out[n][2]
  THEN [out EXCEPT ![n][2] = Max({@, range[2]})]
  ELSE Append(out, range)

JoinOverGap(out, range) ==
  LET n == Len(out) IN
  IF n > 0 /\ range[1] <= out[n][2] + 2
  THEN [out EXCEPT ![n][2] = Max({@, range[2]})]
  ELSE Append(out, range)

JoinToLatest(out, range) ==
  LET n == Len(out) IN
  IF n > 0 /\ range[1] <= out[n][2] + 1
  THEN [out EXCEPT ![n][2] = range[2]]
  ELSE Append(out, range)

\* The body of #addRange's loop: adjacent and overlapping ranges join.
JoinRange(out, range) ==
  LET n == Len(out) IN
  IF n > 0 /\ range[1] <= out[n][2] + 1
  THEN [out EXCEPT ![n][2] = Max({@, range[2]})]
  ELSE Append(out, range)

JoinAll(ranges) ==
  LET joined[n \in 0 .. Len(ranges)] ==
        IF n = 0 THEN << >> ELSE JoinRange(joined[n - 1], ranges[n])
  IN  joined[Len(ranges)]

AddRange(ranges, from, to) ==
  IF to < from
  THEN ranges
  ELSE JoinAll(InsertBefore(ranges, <<from, to>>, {i \in DOMAIN ranges : from < ranges[i][1]}))

\* Mutant: what is read twice is stored twice.
IngestRepeats(store, events, from, to, latest) ==
  [ events       |-> SortedEvents(store.events, events),
    ranges       |-> AddRange(store.ranges, from, to),
    latestLedger |-> Max({store.latestLedger, latest}) ]

\* seen is computed once, before the batch: a batch is not deduplicated
\* against itself.
IngestBatch(store, events, from, to, latest) ==
  LET seen  == {CursorOf(ev) : ev \in ToSet(store.events)}
      fresh == Keep(events, {ev \in ToSet(events) : CursorOf(ev) \notin seen})
  IN
  [ events       |-> SortedEvents(store.events, fresh),
    ranges       |-> AddRange(store.ranges, from, to),
    latestLedger |-> Max({store.latestLedger, latest}) ]

IngestedThrough(store) == IF store.ranges = << >> THEN 0 ELSE store.ranges[1][2]
IngestedFrom(store)    == IF store.ranges = << >> THEN 0 ELSE store.ranges[1][1]

\* C3: is from..to covered by a single gap-free ingested range?
IsComplete(store, from, to) ==
  \/ to < from
  \/ \E r \in ToSet(store.ranges) : r[1] <= from /\ r[2] >= to

\* C2: one page of one account's history.  An unbounded query has no toLedger.
Unbounded == -1

\* Mutant: the lower bound is forgotten.
MatchingFromStart(store, account, from, to, cursor) ==
  {ev \in ToSet(store.events) :
     /\ account \in ev.who
     /\ to = Unbounded \/ ev.ledger <= to
     /\ AfterCursor(ev, cursor)}

Matching(store, account, from, to, cursor) ==
  {ev \in ToSet(store.events) :
     /\ account \in ev.who
     /\ ev.ledger >= from
     /\ to = Unbounded \/ ev.ledger <= to
     /\ AfterCursor(ev, cursor)}

Query(store, account, from, to, cursor, limit) ==
  LET matching == Keep(store.events, Matching(store, account, from, to, cursor))
      page     == SubSeq(matching, 1, Min({limit, Len(matching)}))
  IN
  [ events |-> page,
    cursor |-> IF Len(matching) > Len(page) /\ page # << >>
               THEN CursorOf(Last(page)) ELSE NoCursor ]

Candidates(store, account, atLedger) ==
  Keep(store.events,
    {ev \in ToSet(store.events) :
       account \in ev.who /\ ev.kind = "merge" /\ ev.ledger <= atLedger})

\* Mutant: the earliest one.
FirstCheckpoint(store, account, atLedger) ==
  LET candidates == Candidates(store, account, atLedger)
  IN IF candidates = << >> THEN NoEvent ELSE Head(candidates)

\* C1: the latest checkpoint at or before a ledger.
Checkpoint(store, account, atLedger) ==
  LET candidates == Candidates(store, account, atLedger)
  IN IF candidates = << >> THEN NoEvent ELSE Last(candidates)
=============================================================================
