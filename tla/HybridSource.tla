----------------------------- MODULE HybridSource -----------------------------
(***************************************************************************)
(* hybridFetchEvents (packages/sdk/src/chain/event-source.ts) over         *)
(* fetchEvents (events.ts) and the indexer client (indexer.ts): a client   *)
(* syncs again and again with the cursor the last sync returned, while     *)
(* ledgers close and the RPC forgets.  Every await is a boundary between   *)
(* actions; a sync that throws delivers nothing and keeps the cursor.      *)
(*                                                                         *)
(* A block is a sequence of [tx, op, index]: the coordinates that the      *)
(* source-independent id of an event is made of.                           *)
(***************************************************************************)
EXTENDS EventStore, Rpc

CONSTANTS
  ClientFrom,   \* opts.fromLedger, where a client without a cursor starts
  SeamMargin,   \* RPC_SEAM_MARGIN (60 in the code)
  MaxFailures   \* bound: RPC calls and backfills that fail or fall short

\* The margin is far smaller than the window the RPC keeps.
ASSUME HybridAssumption ==
  /\ {ClientFrom, MaxFailures} \subseteq Nat
  /\ SeamMargin \in Nat /\ SeamMargin < Retention

VARIABLES
  indexer,     \* is an indexer configured?
  sync,        \* the call in flight, or NoSync
  cursor,      \* the resume cursor the client kept
  delivered,   \* every event the syncs returned, in the order they were returned
  failures,    \* failures so far
  skipped      \* history: events a successful sync passed over, by reason

clientVars == <<sync, cursor, delivered, skipped>>
hybridVars == <<rpcVars, indexer, clientVars, failures>>

-----------------------------------------------------------------------------
NoSync == [phase |-> "idle"]

NothingSkipped == [backfill |-> {}, rounded |-> {}, floor |-> {}]

HybridInit ==
  /\ RpcInit
  /\ indexer \in BOOLEAN
  /\ sync = NoSync
  /\ cursor = NoRpcCursor
  /\ delivered = << >>
  /\ failures = 0
  /\ skipped = NothingSkipped

EventsBetween(first, last) == {ev \in ToSet(chain) : ev.ledger \in first .. last}

\* The rest of the ledger a cursor stands in.
BeyondCursor(c) ==
  {chain[i] : i \in {j \in c.upTo + 1 .. Len(chain) : chain[j].ledger = c.ledger}}

-----------------------------------------------------------------------------
\* Mutant: the cursor's ledger is asked for again.
CursorsOwnLedger == IF cursor = NoRpcCursor THEN ClientFrom ELSE cursor.ledger

\* The first ledger still needed; a cursor's own ledger counts as consumed.
NextNeeded == IF cursor = NoRpcCursor THEN ClientFrom ELSE cursor.ledger + 1

\* Mutant: a warm resume never asks for the floor.
FloorNeededCold == cursor = NoRpcCursor

\* The retention floor decides the seam or clamps a cold start.
FloorNeeded == indexer \/ cursor = NoRpcCursor

\* The paged read of fetchEvents, from a ledger or a cursor.
Read(start, from, old, passedOver) ==
  [ phase |-> "read", start |-> start, cursor |-> from, old |-> old,
    recent |-> << >>, skips |-> passedOver ]

\* What follows once rpcOldest is known (0: it is not): backfill up to a seam above
\* the floor, resume from the cursor, or start cold just inside the floor.
Plan(rpcOldest) ==
  LET first == Max({ClientFrom, IF rpcOldest > 0 THEN rpcOldest + 1 ELSE ClientFrom})
  IN
  CASE indexer /\ rpcOldest > 0 /\ NextNeeded < rpcOldest ->
         [phase |-> "backfill", seam |-> rpcOldest + SeamMargin]
    [] cursor # NoRpcCursor /\ ~ (indexer /\ rpcOldest > 0 /\ NextNeeded < rpcOldest) ->
         Read(0, cursor, << >>, NothingSkipped)
    [] OTHER ->
         Read(first, NoRpcCursor, << >>,
              [NothingSkipped EXCEPT !.floor = EventsBetween(ClientFrom, first - 1)])

\* hybridFetchEvents up to its first await.
StartSync ==
  /\ sync = NoSync
  /\ sync' = IF FloorNeeded THEN [phase |-> "health"] ELSE Plan(0)
  /\ UNCHANGED <<rpcVars, indexer, cursor, delivered, failures, skipped>>

HealthAnswers ==
  /\ sync.phase = "health"
  /\ sync' = Plan(oldest)
  /\ UNCHANGED <<rpcVars, indexer, cursor, delivered, failures, skipped>>

\* getHealth throws, or does not say what it retains.
HealthFails ==
  /\ sync.phase = "health"
  /\ failures < MaxFailures
  /\ failures' = failures + 1
  /\ sync' = Plan(0)
  /\ UNCHANGED <<rpcVars, indexer, cursor, delivered, skipped>>

\* Mutant: the indexer is asked for no more than what lies below the floor.
BackfillEndAtFloor(seam) == seam - SeamMargin - 1

\* Last ledger asked of the indexer.
BackfillEnd(seam) == seam - 1

\* The RPC leg after a backfill that answered through a ledger; the cursor, if
\* there was one, is discarded.
ReadFromSeam(through) ==
  Read(sync.seam, NoRpcCursor,
       Keep(chain, EventsBetween(NextNeeded, through)),
       [ backfill |-> EventsBetween(Max({NextNeeded, through + 1}), BackfillEnd(sync.seam)),
         rounded  |-> BeyondCursor(cursor),
         floor    |-> {} ])

\* The indexer has everything below the seam.
Backfill ==
  /\ sync.phase = "backfill"
  /\ sync' = ReadFromSeam(BackfillEnd(sync.seam))
  /\ UNCHANGED <<rpcVars, indexer, cursor, delivered, failures, skipped>>

\* The indexer lags behind the seam, or the call throws, which is caught and
\* logged: the sync goes on with what it got, or with nothing.
BackfillFallsShort ==
  /\ sync.phase = "backfill"
  /\ failures < MaxFailures
  /\ failures' = failures + 1
  /\ \E through \in NextNeeded - 1 .. BackfillEnd(sync.seam) - 1 :
       sync' = ReadFromSeam(through)
  /\ UNCHANGED <<rpcVars, indexer, cursor, delivered, skipped>>

-----------------------------------------------------------------------------
(* fetchEvents. *)

NaturalEventId(ev) == <<ev.ledger, ev.tx, ev.op, ev.index>>

\* The first event of every id, stably sorted by ledger.
DedupeById(events) ==
  LET all      == ToSet(events)
      firsts   == {i \in DOMAIN events :
                     \A j \in 1 .. i - 1 : NaturalEventId(events[j]) # NaturalEventId(events[i])}
      inserted == [ev \in all |-> [s \in Seq(all) |->
                     InsertBefore(s, ev, {i \in DOMAIN s : ev.ledger < s[i].ledger})]]
      sorted[n \in 0 .. Len(events)] ==
        IF n = 0 THEN << >>
        ELSE IF n \in firsts THEN inserted[events[n]][sorted[n - 1]] ELSE sorted[n - 1]
  IN  sorted[Len(events)]

Rejected(read) == read.ledger < oldest \/ (sync.cursor = NoRpcCursor /\ read.ledger > head)

\* One page.  A cursor in the latest ledger, or no progress, ends the read: the
\* sync returns, and the client takes its events and its cursor.
ReadPage ==
  /\ sync.phase = "read"
  /\ LET read == NextRead(sync.start, sync.cursor)
         page == GetEvents(read.ledger, read.upTo)
         all  == sync.recent \o page.events
         done == page.cursor.ledger >= page.latest \/ page.cursor = sync.cursor
     IN
     /\ ~ Rejected(read)
     /\ IF done
        THEN /\ sync' = NoSync
             /\ cursor' = page.cursor
             /\ delivered' = delivered \o DedupeById(sync.old \o all)
             /\ skipped' = [why \in DOMAIN skipped |-> skipped[why] \cup sync.skips[why]]
        ELSE /\ sync' = [sync EXCEPT !.cursor = page.cursor, !.recent = all]
             /\ UNCHANGED <<cursor, delivered, skipped>>
  /\ UNCHANGED <<rpcVars, indexer, failures>>

\* The RPC rejects the read: the sync throws.
ReadRejected ==
  /\ sync.phase = "read"
  /\ Rejected(NextRead(sync.start, sync.cursor))
  /\ sync' = NoSync
  /\ UNCHANGED <<rpcVars, indexer, cursor, delivered, failures, skipped>>

\* getEvents fails for another reason: the sync throws.
ReadFails ==
  /\ sync.phase = "read"
  /\ failures < MaxFailures
  /\ failures' = failures + 1
  /\ sync' = NoSync
  /\ UNCHANGED <<rpcVars, indexer, cursor, delivered, skipped>>

SyncStep == StartSync \/ HealthAnswers \/ Backfill \/ ReadPage \/ ReadRejected

HybridNext ==
  \/ (CloseLedger \/ Expire) /\ UNCHANGED <<indexer, clientVars, failures>>
  \/ SyncStep
  \/ HealthFails \/ BackfillFallsShort \/ ReadFails

\* The client keeps syncing, and an awaited call is answered or fails.
HybridSpec == HybridInit /\ [][HybridNext]_hybridVars /\ WF_hybridVars(SyncStep)

-----------------------------------------------------------------------------
(* Properties. *)

\* Type invariant; of a sync in flight it says that the two legs are disjoint,
\* the indexer's below the seam and the RPC's from it on.
HybridTypeOK ==
  /\ ToSet(delivered) \subseteq ToSet(chain)
  /\ indexer \in BOOLEAN
  /\ cursor.ledger \in 0 .. head /\ cursor.upTo \in 0 .. Len(chain)
  /\ failures <= MaxFailures
  /\ UNION {skipped[why] : why \in DOMAIN skipped} \subseteq ToSet(chain)
  /\ sync.phase \in {"idle", "health", "backfill", "read"}
  /\ sync.phase = "backfill" => indexer /\ sync.seam <= head
  /\ sync.phase = "read" =>
       /\ \A ev \in ToSet(sync.old) : ev.ledger < sync.start
       /\ \A ev \in ToSet(sync.recent) : ev.ledger >= sync.start

\* What a replay needs of its source: over all syncs together, every event comes
\* in apply order and at most once, whatever failed, expired or was resumed.
DeliveredInOrder ==
  \A i, j \in DOMAIN delivered :
    i < j => Position(delivered[i]) < Position(delivered[j])

SkippedEvents == UNION {skipped[why] : why \in DOMAIN skipped}

\* The cursor never moves past an event that was not delivered, except for the
\* three named reasons: a backfill that fell short, a cursor rounded up to the next
\* ledger, a cold start above the floor.
NothingElseLost ==
  \A i \in 1 .. cursor.upTo :
    chain[i].ledger >= ClientFrom => chain[i] \in ToSet(delivered) \cup SkippedEvents

\* With an indexer a client always catches up: every event it wants is delivered
\* or passed over for a named reason, however long it was away.
ClientCatchesUp ==
  \A l \in ClientFrom .. MaxHead :
    (indexer /\ l <= head) ~> (EventsBetween(l, l) \subseteq ToSet(delivered) \cup SkippedEvents)

\* The same without an indexer, less what the RPC no longer serves: the code says
\* that pre-window history is then simply unavailable.
CatchesUpOnRpcAlone ==
  \A l \in ClientFrom .. MaxHead :
    (~ indexer /\ l <= head) ~>
      (l < oldest \/ EventsBetween(l, l) \subseteq ToSet(delivered) \cup SkippedEvents)

\* A failed backfill makes history unavailable "this sync": a later sync gets it.
BackfillMadeUpLater ==
  \A l \in ClientFrom .. MaxHead :
    (EventsBetween(l, l) \cap skipped.backfill # {}) ~>
      (EventsBetween(l, l) \cap skipped.backfill \subseteq ToSet(delivered))
=============================================================================
