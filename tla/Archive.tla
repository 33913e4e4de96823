------------------------------- MODULE Archive -------------------------------
(***************************************************************************)
(* An archive (apps/indexer) that fills its store by polling a Soroban RPC *)
(* which forgets old ledgers: ingest.js's paged scan, server.js's polling  *)
(* loop whose passes may overlap, RPC errors, and process restarts that    *)
(* empty the store.                                                        *)
(*                                                                         *)
(* A block is a sequence of [tx, op, index, kind, who].                    *)
(***************************************************************************)
EXTENDS EventStore, Rpc

CONSTANTS
  Accounts,      \* the accounts whose history is asked for
  Passes,        \* identities of polls that may be in flight together
  FromLedger,    \* FROM_LEDGER, where a fresh archive starts
  MaxScanCalls,  \* MAX_SCAN_CALLS (500 in the code)
  MaxErrors,     \* bound: RPC calls that fail on their own
  MaxRestarts    \* bound: times the process restarts

ASSUME ArchiveAssumption ==
  /\ FromLedger \in Nat
  /\ MaxScanCalls \in Nat \ {0}
  /\ {MaxErrors, MaxRestarts} \subseteq Nat

Kind == {"register", "deposit", "merge", "withdraw", "transfer"}

\* What a ledger carries names its participants among Accounts.
ASSUME ParticipantsAssumption ==
  \A block \in Blocks : \A emission \in ToSet(block) :
    /\ {"kind", "who"} \subseteq DOMAIN emission
    /\ emission.kind \in Kind /\ emission.who \in SUBSET Accounts

VARIABLES
  store,     \* the MemoryStore
  pass,      \* pass[p]: a poll in flight, or Idle
  errors,    \* RPC failures so far
  restarts,  \* process restarts so far
  cut        \* history: events a pass claimed to have examined but never read

serviceVars == <<store, pass>>
vars        == <<rpcVars, serviceVars, errors, restarts, cut>>

-----------------------------------------------------------------------------
Idle == [phase |-> "idle"]

Init ==
  /\ RpcInit
  /\ store = EmptyStore
  /\ pass = [p \in Passes |-> Idle]
  /\ errors = 0
  /\ restarts = 0
  /\ cut = {}

-----------------------------------------------------------------------------
(* A pass of ingestFromRpc. *)

\* poll and the part of ingestFromRpc before its loop, up to getHealth's answer.
\* setInterval starts a poll whether or not the last one has finished.
StartPass(p) ==
  /\ pass[p] = Idle
  /\ LET through == IngestedThrough(store)
         from    == IF through # 0 THEN through + 1 ELSE FromLedger
     IN pass' = [pass EXCEPT ![p] = [phase |-> "health", from |-> from]]
  /\ UNCHANGED <<rpcVars, store, errors, restarts, cut>>

\* Mutant: the start is not raised to what the RPC serves.
HealthUnclamped(p) ==
  /\ pass[p].phase = "health"
  /\ LET start == pass[p].from
         scan  == [ phase |-> "scan", start |-> start, head |-> head, calls |-> 0,
                    cursor |-> NoRpcCursor, collected |-> << >> ]
     IN pass' = [pass EXCEPT ![p] = IF start > head THEN Idle ELSE scan]
  /\ UNCHANGED <<rpcVars, store, errors, restarts, cut>>

\* getHealth answered.  The scan starts no lower than the RPC serves, and a
\* start above the head leaves nothing to do.
Health(p) ==
  /\ pass[p].phase = "health"
  /\ LET start == Max({pass[p].from, oldest})
         scan  == [ phase |-> "scan", start |-> start, head |-> head, calls |-> 0,
                    cursor |-> NoRpcCursor, collected |-> << >> ]
     IN pass' = [pass EXCEPT ![p] = IF start > head THEN Idle ELSE scan]
  /\ UNCHANGED <<rpcVars, store, errors, restarts, cut>>

\* One iteration of the loop; the three reasons to leave it.  (The RPC returns a cursor
\* with every page, so the defensive exit on a page without one is not among them.)
ScanPage(p) ==
  /\ pass[p].phase = "scan"
  /\ LET s    == pass[p]
         read == NextRead(s.start, s.cursor)
         page == GetEvents(read.ledger, read.upTo)
         done == \/ page.cursor.ledger >= page.latest
                 \/ page.cursor = s.cursor
                 \/ s.calls + 1 = MaxScanCalls
     IN
     /\ read.ledger >= oldest
     /\ pass' = [pass EXCEPT ![p] =
          [ s EXCEPT !.phase = IF done THEN "store" ELSE "scan",
                     !.calls = @ + 1,
                     !.cursor = page.cursor,
                     !.collected = @ \o page.events ]]
  /\ UNCHANGED <<rpcVars, store, errors, restarts, cut>>

\* The window has moved past the read: the RPC's error ends the poll, and
\* what the pass had collected is dropped.
ScanExpired(p) ==
  /\ pass[p].phase = "scan"
  /\ NextRead(pass[p].start, pass[p].cursor).ledger < oldest
  /\ pass' = [pass EXCEPT ![p] = Idle]
  /\ UNCHANGED <<rpcVars, store, errors, restarts, cut>>

\* The loop is over: whatever ended it, start..head is claimed as examined.
FinishPass(p) ==
  /\ pass[p].phase = "store"
  /\ LET s == pass[p] IN
     /\ store' = IngestBatch(store, s.collected, s.start, s.head, s.head)
     /\ cut' = cut \cup
          {ev \in ToSet(chain) :
             ev.ledger \in s.start .. s.head /\ ev \notin ToSet(s.collected)}
  /\ pass' = [pass EXCEPT ![p] = Idle]
  /\ UNCHANGED <<rpcVars, errors, restarts>>

\* getHealth or getEvents fails: poll catches, logs and waits for its next turn.
RpcError(p) ==
  /\ errors < MaxErrors
  /\ pass[p].phase \in {"health", "scan"}
  /\ errors' = errors + 1
  /\ pass' = [pass EXCEPT ![p] = Idle]
  /\ UNCHANGED <<rpcVars, store, restarts, cut>>

\* Nothing is persisted: a restarted process has an empty store.
Restart ==
  /\ restarts < MaxRestarts
  /\ restarts' = restarts + 1
  /\ store' = EmptyStore
  /\ pass' = [p \in Passes |-> Idle]
  /\ UNCHANGED <<rpcVars, errors, cut>>

PassStep(p) ==
  StartPass(p) \/ Health(p) \/ ScanPage(p) \/ ScanExpired(p) \/ FinishPass(p)

Next ==
  \/ (CloseLedger \/ Expire) /\ UNCHANGED <<serviceVars, errors, restarts, cut>>
  \/ Restart
  \/ \E p \in Passes : PassStep(p) \/ RpcError(p)

\* setInterval keeps polling and every awaited RPC call is answered.
Spec == Init /\ [][Next]_vars /\ \A p \in Passes : WF_vars(PassStep(p))

-----------------------------------------------------------------------------
(* Properties. *)

Event == [ ledger : 1 .. MaxHead, tx : Nat, op : Nat, index : Nat,
           kind : Kind, who : SUBSET Accounts ]

\* Type invariant: a pass holds what its phase needs and stays in its bounds.
TypeOK ==
  /\ ToSet(chain) \subseteq Event
  /\ 1 <= oldest /\ oldest <= head /\ head <= MaxHead
  /\ ToSet(store.events) \subseteq ToSet(chain)
  /\ \A r \in ToSet(store.ranges) : r \in (1 .. head) \X (1 .. head) /\ r[1] <= r[2]
  /\ store.latestLedger \in 0 .. head
  /\ \A p \in Passes :
       /\ pass[p].phase \in {"idle", "health", "scan", "store"}
       /\ pass[p].phase \in {"scan", "store"} =>
            /\ 1 <= pass[p].start /\ pass[p].start <= pass[p].head /\ pass[p].head <= head
            /\ pass[p].calls <= MaxScanCalls
            /\ ToSet(pass[p].collected) \subseteq ToSet(chain)
  /\ errors <= MaxErrors /\ restarts <= MaxRestarts
  /\ cut \subseteq ToSet(chain)

Claimed(s) == UNION {r[1] .. r[2] : r \in ToSet(s.ranges)}

\* Another event the store cannot tell from this one.
Shadowed(ev, events) == \E f \in events \ {ev} : CursorOf(f) = CursorOf(ev)

\* The ranges are kept merged and sorted (the field's comment), so C3 can look
\* for a single one: two of them always have an unexamined ledger in between.
RangesCanonical ==
  \A i \in 1 .. Len(store.ranges) - 1 :
    store.ranges[i][2] + 1 < store.ranges[i + 1][1]

\* C3, as far as the code keeps it: an event in a range the archive vouches for
\* is held, unless the pass that claimed the range was cut short before it, or
\* it shares its cursor with an event that is held.  Overlapping polls,
\* retention gaps, failed passes and restarts lose nothing else.
CompleteUnlessCut ==
  \A ev \in ToSet(chain) :
    ev.ledger \in Claimed(store) =>
      \/ ev \in ToSet(store.events) \cup cut
      \/ Shadowed(ev, ToSet(store.events))

\* C3 as it is advertised: no gap in what is called complete.
CompleteMeansHeld ==
  \A ev \in ToSet(chain) :
    ev.ledger \in Claimed(store) => ev \in ToSet(store.events)

\* Served order is apply order, each event once, across ledgers and within a
\* transaction, however passes overlapped and whatever was read twice.
ServedInOrder ==
  \A i, j \in DOMAIN store.events :
    LET a == store.events[i]
        b == store.events[j]
    IN i < j => \/ Position(a) < Position(b)
                \/ a.ledger = b.ledger /\ a.tx # b.tx

\* The order a replay needs: apply order, without exception.
ServedInApplyOrder ==
  \A i, j \in DOMAIN store.events :
    i < j => Position(store.events[i]) < Position(store.events[j])

\* Short of a restart, what was held stays held and what was complete stays
\* complete: a late or smaller pass never shrinks the archive.
NeverForgets ==
  [][ \/ Restart
      \/ /\ ToSet(store.events) \subseteq ToSet(store'.events)
         /\ Claimed(store) \subseteq Claimed(store')
         /\ store.latestLedger <= store'.latestLedger ]_vars

\* A ledger the RPC serves is eventually claimed, or ages out first: errors,
\* restarts and a gap below do not stop the polling loop for good.
CatchesUp ==
  \A l \in 1 .. MaxHead :
    (oldest <= l /\ l <= head) ~> (l \in Claimed(store) \/ l < oldest)
=============================================================================
