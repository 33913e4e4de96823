---------------------------- MODULE ArchiveReader ----------------------------
(***************************************************************************)
(* A client of the archive (IndexerV1Client.fetchEvents in                 *)
(* packages/sdk/src/chain/indexer-v1.ts against handler.js's events        *)
(* route) that pages through one account's history while the archive goes  *)
(* on ingesting, and may be restarted, between two of its requests.        *)
(***************************************************************************)
EXTENDS Archive

CONSTANT ClientLimit   \* events per page the client asks for

ASSUME ReaderAssumption == ClientLimit \in Nat \ {0}

VARIABLE reader

readerVars == <<vars, reader>>

FirstLedger == 1

NotReading == [phase |-> "idle"]

ReaderInit == Init /\ reader = NotReading

Ask(account, from, to) ==
  /\ reader = NotReading
  /\ reader' = [ phase |-> "paging", account |-> account, from |-> from, to |-> to,
                 cursor |-> NoCursor, events |-> << >>, complete |-> TRUE ]
  /\ UNCHANGED vars

\* The handler's health route: the range it names is the first one that is claimed.
ServeHealth == [from |-> IngestedFrom(store), through |-> IngestedThrough(store)]

\* verdicts.ts: health says which range the archive vouches for; ask for it.
AskVouched(account) == Ask(account, ServeHealth.from, ServeHealth.through)

\* sabotage.mjs: ask for everything from a ledger on.
AskOpenEnded(account) ==
  \E from \in 0 .. head : Ask(account, from, Unbounded)

\* The handler's events route: a page of what the store holds, and whether the
\* requested range is complete at this moment.
Serve(account, requestedFrom, to, cursor) ==
  LET from == Max({requestedFrom, FirstLedger})
      page == Query(store, account, from, to, cursor, ClientLimit)
  IN
  [ events   |-> page.events,
    cursor   |-> page.cursor,
    complete |-> IsComplete(store, from,
                   IF to = Unbounded THEN IngestedThrough(store) ELSE to) ]

\* The checkpoint route: complete is said of everything since the first ledger.
ServeCheckpoint(account, atLedger) ==
  [ event    |-> Checkpoint(store, account, atLedger),
    complete |-> IsComplete(store, FirstLedger, atLedger) ]

\* Mutant: the client does not look at the answer's complete flag.
FetchPageUnchecked ==
  /\ reader.phase = "paging"
  /\ LET page == Serve(reader.account, reader.from, reader.to, reader.cursor)
         last == page.cursor \in {NoCursor, reader.cursor}
     IN
     reader' = [ reader EXCEPT !.events = @ \o page.events,
                               !.cursor = page.cursor,
                               !.phase = IF last THEN "accepted" ELSE "paging" ]
  /\ UNCHANGED vars

\* One turn of fetchEvents.  The answer stands only if every page was complete
\* when it was served.
FetchPage ==
  /\ reader.phase = "paging"
  /\ LET page     == Serve(reader.account, reader.from, reader.to, reader.cursor)
         complete == reader.complete /\ page.complete
         last     == page.cursor \in {NoCursor, reader.cursor}
     IN
     reader' = [ reader EXCEPT !.events = @ \o page.events,
                               !.complete = complete,
                               !.cursor = page.cursor,
                               !.phase = CASE ~ last            -> "paging"
                                           [] last /\ complete  -> "accepted"
                                           [] last /\ ~complete -> "refused" ]
  /\ UNCHANGED vars

\* A request fails: fetchEvents throws and nothing is replayed.
RequestFails ==
  /\ reader.phase = "paging"
  /\ reader' = NotReading
  /\ UNCHANGED vars

ReaderNext ==
  \/ Next /\ UNCHANGED reader
  \/ \E account \in Accounts : AskVouched(account) \/ AskOpenEnded(account)
  \/ FetchPage
  \/ RequestFails

ReaderSpec == ReaderInit /\ [][ReaderNext]_readerVars

-----------------------------------------------------------------------------
(* Properties. *)

Wanted(ev) ==
  /\ reader.account \in ev.who
  /\ ev.ledger >= reader.from
  /\ reader.to = Unbounded \/ ev.ledger <= reader.to

\* Type invariant: a reader only ever holds events it asked for.
ReaderTypeOK ==
  /\ reader.phase \in {"idle", "paging", "accepted", "refused"}
  /\ reader # NotReading =>
       /\ reader.account \in Accounts /\ reader.complete \in BOOLEAN
       /\ \A ev \in ToSet(reader.events) : ev \in ToSet(chain) /\ Wanted(ev)

\* A history that was accepted for the range the archive vouched for is whole,
\* although pages were served between ingests and around a restart: only cut
\* events and events sharing a cursor can be missing.
AcceptedIsWhole ==
  reader.phase = "accepted" /\ reader.to # Unbounded =>
    \A ev \in ToSet(chain) \ cut :
      Wanted(ev) /\ ~ Shadowed(ev, ToSet(chain)) => ev \in ToSet(reader.events)

\* Pages join into one history: in apply order across ledgers and within a
\* transaction, and no event twice.
PagesJoin ==
  reader # NotReading =>
    \A i, j \in DOMAIN reader.events :
      LET a == reader.events[i]
          b == reader.events[j]
      IN i < j => \/ Position(a) < Position(b)
                  \/ a.ledger = b.ledger /\ a.tx # b.tx

\* C1: a checkpoint that is served as complete hides no later one, neither of a later
\* ledger nor of its own transaction, cut and shadowed events apart.  Of two merges of
\* one ledger and different transactions the order key may serve the earlier as the
\* latest: CheckpointIsTheLast, without that exception, is false.
CheckpointIsLatest ==
  \A account \in Accounts, at \in 1 .. head :
    LET served == ServeCheckpoint(account, at) IN
    served.complete =>
      \A ev \in ToSet(chain) \ cut :
        /\ ev.kind = "merge" /\ account \in ev.who /\ ev.ledger <= at
        /\ ~ Shadowed(ev, ToSet(chain))
        => /\ served.event # NoEvent
           /\ \/ served.event = ev
              \/ Position(ev) < Position(served.event)
              \/ ev.ledger = served.event.ledger /\ ev.tx # served.event.tx

\* C1 as store.js states it, "the latest checkpoint (a `merge`) at or before
\* `atLedger`", cut and shadowed events apart.  Contradicted by the code: the sort
\* ignores the transaction, so a ledger with two merges may be served reversed.
\* The checkpoint served as complete is the last merge on the chain (store.js: "the latest
\* checkpoint (a `merge`) at or before `atLedger`").  Not so: two transactions of a ledger
\* are kept in the order of their operations, whichever came first.
CheckpointIsTheLast ==
  \A account \in Accounts, at \in 1 .. head :
    LET served == ServeCheckpoint(account, at) IN
    served.complete =>
      \A ev \in ToSet(chain) \ cut :
        /\ ev.kind = "merge" /\ account \in ev.who /\ ev.ledger <= at
        /\ ~ Shadowed(ev, ToSet(chain))
        => served.event # NoEvent /\ Position(ev) <= Position(served.event)

\* What complete: true is for: below the last event of an accepted answer there
\* is no ledger the archive never examined.
AcceptedHasNoGap ==
  reader.phase = "accepted" /\ reader.events # << >> =>
    \A l \in Max({reader.from, FirstLedger}) .. Last(reader.events).ledger :
      l \in Claimed(store)
=============================================================================
