-------------------------------- MODULE Rpc --------------------------------
(***************************************************************************)
(* The chain and a Soroban RPC, as the archive and the SDK's event reader  *)
(* see them (external): ledgers close with whole blocks of events, the RPC *)
(* keeps a sliding window of ledgers, serves their events in bounded       *)
(* pages, and rejects a read that starts below its window.                 *)
(***************************************************************************)
EXTENDS Integers, SequencesExt

CONSTANTS
  Blocks,        \* what a ledger may carry: sequences of events less their ledger
  PageLimit,     \* events the RPC returns per page (100 in the code)
  ScanWindow,    \* ledgers the RPC examines per call
  Retention,     \* ledgers the RPC keeps at least
  MaxHead        \* bound: ledgers that close

ASSUME RpcAssumption ==
  /\ {PageLimit, ScanWindow, Retention} \subseteq Nat \ {0}
  /\ MaxHead \in Nat

\* The events of one transaction come in the order of their operations and indices.
ASSUME BlocksAssumption ==
  \A block \in Blocks :
    /\ block \in Seq(ToSet(block))
    /\ \A emission \in ToSet(block) :
         /\ {"tx", "op", "index"} \subseteq DOMAIN emission
         /\ {emission.tx, emission.op, emission.index} \subseteq Nat
    /\ \A i, j \in DOMAIN block :
         i < j /\ block[i].tx = block[j].tx =>
           \/ block[i].op < block[j].op
           \/ block[i].op = block[j].op /\ block[i].index < block[j].index

VARIABLES
  chain,     \* every event of the contract, in apply order
  head,      \* latest closed ledger
  oldest     \* lowest ledger the RPC still serves

rpcVars == <<chain, head, oldest>>

\* The RPC has a whole window of ledgers, in which the contract emitted nothing.
RpcInit ==
  /\ chain = << >>
  /\ head = Retention
  /\ oldest = 1

\* What was emitted, in the ledger that carries it.
InLedger(emission, l) ==
  [f \in DOMAIN emission \cup {"ledger"} |-> IF f = "ledger" THEN l ELSE emission[f]]

CloseLedger ==
  /\ head < MaxHead
  /\ head' = head + 1
  /\ \E block \in Blocks :
       chain' = chain \o [i \in DOMAIN block |-> InLedger(block[i], head + 1)]
  /\ UNCHANGED oldest

Expire ==
  /\ oldest + Retention <= head
  /\ oldest' = oldest + 1
  /\ UNCHANGED <<chain, head>>

-----------------------------------------------------------------------------
(* getEvents. *)

\* An RPC cursor: the ledger it encodes, and how many events lie up to it.
NoRpcCursor == [ledger |-> 0, upTo |-> 0]

EventsThrough(l) == Cardinality({i \in DOMAIN chain : chain[i].ledger <= l})

Position(ev) == CHOOSE i \in DOMAIN chain : chain[i] = ev

\* Where a read that resumes at cursor c, or else starts at ledger start, really
\* starts: a cursor in the middle of a ledger resumes there, any other after it.
NextRead(start, c) ==
  CASE c = NoRpcCursor ->
         [ledger |-> start, upTo |-> EventsThrough(start - 1)]
    [] c # NoRpcCursor /\ c.upTo < EventsThrough(c.ledger) -> c
    [] OTHER -> [c EXCEPT !.ledger = @ + 1]

\* A page from ledger l and position n of the chain, the cursor that resumes after
\* it, and the latest ledger.  A full page resumes after its last event, a short
\* one after the ledgers examined.
GetEvents(l, n) ==
  LET scanned == Min({head, l + ScanWindow - 1})
      upTo    == EventsThrough(scanned)
      full    == upTo - n >= PageLimit
      last    == IF full THEN n + PageLimit ELSE upTo
  IN
  [ events |-> SubSeq(chain, n + 1, last),
    cursor |-> [ ledger |-> IF full THEN chain[last].ledger ELSE scanned,
                 upTo   |-> last ],
    latest |-> head ]
=============================================================================
