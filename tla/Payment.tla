------------------------------- MODULE Payment --------------------------------
(***************************************************************************)
(* Visitors pay from the shared guest account (apps/web: pay-button.tsx,   *)
(* api/pay/route.ts, payment-flow.ts, lib/receipt.ts).  A request rebuilds *)
(* the guest's spendable opening, proves a transfer of part of it to the   *)
(* building and invokes it; other requests, and retries of the same        *)
(* visitor, do the same meanwhile.  The platform may cut a request off.    *)
(***************************************************************************)
EXTENDS ChainClient

CONSTANTS
  Guest, Building,   \* accounts; the first pays
  Funds,             \* the guest's spendable balance at the start
  MaxStroops,        \* MAX_STROOPS
  Amounts,           \* bound: amounts asked for
  MaxTries,          \* bound: requests of each visitor
  MaxKept            \* MAX_KEPT receipts

ASSUME PaymentAssumption ==
  /\ {Guest, Building} \subseteq Accounts /\ Guest # Building
  /\ Funds \in Nat /\ MaxStroops \in Nat /\ Amounts \subseteq Nat
  /\ MaxTries \in [Callers -> Nat] /\ MaxKept \in Nat

\* The visitors are the callers; the requests of each are numbered.
Visitors == Callers
Requests == UNION {{v} \X (1 .. MaxTries[v]) : v \in Visitors}

VARIABLES
  request,   \* of each visitor: the request the server works on
  told,      \* of each request: what the page knows of it
  kept,      \* of each visitor: the receipts in sessionStorage
  lost       \* history: of each visitor, the requests whose receipt sessionStorage refused

pageVars == <<request, told, kept, lost>>
vars     == <<chainVars, pageVars>>

-----------------------------------------------------------------------------
NoRequest == [phase |-> "idle"]

Init ==
  /\ account = [a \in Accounts |->
       [ registered |-> TRUE, seq |-> 0, receiving |-> 0,
         openings |-> <<IF a = Guest THEN Funds ELSE 0>> ]]
  /\ pool = {} /\ landed = {}
  /\ call = [v \in Visitors |-> NotCalling]
  /\ request = [v \in Visitors |-> NoRequest]
  /\ told = [r \in Requests |-> "unasked"]
  /\ kept = [v \in Visitors |-> << >>]
  /\ lost = [v \in Visitors |-> {}]

Current(v) == <<v, request[v].no>>

\* The request of v ends, and the page shows outcome; whatever call it had is over.
EndRequest(v, outcome) ==
  /\ request' = [request EXCEPT ![v] = NoRequest]
  /\ told' = [told EXCEPT ![Current(v)] = outcome]

InRange(amount) == amount \in 1 .. MaxStroops

\* The visitor submits; the button is disabled while a request runs.  The server
\* checks the amount itself, because the endpoint is public.
Submit(v, amount) ==
  \E no \in 1 .. MaxTries[v] :
    /\ request[v] = NoRequest
    /\ \A k \in 1 .. MaxTries[v] : told[<<v, k>>] = "unasked" <=> k >= no
    /\ request' = [request EXCEPT ![v] = [phase |-> "rebuild", no |-> no, amount |-> amount]]
    /\ told' = [told EXCEPT ![<<v, no>>] = "running"]
    /\ UNCHANGED <<chainVars, kept, lost>>

\* An amount out of range is answered before the first stage.
RefuseAmount(v) ==
  /\ request[v].phase = "rebuild"
  /\ ~ InRange(request[v].amount)
  /\ EndRequest(v, "refused")
  /\ UNCHANGED <<chainVars, kept, lost>>

\* The guest's opening from its events; an RPC that lags gives an older one.  (One
\* that forgot the events gives none, which is refused: see StageFails.)
Rebuild(v) ==
  /\ request[v].phase = "rebuild"
  /\ InRange(request[v].amount)
  /\ \E built \in DOMAIN account[Guest].openings :
       IF account[Guest].openings[built] < request[v].amount
       THEN EndRequest(v, "refused")
       ELSE /\ request' = [request EXCEPT ![v] = [ phase |-> "prove", no |-> @.no,
                                                   amount |-> @.amount, built |-> built ]]
            /\ UNCHANGED told
  /\ UNCHANGED <<chainVars, kept, lost>>

\* The event source, the auditor's key, the proof or the account read throws, or
\* the RPC no longer has the events the funds came with.
StageFails(v) ==
  /\ request[v].phase \in {"rebuild", "prove"}
  /\ EndRequest(v, "refused")
  /\ UNCHANGED <<chainVars, kept, lost>>

\* The auditor's key is read, the transfer proved, and invoke begins.
ProveAndInvoke(v) ==
  /\ request[v].phase = "prove"
  /\ Invoke(v, Guest, Transfer(Guest, Building, request[v].amount, request[v].built), Current(v))
  /\ request' = [request EXCEPT ![v].phase = "submit"]
  /\ UNCHANGED <<told, kept, lost>>

-----------------------------------------------------------------------------
(* Receipts: newest first, one per transaction, at most MaxKept.            *)

FirstKept(receipts) ==
  SubSeq(receipts, 1, IF MaxKept < Len(receipts) THEN MaxKept ELSE Len(receipts))

\* The receipts that are not of transaction tx.
Others(tx, receipts) ==
  LET others[n \in 0 .. Len(receipts)] ==
        IF n = 0 THEN << >>
        ELSE IF receipts[n].tx = tx THEN others[n - 1] ELSE Append(others[n - 1], receipts[n])
  IN others[Len(receipts)]

\* Mutant: the new receipt is the first to be dropped.
NewestLast(r, stored) == FirstKept(Append(Others(r.tx, stored), r))

MergeReceipts(r, stored) == FirstKept(<<r>> \o Others(r.tx, stored))

\* The page saves receipt r.  sessionStorage may refuse the write (private mode, the
\* quota); the failure is caught, and what was stored before stays.
SaveReceipt(v, r) ==
  \/ /\ kept' = [kept EXCEPT ![v] = MergeReceipts(r, @)]
     /\ UNCHANGED lost
  \/ /\ lost' = [lost EXCEPT ![v] = @ \cup {r.tx[2]}]
     /\ UNCHANGED kept

\* invoke returned: the page settles the request and saves its receipt.
Done(v) ==
  /\ request[v].phase = "submit"
  /\ call[v].phase = "returned"
  /\ EndRequest(v, "done")
  /\ SaveReceipt(v, [tx |-> call[v].tx.name, amount |-> request[v].amount])
  /\ call' = [call EXCEPT ![v] = NotCalling]
  /\ UNCHANGED ledgerVars

\* invoke threw: the error line carries its message.
Failed(v) ==
  /\ request[v].phase = "submit"
  /\ call[v].phase = "threw"
  /\ EndRequest(v, call[v].why)
  /\ call' = [call EXCEPT ![v] = NotCalling]
  /\ UNCHANGED <<ledgerVars, kept, lost>>

\* The platform ends the request after maxDuration, less than invoke may take: the
\* stream stops with neither line.
CutOff(v) ==
  /\ request[v] # NoRequest
  /\ EndRequest(v, "unanswered")
  /\ call' = [call EXCEPT ![v] = NotCalling]
  /\ UNCHANGED <<ledgerVars, kept, lost>>

ServerStep(v) ==
  \/ RefuseAmount(v) \/ Rebuild(v) \/ ProveAndInvoke(v) \/ Done(v) \/ Failed(v)
  \/ InvokeStep(v) /\ UNCHANGED pageVars

Next ==
  \/ \E v \in Visitors :
       \/ \E amount \in Amounts : Submit(v, amount)
       \/ ServerStep(v)
       \/ StageFails(v) \/ CutOff(v)
       \/ InvokeFails(v) /\ UNCHANGED pageVars
  \/ LedgerStep /\ UNCHANGED pageVars

\* The server goes on while nothing stops it: an awaited call is answered, unless it
\* fails or the platform cuts the request off.
Spec == Init /\ [][Next]_vars /\ \A v \in Visitors : WF_vars(ServerStep(v))

-----------------------------------------------------------------------------
(* Properties. *)

\* Requests whose transfer is in a closed ledger and did not fail.
Paid == {l.tx.name : l \in {m \in landed : m.ok}}

PaidAmount(r) == CHOOSE n \in Amounts : \E l \in landed : l.ok /\ l.tx.name = r /\ l.tx.op.amount = n

Transactions == pool \cup {l.tx : l \in landed} \cup
  {call[v].tx : v \in {w \in Visitors : call[w].phase \in {"simulate", "send", "poll", "returned"}}}

\* Type invariant.
TypeOK ==
  /\ \A r \in Requests : told[r] \in {"unasked", "running", "done", "refused", "unanswered"}
  /\ \A v \in Visitors :
       /\ request[v] # NoRequest => told[Current(v)] = "running"
       /\ call[v] # NotCalling => request[v].phase = "submit"
       /\ Len(kept[v]) <= MaxKept
  /\ \A tx \in Transactions : tx.source = Guest /\ tx.name \in Requests /\ InRange(tx.op.amount)

\* A payment is a spend of its own opening: however many visitors rebuilt the same
\* one, and however often one retried, no two payments land for one opening.
OneSpendPerOpening ==
  \A l, m \in landed : l # m => l.tx.name # m.tx.name /\ l.tx.op.built # m.tx.op.built

\* The visitor who loses that race does not even fail on the ledger: the account's
\* sequence number, read before the simulation, is gone with the opening.
NoneFailsOnTheLedger == \A l \in landed : l.ok

\* Each opening of the guest but the first is the one before less one payment, and
\* each payment is in it once.
OpeningsArePayments ==
  LET openings == account[Guest].openings IN
  /\ \A l \in landed : openings[l.tx.op.built + 1] = openings[l.tx.op.built] - l.tx.op.amount
  /\ \A i \in 1 .. Len(openings) - 1 : \E l \in landed : l.tx.op.built = i

\* All three, and what the guest had is with the guest or with the building, so the
\* building has the sum of the payments.
NothingSpentTwice ==
  /\ OneSpendPerOpening /\ NoneFailsOnTheLedger /\ OpeningsArePayments
  /\ Spendable(Guest) + account[Building].receiving = Funds

\* The requests of v that were answered as paid, those of them whose receipt
\* sessionStorage took, and those v has a receipt of.
Answered(v) == {no \in 1 .. MaxTries[v] : told[<<v, no>>] = "done"}
Stored(v)   == Answered(v) \ lost[v]
Shown(v)    == {kept[v][i].tx[2] : i \in DOMAIN kept[v]}

\* The receipts of a visitor are the latest of the answered payments whose receipt
\* sessionStorage took, newest first, each of them a different one that landed for
\* the amount on it: an unanswered request may have been paid, but it never leaves a
\* receipt, and an answered one is missing only when the write of its own receipt
\* was refused, or when MaxKept later ones are there.  A refused write takes no other
\* receipt with it.
ReceiptsTellTheTruth ==
  \A v \in Visitors :
    /\ Len(kept[v]) <= MaxKept
    /\ \A i \in DOMAIN kept[v] :
         /\ kept[v][i].tx \in Paid /\ kept[v][i].amount = PaidAmount(kept[v][i].tx)
         /\ kept[v][i].tx[1] = v /\ kept[v][i].tx[2] \in Stored(v)
         /\ \A j \in DOMAIN kept[v] : i < j => kept[v][j].tx[2] < kept[v][i].tx[2]
    /\ \A no \in Stored(v) \ Shown(v) :
         Len(kept[v]) = MaxKept /\ \A n \in Shown(v) : no < n

\* The page and the ledger agree: done means paid, refused means never paid.
Settled == INSTANCE Settlement WITH paid <- Paid
ImplementsSettlement == Settled!Settles

\* A retry can only pay again with its eyes open: if a visitor paid twice, the
\* opening the later request rebuilt already had the earlier payment out of it.
RetryHasSeenThePayment ==
  \A v \in Visitors : \A i, j \in 1 .. MaxTries[v] :
    i < j /\ {<<v, i>>, <<v, j>>} \subseteq Paid =>
      \E l, m \in landed : /\ l.ok /\ l.tx.name = <<v, i>> /\ m.ok /\ m.tx.name = <<v, j>>
                           /\ l.tx.op.built < m.tx.op.built

\* Every request comes to an end on the page.
EveryRequestEnds == \A r \in Requests : told[r] = "running" ~> told[r] # "running"
=============================================================================
