----------------------------- MODULE ChainClient ------------------------------
(***************************************************************************)
(* ChainClient.invoke (packages/sdk/src/chain/client.ts) for any number of *)
(* callers, over the ledger as the code uses it: accounts with a sequence  *)
(* number and a confidential balance, a pool of transactions that may be   *)
(* included or expire, and the results of those that landed.               *)
(*                                                                         *)
(* invoke reads the account, builds for the next sequence number,          *)
(* simulates, sends and polls; every await is a boundary between actions.  *)
(* It gives up polling after two minutes, while the transaction stays      *)
(* valid for three.                                                        *)
(***************************************************************************)
EXTENDS Integers, Sequences, FiniteSets

CONSTANTS
  Accounts,    \* the accounts of the ledger
  Callers,     \* the invocations that may be in flight
  PollLimit    \* MAX_POLL_ATTEMPTS (60 in the code)

ASSUME ChainClientAssumption == PollLimit \in Nat \ {0}

VARIABLES
  account,     \* of each account: registered, seq, openings (the spendable balance after each change of its commitment), receiving
  pool,        \* transactions the network holds
  landed,      \* transactions in a closed ledger, with their outcome
  call         \* the invocation of each caller

ledgerVars == <<account, pool, landed>>
chainVars  == <<account, pool, landed, call>>

-----------------------------------------------------------------------------
(* The ledger. *)

Spendable(a) == account[a].openings[Len(account[a].openings)]

\* The calls of the token: what each says, and what the contract checks.
Register(a)            == [kind |-> "register", of |-> a]
Deposit(a, amount)     == [kind |-> "deposit", of |-> a, amount |-> amount]
Merge(a)               == [kind |-> "merge", of |-> a]
Transfer(a, to, amount, built) ==
  [kind |-> "transfer", of |-> a, to |-> to, amount |-> amount, built |-> built]

\* Mutant: the contract does not hold a proof to the commitment of the moment.
AcceptsAnyOpening(op) ==
  /\ account[op.of].registered = (op.kind # "register")
  /\ op.kind = "transfer" => account[op.to].registered /\ op.amount <= Spendable(op.of)

\* A transfer's proof is about one spendable commitment: the built-th.
Accepts(op) ==
  /\ account[op.of].registered = (op.kind # "register")
  /\ op.kind = "transfer" => /\ account[op.to].registered
                             /\ op.built = Len(account[op.of].openings)
                             /\ op.amount <= Spendable(op.of)

\* The accounts once op is applied; a merge of nothing leaves the commitment.
Applied(op) ==
  LET a == op.of IN
  CASE op.kind = "register" -> [account EXCEPT ![a].registered = TRUE, ![a].openings = <<0>>]
    [] op.kind = "deposit"  -> [account EXCEPT ![a].receiving = @ + op.amount]
    [] op.kind = "merge"    ->
         IF account[a].receiving = 0 THEN account
         ELSE [account EXCEPT ![a].openings = Append(@, Spendable(a) + account[a].receiving),
                              ![a].receiving = 0]
    [] op.kind = "transfer" ->
         [account EXCEPT ![a].openings = Append(@, Spendable(a) - op.amount),
                         ![op.to].receiving = @ + op.amount]

\* A ledger closes over tx.  A transaction that fails uses its sequence number too.
Include(tx) ==
  /\ tx \in pool
  /\ tx.seq = account[tx.source].seq + 1
  /\ account' = [IF Accepts(tx.op) THEN Applied(tx.op) ELSE account
                   EXCEPT ![tx.source].seq = tx.seq]
  /\ landed' = landed \cup {[tx |-> tx, ok |-> Accepts(tx.op)]}
  /\ pool' = pool \ {tx}
  /\ UNCHANGED call

\* tx is dropped: its time is over, or its sequence number is used.
Expire(tx) ==
  /\ tx \in pool
  /\ pool' = pool \ {tx}
  /\ UNCHANGED <<account, landed, call>>

Result(tx) == {l.ok : l \in {m \in landed : m.tx = tx}}

-----------------------------------------------------------------------------
(* invoke.  An invocation that throws says either that the call did not and *)
(* will not happen, or nothing about it.                                    *)

NotCalling    == [phase |-> "idle"]
Returned(tx)  == [phase |-> "returned", tx |-> tx]
Threw(why)    == [phase |-> "threw", why |-> why]

\* getAccount answers: the transaction is built for the next sequence number.
Invoke(c, source, op, name) ==
  /\ call[c] = NotCalling
  /\ call' = [call EXCEPT ![c] =
       [ phase |-> "simulate",
         tx |-> [source |-> source, seq |-> account[source].seq + 1, op |-> op, name |-> name] ]]
  /\ UNCHANGED ledgerVars

\* Mutant: what the simulation says is not looked at.
SimulateUnread(c) ==
  /\ call[c].phase = "simulate"
  /\ call' = [call EXCEPT ![c] = [phase |-> "send", tx |-> @.tx]]
  /\ UNCHANGED ledgerVars

\* The simulation runs the contract on the ledger of this moment.
Simulate(c) ==
  /\ call[c].phase = "simulate"
  /\ call' = [call EXCEPT ![c] = IF Accepts(@.tx.op) THEN [phase |-> "send", tx |-> @.tx]
                                 ELSE Threw("refused")]
  /\ UNCHANGED ledgerVars

\* An RPC call throws before anything was sent.
SimulateFails(c) ==
  /\ call[c].phase = "simulate"
  /\ call' = [call EXCEPT ![c] = Threw("refused")]
  /\ UNCHANGED ledgerVars

Polling(tx) == [phase |-> "poll", tx |-> tx, polls |-> 0]

\* sendTransaction answers PENDING, or TRY_AGAIN_LATER, which the code takes for sent.
Send(c) ==
  /\ call[c].phase = "send"
  /\ pool' \in {pool, pool \cup {call[c].tx}}
  /\ call' = [call EXCEPT ![c] = Polling(@.tx)]
  /\ UNCHANGED <<account, landed>>

\* sendTransaction answers ERROR: the network did not take the transaction.
SendRejected(c) ==
  /\ call[c].phase = "send"
  /\ call' = [call EXCEPT ![c] = Threw("refused")]
  /\ UNCHANGED ledgerVars

\* The call fails on the way: the transaction may have got there.
SendUnanswered(c) ==
  /\ call[c].phase = "send"
  /\ pool' \in {pool, pool \cup {call[c].tx}}
  /\ call' = [call EXCEPT ![c] = Threw("unanswered")]
  /\ UNCHANGED <<account, landed>>

\* Mutants: a transaction not found is reported as failed; polling has no end.
NotFoundIsFailure(c) ==
  CASE Result(c.tx) = {TRUE} -> Returned(c.tx)
    [] OTHER                 -> Threw("refused")
PollsForever(c) ==
  CASE Result(c.tx) = {TRUE}  -> Returned(c.tx)
    [] Result(c.tx) = {FALSE} -> Threw("refused")
    [] OTHER                  -> c

\* One turn of the polling loop of call c; the loop makes PollLimit of them.
AfterPoll(c) ==
  CASE Result(c.tx) = {TRUE}  -> Returned(c.tx)
    [] Result(c.tx) = {FALSE} -> Threw("refused")
    [] Result(c.tx) = {} /\ c.polls + 1 = PollLimit -> Threw("unanswered")
    [] OTHER -> [c EXCEPT !.polls = @ + 1]

Poll(c) ==
  /\ call[c].phase = "poll"
  /\ call' = [call EXCEPT ![c] = AfterPoll(@)]
  /\ UNCHANGED ledgerVars

\* getTransaction throws, and invoke with it, at the first failure.
PollFails(c) ==
  /\ call[c].phase = "poll"
  /\ call' = [call EXCEPT ![c] = Threw("unanswered")]
  /\ UNCHANGED ledgerVars

\* Steps of invoke, and those of an RPC that fails.
InvokeStep(c)  == Simulate(c) \/ Send(c) \/ Poll(c)
InvokeFails(c) == SimulateFails(c) \/ SendRejected(c) \/ SendUnanswered(c) \/ PollFails(c)

LedgerStep == \E tx \in pool : Include(tx) \/ Expire(tx)
=============================================================================
