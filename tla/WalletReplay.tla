--------------------------- MODULE WalletReplay ---------------------------
(***************************************************************************)
(* Wallets that rebuild their openings from the event stream of a          *)
(* confidential token contract, spend from what they rebuilt, lose their   *)
(* memory and resume from what their store kept.                           *)
(*                                                                         *)
(* The contract is external.  It is modelled from what the SDK relies on:  *)
(* it keeps two commitments per account, adds points, replaces the         *)
(* spendable commitment on a spend whose proof opens it, and emits one     *)
(* event per call.  Every account runs the SDK's StateEngine over the same *)
(* log, and every spend is built by the SDK from the engine's opening, so  *)
(* the loop engine -> witness -> contract -> event -> engine is closed.    *)
(***************************************************************************)
EXTENDS StateEngine, FiniteSetsExt

CONSTANTS
  Preregistered,   \* accounts registered before the log begins
  Stored,          \* accounts whose engine is configured with a store
  DepositAmounts,  \* amounts a deposit may carry
  MaxSupply,       \* all there is of the underlying asset
  MaxEvents,       \* bound on the length of the log
  MaxLedger        \* bound on the ledger sequence

ASSUME WalletReplayAssumption ==
  /\ IsFiniteSet(Accounts)
  /\ Preregistered \subseteq Accounts
  /\ Stored \subseteq Accounts
  /\ DepositAmounts \subseteq Nat
  /\ MaxSupply \in Fr       \* amounts are 128-bit integers, far below the moduli
  /\ MaxEvents \in Nat
  /\ MaxLedger \in Nat \ {0}

VARIABLES
  ledger,      \* the open ledger: its transactions are not served yet
  log,         \* every event of the contract, in order
  commits,     \* commits[k+1]: the commitments after the first k events
  registered,  \* accounts the contract knows
  escrow,      \* underlying asset held by the contract
  state,       \* state[a]: in-memory state of a's engine
  fed,         \* fed[a]: events of the log that engine has replayed
  saved        \* saved[a]: what a's StateStore would load, if it has one

chainVars  == <<ledger, log, commits, registered, escrow>>
walletVars == <<state, fed, saved>>
vars       == <<chainVars, walletVars>>

-----------------------------------------------------------------------------
onchain == commits[Len(log) + 1]

\* The first n events of the log are those of ledgers up to l.
Through(n, l) ==
  /\ \A i \in 1 .. n : log[i].ledger <= l
  /\ \A i \in n + 1 .. Len(log) : log[i].ledger > l

Init ==
  /\ ledger = 1
  /\ log = << >>
  /\ commits = << [a \in Accounts |-> [ spendableC |-> Commit(0, 0),
                                        receivingC |-> Commit(0, 0) ]] >>
  /\ registered = Preregistered
  /\ escrow = 0
  /\ state = [a \in Accounts |-> FreshState]
  /\ fed = [a \in Accounts |-> 0]
  /\ saved = [a \in Accounts |-> FreshState]

-----------------------------------------------------------------------------
(* The contract. *)

Emit(ev, after) ==
  /\ Len(log) < MaxEvents
  /\ log' = Append(log, ev)
  /\ commits' = Append(commits, after)
  /\ UNCHANGED <<ledger, walletVars>>

CloseLedger ==
  /\ ledger < MaxLedger
  /\ ledger' = ledger + 1
  /\ UNCHANGED <<log, commits, registered, escrow, walletVars>>

Register(a) ==
  /\ a \notin registered
  /\ registered' = registered \cup {a}
  /\ Emit([type |-> "register", ledger |-> ledger, account |-> a], onchain)
  /\ UNCHANGED escrow

Deposit(a, amount) ==
  /\ a \in registered
  /\ escrow + amount <= MaxSupply
  /\ escrow' = escrow + amount
  /\ Emit([type |-> "deposit", ledger |-> ledger, to |-> a, amount |-> amount],
          [onchain EXCEPT ![a].receivingC = PointAdd(@, Commit(amount, 0))])
  /\ UNCHANGED registered

Merge(a) ==
  /\ a \in registered
  /\ Emit([type |-> "merge", ledger |-> ledger, account |-> a],
          [onchain EXCEPT ![a] =
             [ spendableC |-> PointAdd(@.spendableC, @.receivingC),
               receivingC |-> Commit(0, 0) ]])
  /\ UNCHANGED <<registered, escrow>>

\* What the circuits prove about a spend: the inputs open the STORED spendable
\* commitment, the amount and the rest pass the range check, and the new
\* commitment and the encrypted balance both carry that rest.
SpendAccepted(a, w, amount) ==
  LET vNew == w.inputs.v - amount
      p    == w.payload
  IN
  /\ Commit(w.inputs.v, w.inputs.r) = onchain[a].spendableC
  /\ {amount, vNew} \subseteq 0 .. MaxValue
  /\ p.cSpendNew = Commit(vNew, DeriveSpendR(a, p.sigma))
  /\ p.bTilde = EncryptBalance(vNew, a, p.sigma)

\* A transfer's proof also ties the commitment and the ciphertext sent to b.
TransferAccepted(a, b, w, amount) ==
  LET p == w.payload
      s == Ecdh(b, p.rE)
  IN
  /\ SpendAccepted(a, w, amount)
  /\ p.cTx = Commit(amount, DeriveTxBlind(s, p.sigma))
  /\ p.vTilde = EncryptAmount(amount, s, p.sigma)

Withdraw(a, amount, sigma) ==
  /\ a \in registered
  /\ CanSpend(state[a].spendable, amount)
  /\ LET w == BuildWithdrawWitness(a, state[a].spendable, amount, sigma) IN
     /\ SpendAccepted(a, w, amount)
     /\ Emit([ type |-> "withdraw", ledger |-> ledger, from |-> a,
               sigma |-> w.payload.sigma, bTilde |-> w.payload.bTilde ],
             [onchain EXCEPT ![a].spendableC = w.payload.cSpendNew])
  /\ escrow' = escrow - amount
  /\ UNCHANGED registered

Transfer(a, b, amount, sigma) ==
  /\ {a, b} \subseteq registered
  /\ CanSpend(state[a].spendable, amount)
  /\ LET w == BuildTransferWitness(a, state[a].spendable, b, amount, sigma)
         p == w.payload
     IN
     /\ TransferAccepted(a, b, w, amount)
     /\ Emit([ type |-> "transfer", ledger |-> ledger, from |-> a, to |-> b,
               rE |-> p.rE, vTilde |-> p.vTilde, sigma |-> p.sigma,
               bTilde |-> p.bTilde ],
             [onchain EXCEPT ![a].spendableC = p.cSpendNew,
                             ![b].receivingC = PointAdd(@, p.cTx)])
  /\ UNCHANGED <<registered, escrow>>

-----------------------------------------------------------------------------
(* The wallets. *)

\* The caller fetches the rest of the log through a closed ledger and hands it
\* to ingestEvents.  The save is fired and not awaited: it may fail unseen.
Ingest(a) ==
  \E to \in 0 .. ledger - 1, n \in fed[a] .. Len(log) :
    /\ Through(n, to)
    /\ LET next == IngestEvents(a, state[a], SubSeq(log, fed[a] + 1, n)) IN
       /\ state' = [state EXCEPT ![a] = next]
       /\ saved' \in {saved} \cup
                     {[saved EXCEPT ![b] = next] : b \in Stored \cap {a}}
    /\ fed' = [fed EXCEPT ![a] = n]
    /\ UNCHANGED chainVars

\* The process dies.  A new engine loads the stored state, and its caller
\* resumes after lastLedger, the only position the store keeps.
Restart(a) ==
  \E n \in 0 .. Len(log) :
    /\ Through(n, saved[a].lastLedger)
    /\ state' = [state EXCEPT ![a] = saved[a]]
    /\ fed' = [fed EXCEPT ![a] = n]
    /\ UNCHANGED <<chainVars, saved>>

Next ==
  \/ CloseLedger
  \/ \E a \in Accounts :
       \/ Register(a)
       \/ \E amount \in DepositAmounts : Deposit(a, amount)
       \/ Merge(a)
       \/ \E amount \in 0 .. MaxValue, sigma \in Sigmas :
            \/ Withdraw(a, amount, sigma)
            \/ \E b \in Accounts : Transfer(a, b, amount, sigma)
       \/ Ingest(a)
       \/ Restart(a)

Spec == Init /\ [][Next]_vars

-----------------------------------------------------------------------------
(* Properties. *)

\* Type invariant: every recorded event is one the SDK can decode, and every
\* opening keeps its blinding below the group order.
TypeOK ==
  /\ ledger \in Nat \ {0}
  /\ log \in Seq(ConfidentialEvent)
  /\ commits \in Seq(Commitments)
  /\ Len(commits) = Len(log) + 1
  /\ registered \subseteq Accounts
  /\ escrow \in Int
  /\ state \in [Accounts -> AccountState]
  /\ saved \in [Accounts -> AccountState]
  /\ fed \in [Accounts -> Nat]
  /\ \A a \in Accounts : fed[a] <= Len(log)

\* Whatever was received, merged, sent to oneself or spent, and however often
\* the process died in between, an engine's openings re-commit to the points
\* the contract held at the place in the log the engine has reached
\* (verifyAgainstChain would say ok there).
ReplayMatchesChain ==
  \A a \in Accounts : VerifyAgainstChain(state[a], commits[fed[a] + 1][a])

\* An engine in state st of account a is in place at position n of the log:
\* its lastLedger cuts the log there, and its openings open what was on chain.
InPlace(a, st, n) ==
  /\ Through(n, st.lastLedger)
  /\ st.lastLedger < ledger
  /\ VerifyAgainstChain(st, commits[n + 1][a])

\* The stored state is correct for the log through its own lastLedger, so
\* resuming after that ledger neither skips an event nor credits one twice,
\* although the save was never awaited.
SavedStateResumes ==
  \A a \in Accounts :
    \E n \in 0 .. Len(log) : InPlace(a, saved[a], n)

LogExplained ==
  \A k \in 1 .. Len(log) : EventExplains(log[k], commits[k], commits[k + 1])

LogInOrder ==
  /\ \A k \in 1 .. Len(log) : log[k].ledger \in 1 .. ledger
  /\ \A j, k \in 1 .. Len(log) : j <= k => log[j].ledger <= log[k].ledger

WalletsInPlace ==
  \A a \in Accounts :
    /\ InPlace(a, state[a], fed[a])
    /\ \E n \in 0 .. Len(log) : InPlace(a, saved[a], n)

\* The inductive invariant: each event explains its commitments to a reader
\* who has only viewing keys, the log is in ledger order, and what a wallet
\* holds in memory or in its store is in place at a position of the log.
WalletInv == TypeOK /\ LogExplained /\ LogInOrder /\ WalletsInPlace

\* What every account holds, by the amounts that commitments c commit to.
Balances(c) == [a \in Accounts |-> c[a].spendableC.g + c[a].receivingC.g]

\* An event moves its amount as a number: no sum passes the group order.
MovesFunds(ev, before, after) ==
  /\ ev.type = "deposit" =>
       after[ev.to].receivingC.g = before[ev.to].receivingC.g + ev.amount
  /\ ev.type = "merge" =>
       after[ev.account].spendableC.g =
         before[ev.account].spendableC.g + before[ev.account].receivingC.g
  /\ ev.type = "transfer" =>
       after[ev.to].receivingC.g =
         before[ev.to].receivingC.g + DecryptIncoming(ev.to, ev).v

LogMovesFunds ==
  \A k \in 1 .. Len(log) : MovesFunds(log[k], commits[k], commits[k + 1])

\* All accounts together hold the escrow, and never more than there is.
EscrowBacked ==
  /\ \A k \in 1 .. Len(commits) : SumFunction(Balances(commits[k])) \in 0 .. MaxSupply
  /\ SumFunction(Balances(onchain)) = escrow

Holds(st, c) ==
  st.spendable.v = c.spendableC.g /\ st.receiving.v = c.receivingC.g

WalletsHoldFunds ==
  \A a \in Accounts :
    /\ Holds(state[a], commits[fed[a] + 1][a])
    /\ \A n \in 0 .. Len(log) :
         Through(n, saved[a].lastLedger) => Holds(saved[a], commits[n + 1][a])

\* The inductive invariant of the amounts: the log moves them as numbers, they add
\* up to the escrow, and a wallet's number is the account's at the wallet's place.
FundsInv == WalletInv /\ LogMovesFunds /\ EscrowBacked /\ WalletsHoldFunds

\* A spend event alone gives the owner the resulting spendable opening, with
\* no history at all (the promise in the engine's header).
SpendEventsOpen ==
  \A i \in 1 .. Len(log) :
    log[i].type \in {"withdraw", "transfer"} =>
      LET a == log[i].from IN
      Opens(OpenSpendable(a, log[i]), commits[i + 1][a].spendableC)

\* A wallet that has caught up can spend: whatever witness the SDK builds from
\* the replayed opening, the circuits accept.  The replayed blinding must be
\* below FrModulus, because circuit inputs are reduced modulo it: a merged
\* blinding in FrModulus .. FpModulus-1 is beyond what the SDK can express.
CaughtUpSpendsAccepted ==
  \A a \in registered :
    LET o == state[a].spendable IN
    fed[a] = Len(log) /\ o.v <= MaxValue /\ o.r \in Fr =>
      \A b \in Accounts, amount \in 0 .. MaxValue, sigma \in Sigmas :
        CanSpend(o, amount) =>
          /\ SpendAccepted(a, BuildWithdrawWitness(a, o, amount, sigma), amount)
          /\ TransferAccepted(a, b,
               BuildTransferWitness(a, o, b, amount, sigma), amount)

\* When every wallet has replayed the whole log, what they believe they own
\* is exactly what the contract holds: no replay mints, loses or hides value.
Held == [a \in Accounts |-> state[a].spendable.v + state[a].receiving.v]

WalletsAccountForEscrow ==
  (\A a \in Accounts : fed[a] = Len(log)) => SumFunction(Held) = escrow

\* What the commitments commit to is a plain token: whatever travels between
\* wallets and contract is encrypted, yet every call is a visible-balance
\* deposit, collection, withdrawal or payment, never an overdraft.
Plain == INSTANCE PlainToken WITH
  spendable <- [a \in Accounts |-> onchain[a].spendableC.g],
  receiving <- [a \in Accounts |-> onchain[a].receivingC.g],
  MaxAmount <- MaxSupply

ImplementsPlainToken == Plain!Spec
=============================================================================
