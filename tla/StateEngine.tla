---------------------------- MODULE StateEngine ----------------------------
(***************************************************************************)
(* Offline reconstruction of one account's openings from the event stream  *)
(* (packages/sdk/src/state/engine.ts, types.ts): the operators of the      *)
(* engine, without the environment that feeds it.                          *)
(***************************************************************************)
EXTENDS Witness, Sequences

RegisterEvent == [type : {"register"}, ledger : Nat, account : Accounts]
DepositEvent  == [type : {"deposit"}, ledger : Nat, to : Accounts, amount : Nat]
MergeEvent    == [type : {"merge"}, ledger : Nat, account : Accounts]
WithdrawEvent == [type : {"withdraw"}, ledger : Nat, from : Accounts,
                  sigma : Sigmas, bTilde : Fr]
TransferEvent == [type : {"transfer"}, ledger : Nat, from : Accounts,
                  to : Accounts, rE : Accounts \X Sigmas, vTilde : Fr,
                  sigma : Sigmas, bTilde : Fr]

ConfidentialEvent == RegisterEvent \cup DepositEvent \cup MergeEvent
                       \cup WithdrawEvent \cup TransferEvent

AccountState == [spendable : Opening, receiving : Opening, lastLedger : Nat]

FreshState ==
  [spendable |-> ZeroOpening, receiving |-> ZeroOpening, lastLedger |-> 0]

\* Mutant: the blinding of the wrong channel.
DecryptIncomingOwnBlinding(me, ev) ==
  [ v |-> FrMod(ev.vTilde - Digest("TX_AMOUNT", Ecdh(me, ev.rE), ev.sigma)),
    r |-> DeriveSpendR(me, ev.sigma) ]

DecryptIncoming(me, ev) ==
  LET s == Ecdh(me, ev.rE) IN
  [ v |-> FrMod(ev.vTilde - Digest("TX_AMOUNT", s, ev.sigma)),
    r |-> DeriveTxBlind(s, ev.sigma) ]

\* Mutant: JavaScript's signed remainder left as it is.
OpenSpendableUnreduced(me, ev) ==
  [ v |-> ev.bTilde - Digest("ENCRYPTED_BALANCE", <<me>>, ev.sigma),
    r |-> DeriveSpendR(me, ev.sigma) ]

OpenSpendable(me, ev) ==
  [ v |-> FrMod(ev.bTilde - Digest("ENCRYPTED_BALANCE", <<me>>, ev.sigma)),
    r |-> DeriveSpendR(me, ev.sigma) ]

\* Mutant: "the bug the condominium found", blindings added modulo FrModulus.
AddOpeningInFr(o, p) == [v |-> o.v + p.v, r |-> FrAdd(o.r, p.r)]

\* Adding openings adds the points they open, so blindings add in the group.
AddOpening(o, p) == [v |-> o.v + p.v, r |-> GroupAdd(o.r, p.r)]

SpendableAfter(me, st, ev) ==
  CASE ev.type = "merge" /\ ev.account = me ->
         AddOpening(st.spendable, st.receiving)
    [] ev.type \in {"withdraw", "transfer"} /\ ev.from = me ->
         OpenSpendable(me, ev)
    [] OTHER -> st.spendable

\* Mutant: a merge leaves the receiving side as it was.
ReceivingKept(me, st, ev) ==
  CASE ev.type = "deposit" /\ ev.to = me ->
         [st.receiving EXCEPT !.v = @ + ev.amount]
    [] ev.type = "transfer" /\ ev.to = me ->
         AddOpening(st.receiving, DecryptIncoming(me, ev))
    [] OTHER -> st.receiving

ReceivingAfter(me, st, ev) ==
  CASE ev.type = "deposit" /\ ev.to = me ->
         [st.receiving EXCEPT !.v = @ + ev.amount]
    [] ev.type = "merge" /\ ev.account = me -> ZeroOpening
    [] ev.type = "transfer" /\ ev.to = me ->
         AddOpening(st.receiving, DecryptIncoming(me, ev))
    [] OTHER -> st.receiving

\* Mutant: only the account's own spends advance lastLedger.
ApplyOwnLedgerOnly(me, st, ev) ==
  [ spendable  |-> SpendableAfter(me, st, ev),
    receiving  |-> ReceivingAfter(me, st, ev),
    lastLedger |-> IF ev.type \in {"withdraw", "transfer"} /\ ev.from = me
                   THEN ev.ledger ELSE st.lastLedger ]

\* The private #apply.  A self-transfer sets the spendable side and credits
\* the receiving side of the same account.
Apply(me, st, ev) ==
  [ spendable  |-> SpendableAfter(me, st, ev),
    receiving  |-> ReceivingAfter(me, st, ev),
    lastLedger |-> IF ev.ledger > st.lastLedger THEN ev.ledger
                                                ELSE st.lastLedger ]

\* ingestEvents folds #apply over a batch; Replay[i] is the state after i.
Replay(me, st, evs) ==
  LET after[i \in 0 .. Len(evs)] ==
        IF i = 0 THEN st ELSE Apply(me, after[i - 1], evs[i])
  IN after

IngestEvents(me, st, evs) == Replay(me, st, evs)[Len(evs)]

\* verifyAgainstChain: do the openings re-commit to the stored points?
CommitOpening(o)      == Commit(o.v, o.r)
Opens(opening, point) == CommitOpening(opening) = point

VerifyAgainstChain(st, onchain) ==
  /\ Opens(st.spendable, onchain.spendableC)
  /\ Opens(st.receiving, onchain.receivingC)

\* What the contract keeps of each account.
Commitments == [Accounts -> [spendableC : Point, receivingC : Point]]

\* Every event tells its readers exactly how the commitments moved.
EventExplains(ev, before, after) ==
  after =
    CASE ev.type = "register" -> before
      [] ev.type = "deposit" ->
           [before EXCEPT ![ev.to].receivingC = PointAdd(@, Commit(ev.amount, 0))]
      [] ev.type = "merge" ->
           [before EXCEPT ![ev.account] =
              [ spendableC |-> PointAdd(@.spendableC, @.receivingC),
                receivingC |-> Commit(0, 0) ]]
      [] ev.type = "withdraw" ->
           [before EXCEPT ![ev.from].spendableC =
              CommitOpening(OpenSpendable(ev.from, ev))]
      [] ev.type = "transfer" ->
           [before EXCEPT
              ![ev.from].spendableC = CommitOpening(OpenSpendable(ev.from, ev)),
              ![ev.to].receivingC =
                PointAdd(@, CommitOpening(DecryptIncoming(ev.to, ev)))]
=============================================================================
