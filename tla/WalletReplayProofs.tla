------------------------- MODULE WalletReplayProofs -------------------------
(***************************************************************************)
(* For every finite set of accounts, every pair of moduli and every digest *)
(* function: WalletInv and FundsInv are invariants of WalletReplay, the    *)
(* properties the model checker checks on two accounts follow from them,   *)
(* and WalletReplay implements PlainToken.                                 *)
(*                                                                         *)
(* The openings: each contract call emits an event that explains its own   *)
(* effect on the commitments (EventExplains); applying an event to         *)
(* openings that were right before it makes them right after it            *)
(* (ApplySound); so replaying a stretch of the log carries a wallet from   *)
(* one place in the log to another (ReplayInPlace), and appending to the   *)
(* log moves nobody (EmitPreserves).                                       *)
(*                                                                         *)
(* The amounts: the accounts add up to the escrow, so no account holds     *)
(* more than there is (SumBounds), no addition passes the group order      *)
(* (AddsUp), every call moves its amount as a number (MovesFunds), the     *)
(* sum changes by what one account changes (SumChanges), and a replayed    *)
(* number is the account's (ApplyHolds).                                   *)
(***************************************************************************)
EXTENDS WalletReplay, StateEngineProofs, SequenceTheorems, FiniteSetTheorems

\* A wallet in place that ingests the log up to a ledger boundary is in place
\* at that boundary.  By induction along the batch: after i events the
\* openings are right at fed + i, and lastLedger is the ledger of event i.
LEMMA ReplayInPlace ==
  ASSUME TypeOK, LogExplained, LogInOrder,
         NEW a \in Accounts, NEW st \in AccountState,
         NEW from \in 0 .. Len(log), InPlace(a, st, from),
         NEW to \in 0 .. ledger - 1, NEW n \in from .. Len(log), Through(n, to)
  PROVE  LET next == IngestEvents(a, st, SubSeq(log, from + 1, n))
         IN  next \in AccountState /\ InPlace(a, next, n)
<1>. DEFINE evs == SubSeq(log, from + 1, n)
            R == Replay(a, st, evs)
            Right(i) == /\ R[i] \in AccountState
                        /\ VerifyAgainstChain(R[i], commits[from + i + 1][a])
                        /\ R[i].lastLedger =
                             IF i = 0 THEN st.lastLedger ELSE log[from + i].ledger
            G == {i \in Nat : i <= Len(evs) => Right(i)}
<1>1. /\ ledger \in Nat /\ Len(log) \in Nat /\ from \in Nat /\ n \in Nat
      /\ st.lastLedger \in Nat
      /\ \A k \in 1 .. Len(log) : log[k] \in ConfidentialEvent
      /\ \A k \in 1 .. Len(log) + 1 : commits[k] \in Commitments
  BY DEF TypeOK, AccountState
<1>2. /\ Len(evs) = n - from
      /\ \A i \in 1 .. n - from : evs[i] = log[from + i]
  <2>1. \A i \in from + 1 .. n : log[i] \in ConfidentialEvent
    BY <1>1
  <2>2. Len(evs) = IF from + 1 <= n THEN n - (from + 1) + 1 ELSE 0
    BY <1>1, <2>1, SubSeqProperties
  <2>3. \A i \in 1 .. n - (from + 1) + 1 : evs[i] = log[from + 1 + i - 1]
    BY <1>1, <2>1, SubSeqProperties
  <2>. HIDE DEF evs
  <2>. QED BY <1>1, <2>2, <2>3
<1>. HIDE DEF evs
<1>3. /\ R[0] = st
      /\ \A i \in 1 .. Len(evs) : R[i] = Apply(a, R[i - 1], evs[i])
  BY <1>1, <1>2, ReplayEquations
<1>. HIDE DEF R
<1>4. 0 \in G
  <2>1. commits[from + 0 + 1] = commits[from + 1]
    BY <1>1
  <2>. QED BY <1>3, <2>1 DEF InPlace
<1>5. ASSUME NEW i \in Nat, i \in G PROVE i + 1 \in G
  <2>. SUFFICES ASSUME i + 1 <= Len(evs) PROVE Right(i + 1)
    OBVIOUS
  <2>1. Right(i)
    BY <1>1, <1>2, <1>5
  <2>. DEFINE k == from + i + 1
              ev == log[k]
  <2>2. /\ k \in 1 .. Len(log) /\ k > from /\ k \in Nat
        /\ from + (i + 1) = k /\ from + (i + 1) + 1 = k + 1
    BY <1>1, <1>2
  <2>3. R[i + 1] = Apply(a, R[i], ev)
    <3>1. i + 1 \in 1 .. Len(evs) /\ i + 1 - 1 = i /\ evs[i + 1] = ev
      BY <1>1, <1>2, <2>2
    <3>. QED BY <1>3, <3>1
  <2>4. ev \in ConfidentialEvent /\ commits[k] \in Commitments
    BY <1>1, <2>2
  <2>5. R[i + 1] \in AccountState
    BY <2>1, <2>3, <2>4, ApplyType
  <2>6. VerifyAgainstChain(R[i + 1], commits[k + 1][a])
    <3>1. EventExplains(ev, commits[k], commits[k + 1])
      BY <2>2 DEF LogExplained
    <3>. QED BY <2>1, <2>3, <2>4, <3>1, ApplySound
  <2>7. R[i].lastLedger <= ev.ledger
    <3>1. CASE i = 0
      <4>1. ev.ledger > st.lastLedger
        BY <2>2 DEF InPlace, Through
      <4>. QED BY <1>1, <2>1, <2>4, <3>1, <4>1, EventTypes
    <3>2. CASE i # 0
      <4>1. from + i \in 1 .. Len(log) /\ from + i <= k
        BY <1>1, <2>2, <3>2
      <4>2. log[from + i].ledger <= ev.ledger
        BY <2>2, <4>1 DEF LogInOrder
      <4>. QED BY <2>1, <3>2, <4>2
    <3>. QED BY <3>1, <3>2
  <2>8. R[i + 1].lastLedger = ev.ledger
    <3>1. R[i].lastLedger \in Nat /\ ev.ledger \in Nat
      BY <2>1, <2>4, EventTypes DEF AccountState
    <3>. QED BY <2>3, <2>7, <3>1 DEF Apply
  <2>. QED BY <2>2, <2>5, <2>6, <2>8
<1>6. Right(n - from)
  <2>1. n - from \in Nat /\ n - from <= Len(evs)
    BY <1>1, <1>2
  <2>2. n - from \in G
    <3>. HIDE DEF G
    <3>. QED BY <1>4, <1>5, <2>1, SetInduction
  <2>. QED BY <2>1, <2>2
<1>7. IngestEvents(a, st, evs) = R[n - from]
  BY <1>2 DEF IngestEvents, R
<1>8. InPlace(a, R[n - from], n)
  <2>1. from + (n - from) + 1 = n + 1 /\ from + (n - from) = n
    BY <1>1
  <2>2. CASE n = from
    <3>1. R[n - from].lastLedger = st.lastLedger
      BY <1>1, <1>6, <2>2
    <3>. QED BY <1>6, <2>1, <2>2, <3>1 DEF InPlace
  <2>3. CASE n # from
    <3>1. /\ R[n - from].lastLedger = log[n].ledger
          /\ n \in 1 .. Len(log)
      BY <1>1, <1>6, <2>1, <2>3
    <3>2. log[n].ledger <= to /\ log[n].ledger \in Nat
      BY <1>1, <3>1, EventTypes DEF Through
    <3>3. Through(n, log[n].ledger)
      <4>1. ASSUME NEW i \in 1 .. n PROVE log[i].ledger <= log[n].ledger
        BY <1>1, <3>1 DEF LogInOrder
      <4>2. ASSUME NEW i \in n + 1 .. Len(log) PROVE log[i].ledger > log[n].ledger
        <5>1. log[i].ledger > to /\ log[i].ledger \in Nat
          BY <1>1, EventTypes DEF Through
        <5>. QED BY <1>1, <3>2, <5>1
      <4>. QED BY <4>1, <4>2 DEF Through
    <3>4. log[n].ledger < ledger
      BY <1>1, <3>2
    <3>. QED BY <1>6, <2>1, <3>1, <3>3, <3>4 DEF InPlace
  <2>. QED BY <2>2, <2>3
<1>. QED BY <1>6, <1>7, <1>8 DEF evs
-----------------------------------------------------------------------------
\* The log only grows at its end and ledgers only close, so whoever is in
\* place stays in place.
LEMMA StaysInPlace ==
  ASSUME TypeOK, NEW a \in Accounts, NEW st \in AccountState,
         NEW n \in 0 .. Len(log), InPlace(a, st, n),
         ledger' \in Nat, ledger <= ledger',
         Len(log') \in Nat, Len(log) <= Len(log'),
         \A i \in 1 .. Len(log) : log'[i] = log[i],
         \A i \in Len(log) + 1 .. Len(log') : log'[i].ledger = ledger,
         \A i \in 1 .. Len(log) + 1 : commits'[i] = commits[i]
  PROVE  n \in 0 .. Len(log') /\ InPlace(a, st, n)'
<1>1. /\ ledger \in Nat /\ Len(log) \in Nat /\ n \in Nat
      /\ st.lastLedger \in Nat /\ st.lastLedger < ledger
  BY DEF TypeOK, AccountState, InPlace
<1>2. n \in 0 .. Len(log') /\ n + 1 \in 1 .. Len(log) + 1
  BY <1>1
<1>3. Through(n, st.lastLedger)'
  <2>1. ASSUME NEW i \in 1 .. n PROVE log'[i].ledger <= st.lastLedger
    <3>1. i \in 1 .. Len(log)
      BY <1>1
    <3>. QED BY <3>1 DEF InPlace, Through
  <2>2. ASSUME NEW i \in n + 1 .. Len(log') PROVE log'[i].ledger > st.lastLedger
    <3>1. CASE i \in n + 1 .. Len(log)
      <4>1. i \in 1 .. Len(log)
        BY <1>1, <3>1
      <4>. QED BY <3>1, <4>1 DEF InPlace, Through
    <3>2. CASE i \in Len(log) + 1 .. Len(log')
      BY <1>1, <3>2
    <3>. QED BY <1>1, <3>1, <3>2
  <2>. QED BY <2>1, <2>2 DEF Through
<1>4. VerifyAgainstChain(st, commits'[n + 1][a])
  BY <1>2 DEF InPlace
<1>. QED BY <1>1, <1>2, <1>3, <1>4 DEF InPlace

\* A contract call whose event explains it preserves the whole invariant.
LEMMA EmitPreserves ==
  ASSUME WalletInv, NEW ev \in ConfidentialEvent, ev.ledger = ledger,
         NEW after \in Commitments, EventExplains(ev, onchain, after),
         Emit(ev, after), registered' \subseteq Accounts, escrow' \in Int
  PROVE  WalletInv'
<1>. USE DEF WalletInv
<1>1. /\ log' = Append(log, ev) /\ commits' = Append(commits, after)
      /\ ledger' = ledger /\ state' = state /\ fed' = fed /\ saved' = saved
  BY DEF Emit, walletVars
<1>2. /\ log \in Seq(ConfidentialEvent) /\ commits \in Seq(Commitments)
      /\ Len(commits) = Len(log) + 1 /\ Len(log) \in Nat /\ ledger \in Nat \ {0}
  BY DEF TypeOK
<1>3. /\ log' \in Seq(ConfidentialEvent) /\ Len(log') = Len(log) + 1
      /\ \A i \in 1 .. Len(log) : log'[i] = log[i]
      /\ log'[Len(log) + 1] = ev
  BY <1>1, <1>2, AppendProperties
<1>4. /\ commits' \in Seq(Commitments) /\ Len(commits') = Len(log) + 2
      /\ \A i \in 1 .. Len(log) + 1 : commits'[i] = commits[i]
      /\ commits'[Len(log) + 2] = after
  BY <1>1, <1>2, AppendProperties
<1>5. TypeOK'
  <2>1. \A a \in Accounts : fed[a] \in Nat /\ fed[a] <= Len(log')
    BY <1>2, <1>3 DEF TypeOK
  <2>. QED BY <1>1, <1>2, <1>3, <1>4, <2>1 DEF TypeOK
<1>6. LogExplained'
  <2>1. ASSUME NEW k \in 1 .. Len(log')
        PROVE  EventExplains(log'[k], commits'[k], commits'[k + 1])
    <3>1. CASE k \in 1 .. Len(log)
      <4>1. k \in 1 .. Len(log) + 1 /\ k + 1 \in 1 .. Len(log) + 1
        BY <1>2, <3>1
      <4>. QED BY <1>3, <1>4, <3>1, <4>1 DEF LogExplained
    <3>2. CASE k = Len(log) + 1
      <4>1. k \in 1 .. Len(log) + 1 /\ k + 1 = Len(log) + 2
        BY <1>2, <3>2
      <4>. QED BY <1>3, <1>4, <3>2, <4>1 DEF onchain
    <3>. QED BY <1>2, <1>3, <3>1, <3>2
  <2>2. (\A k \in 1 .. Len(log) : EventExplains(log[k], commits[k], commits[k + 1]))'
    BY <2>1 DEF EventExplains
  <2>. QED BY <2>2 DEF LogExplained
<1>7. LogInOrder'
  <2>1. ASSUME NEW k \in 1 .. Len(log') PROVE log'[k].ledger \in 1 .. ledger
    BY <1>2, <1>3 DEF LogInOrder
  <2>2. ASSUME NEW j \in 1 .. Len(log'), NEW k \in 1 .. Len(log'), j <= k
        PROVE  log'[j].ledger <= log'[k].ledger
    <3>1. CASE k = Len(log) + 1
      BY <1>2, <1>3, <2>1, <3>1
    <3>2. CASE k \in 1 .. Len(log)
      <4>1. j \in 1 .. Len(log)
        BY <1>2, <2>2, <3>2
      <4>. QED BY <1>3, <2>2, <3>2, <4>1 DEF LogInOrder
    <3>. QED BY <1>2, <1>3, <3>1, <3>2
  <2>. QED BY <1>1, <2>1, <2>2 DEF LogInOrder
<1>8. WalletsInPlace'
  <2>1. /\ ledger' \in Nat /\ ledger <= ledger' /\ Len(log') \in Nat
        /\ Len(log) <= Len(log')
        /\ \A i \in Len(log) + 1 .. Len(log') : log'[i].ledger = ledger
    BY <1>1, <1>2, <1>3
  <2>2. ASSUME NEW a \in Accounts, NEW st \in AccountState,
               NEW n \in 0 .. Len(log), InPlace(a, st, n)
        PROVE  n \in 0 .. Len(log') /\ InPlace(a, st, n)'
    BY <1>3, <1>4, <2>1, <2>2, StaysInPlace
  <2>3. ASSUME NEW a \in Accounts
        PROVE  /\ InPlace(a, state[a], fed[a])'
               /\ (\E n \in 0 .. Len(log) : InPlace(a, saved[a], n))'
    <3>1. state[a] \in AccountState /\ saved[a] \in AccountState /\ fed[a] \in 0 .. Len(log)
      BY DEF TypeOK
    <3>2. InPlace(a, state[a], fed[a])
      BY DEF WalletsInPlace
    <3>3. PICK n \in 0 .. Len(log) : InPlace(a, saved[a], n)
      BY DEF WalletsInPlace
    <3>4. InPlace(a, state[a], fed[a])'
      <4>. DEFINE st == state[a]
                  m == fed[a]
      <4>1. st' = st /\ m' = m
        BY <1>1
      <4>2. st \in AccountState /\ m \in 0 .. Len(log) /\ InPlace(a, st, m)
        BY <3>1, <3>2
      <4>. QED BY <2>2, <4>1, <4>2 DEF InPlace, Through
    <3>5. n \in 0 .. Len(log') /\ InPlace(a, saved[a], n)'
      BY <1>1, <2>2, <3>1, <3>3 DEF InPlace, Through
    <3>. QED BY <3>4, <3>5
  <2>. QED BY <2>3 DEF WalletsInPlace
<1>. QED BY <1>5, <1>6, <1>7, <1>8
-----------------------------------------------------------------------------
\* The commitments a call leaves behind are commitments.
LEMMA OnchainType ==
  ASSUME TypeOK
  PROVE  onchain \in Commitments
<1>1. Len(log) + 1 \in 1 .. Len(commits)
  BY DEF TypeOK
<1>. QED BY <1>1 DEF TypeOK, onchain

\* A registration preserves the invariant.
LEMMA RegisterStep ==
  ASSUME WalletInv, NEW a \in Accounts, Register(a)
  PROVE  WalletInv'
<1>. DEFINE ev == [type |-> "register", ledger |-> ledger, account |-> a]
<1>1. ev \in ConfidentialEvent /\ ev.ledger = ledger
  BY DEF WalletInv, TypeOK, ConfidentialEvent, RegisterEvent
<1>2. onchain \in Commitments
  BY OnchainType DEF WalletInv
<1>3. EventExplains(ev, onchain, onchain)
  BY DEF EventExplains
<1>4. Emit(ev, onchain) /\ registered' \subseteq Accounts /\ escrow' \in Int
  BY DEF Register, WalletInv, TypeOK
<1>. HIDE DEF ev
<1>. QED BY <1>1, <1>2, <1>3, <1>4, EmitPreserves

\* A deposit preserves the invariant.
LEMMA DepositStep ==
  ASSUME WalletInv, NEW a \in Accounts, NEW amount \in DepositAmounts, Deposit(a, amount)
  PROVE  WalletInv'
<1>. DEFINE ev == [type |-> "deposit", ledger |-> ledger, to |-> a, amount |-> amount]
            after == [onchain EXCEPT ![a].receivingC = PointAdd(@, Commit(amount, 0))]
<1>1. ev \in ConfidentialEvent /\ ev.ledger = ledger /\ amount \in Int
  BY WalletReplayAssumption DEF WalletInv, TypeOK, ConfidentialEvent, DepositEvent
<1>2. onchain \in Commitments
  BY OnchainType DEF WalletInv
<1>3. after \in Commitments
  <2>1. onchain[a].receivingC \in Point
    BY <1>2 DEF Commitments
  <2>2. PointAdd(onchain[a].receivingC, Commit(amount, 0)) \in Point
    BY <1>1, <2>1, CommitType, PointAddType
  <2>. QED BY <1>2, <2>2 DEF Commitments
<1>4. EventExplains(ev, onchain, after)
  BY DEF EventExplains
<1>5. Emit(ev, after) /\ registered' \subseteq Accounts /\ escrow' \in Int
  BY <1>1 DEF Deposit, WalletInv, TypeOK
<1>. HIDE DEF ev, after
<1>. QED BY <1>1, <1>3, <1>4, <1>5, EmitPreserves

\* A merge preserves the invariant.
LEMMA MergeStep ==
  ASSUME WalletInv, NEW a \in Accounts, Merge(a)
  PROVE  WalletInv'
<1>. DEFINE ev == [type |-> "merge", ledger |-> ledger, account |-> a]
            after == [onchain EXCEPT ![a] =
                        [ spendableC |-> PointAdd(@.spendableC, @.receivingC),
                          receivingC |-> Commit(0, 0) ]]
<1>1. ev \in ConfidentialEvent /\ ev.ledger = ledger
  BY DEF WalletInv, TypeOK, ConfidentialEvent, MergeEvent
<1>2. onchain \in Commitments
  BY OnchainType DEF WalletInv
<1>3. after \in Commitments
  <2>1. onchain[a].receivingC \in Point /\ onchain[a].spendableC \in Point
    BY <1>2 DEF Commitments
  <2>2. PointAdd(onchain[a].spendableC, onchain[a].receivingC) \in Point
    BY <2>1, PointAddType
  <2>3. Commit(0, 0) \in Point
    BY CommitType
  <2>. QED BY <1>2, <2>2, <2>3 DEF Commitments
<1>4. EventExplains(ev, onchain, after)
  BY DEF EventExplains
<1>5. Emit(ev, after) /\ registered' \subseteq Accounts /\ escrow' \in Int
  BY DEF Merge, WalletInv, TypeOK
<1>. HIDE DEF ev, after
<1>. QED BY <1>1, <1>3, <1>4, <1>5, EmitPreserves

\* What the proof guarantees about an accepted spend, in terms of the event:
\* its author reads the new spendable opening back out of it.
LEMMA SpendExplained ==
  ASSUME NEW a \in Accounts, NEW w, NEW amount \in Int, w.inputs.v \in Int,
         NEW ev, ev.sigma = w.payload.sigma, ev.bTilde = w.payload.bTilde,
         ev.sigma \in Sigmas, SpendAccepted(a, w, amount)
  PROVE  /\ w.payload.cSpendNew = CommitOpening(OpenSpendable(a, ev))
         /\ w.payload.cSpendNew \in Point
         /\ ev.bTilde \in Fr
<1>. DEFINE vNew == w.inputs.v - amount
            mask == Digest("ENCRYPTED_BALANCE", <<a>>, ev.sigma)
<1>1. /\ vNew \in 0 .. MaxValue
      /\ w.payload.cSpendNew = Commit(vNew, DeriveSpendR(a, ev.sigma))
      /\ ev.bTilde = FrAdd(vNew, mask)
  BY DEF SpendAccepted, EncryptBalance
<1>2. mask \in Fr /\ DeriveSpendR(a, ev.sigma) \in Fr
  <2>1. /\ "ENCRYPTED_BALANCE" \in Domain /\ "SPEND_RANDOMNESS" \in Domain
        /\ <<a>> \in Secret
    BY DEF Domain, Secret
  <2>. QED BY <2>1, DigestType DEF DeriveSpendR
<1>3. vNew \in Fr
  BY <1>1, WitnessAssumption, FieldAssumption DEF Fr
<1>. HIDE DEF vNew, mask
<1>4. ev.bTilde \in Fr /\ FrMod(ev.bTilde - mask) = vNew
  BY <1>1, <1>2, <1>3, Unmask
<1>5. CommitOpening(OpenSpendable(a, ev)) = Commit(vNew, DeriveSpendR(a, ev.sigma))
  BY <1>4 DEF OpenSpendable, CommitOpening, mask
<1>6. Commit(vNew, DeriveSpendR(a, ev.sigma)) \in Point
  BY <1>2, <1>3, FrInFp, CommitType
<1>. QED BY <1>1, <1>4, <1>5, <1>6

\* A withdrawal preserves the invariant.
LEMMA WithdrawStep ==
  ASSUME WalletInv, NEW a \in Accounts, NEW amount \in 0 .. MaxValue,
         NEW sigma \in Sigmas, Withdraw(a, amount, sigma)
  PROVE  WalletInv'
<1>. DEFINE w == BuildWithdrawWitness(a, state[a].spendable, amount, sigma)
            ev == [ type |-> "withdraw", ledger |-> ledger, from |-> a,
                    sigma |-> w.payload.sigma, bTilde |-> w.payload.bTilde ]
            after == [onchain EXCEPT ![a].spendableC = w.payload.cSpendNew]
<1>1. amount \in Int /\ ledger \in Nat /\ escrow \in Int
  BY WitnessAssumption, FieldAssumption DEF WalletInv, TypeOK, Fr
<1>2. w.inputs.v \in Int /\ w.payload.sigma = sigma
  <2>1. state[a].spendable.v \in Int
    BY DEF WalletInv, TypeOK, AccountState, Opening
  <2>2. FieldIn(state[a].spendable.v) \in Int
    BY <2>1, FrModType, FrInFp DEF FieldIn, FrMod
  <2>. QED BY <2>2 DEF BuildWithdrawWitness
<1>3. SpendAccepted(a, w, amount) /\ Emit(ev, after)
      /\ registered' = registered /\ escrow' = escrow - amount
  BY DEF Withdraw
<1>4. onchain \in Commitments
  BY OnchainType DEF WalletInv
<1>. HIDE DEF w
<1>5. /\ ev.sigma = w.payload.sigma /\ ev.bTilde = w.payload.bTilde /\ ev.sigma = sigma
      /\ ev.from = a /\ ev.type = "withdraw" /\ ev.ledger = ledger
  BY <1>2
<1>6. /\ w.payload.cSpendNew = CommitOpening(OpenSpendable(a, ev))
      /\ w.payload.cSpendNew \in Point
      /\ ev.bTilde \in Fr
  <2>. HIDE DEF ev
  <2>. QED BY <1>1, <1>2, <1>3, <1>5, SpendExplained
<1>7. ev \in ConfidentialEvent
  BY <1>1, <1>5, <1>6 DEF ConfidentialEvent, WithdrawEvent
<1>8. after \in Commitments
  BY <1>4, <1>6 DEF Commitments
<1>9. EventExplains(ev, onchain, after)
  <2>. HIDE DEF ev
  <2>. QED BY <1>5, <1>6 DEF EventExplains
<1>10. registered' \subseteq Accounts /\ escrow' \in Int
  BY <1>1, <1>3 DEF WalletInv, TypeOK
<1>. HIDE DEF ev, after
<1>. QED BY <1>3, <1>5, <1>7, <1>8, <1>9, <1>10, EmitPreserves

\* A transfer preserves the invariant.
LEMMA TransferStep ==
  ASSUME WalletInv, NEW a \in Accounts, NEW b \in Accounts,
         NEW amount \in 0 .. MaxValue, NEW sigma \in Sigmas,
         Transfer(a, b, amount, sigma)
  PROVE  WalletInv'
<1>. DEFINE w == BuildTransferWitness(a, state[a].spendable, b, amount, sigma)
            p == w.payload
            ev == [ type |-> "transfer", ledger |-> ledger, from |-> a, to |-> b,
                    rE |-> p.rE, vTilde |-> p.vTilde, sigma |-> p.sigma,
                    bTilde |-> p.bTilde ]
            spent == [onchain EXCEPT ![a].spendableC = p.cSpendNew]
            after == [onchain EXCEPT ![a].spendableC = p.cSpendNew,
                                     ![b].receivingC = PointAdd(@, p.cTx)]
            s == Ecdh(b, p.rE)
            mask == Digest("TX_AMOUNT", s, sigma)
            blind == DeriveTxBlind(s, sigma)
<1>1. amount \in Int /\ amount \in Fr /\ ledger \in Nat /\ escrow \in Int
  BY WitnessAssumption, FieldAssumption DEF WalletInv, TypeOK, Fr
<1>2. w.inputs.v \in Int /\ p.sigma = sigma /\ p.rE = <<a, sigma>>
  <2>1. state[a].spendable.v \in Int
    BY DEF WalletInv, TypeOK, AccountState, Opening
  <2>2. FieldIn(state[a].spendable.v) \in Int
    BY <2>1, FrModType, FrInFp DEF FieldIn, FrMod
  <2>. QED BY <2>2 DEF BuildTransferWitness, EphemeralRE
<1>3. /\ SpendAccepted(a, w, amount) /\ Emit(ev, after)
      /\ p.cTx = Commit(amount, blind) /\ p.vTilde = FrAdd(amount, mask)
      /\ registered' = registered /\ escrow' = escrow
  <2>1. TransferAccepted(a, b, w, amount)
    BY DEF Transfer
  <2>2. SpendAccepted(a, w, amount) /\ p.cTx = Commit(amount, blind)
        /\ p.vTilde = FrAdd(amount, mask)
    BY <1>2, <2>1 DEF TransferAccepted, EncryptAmount
  <2>3. Emit(ev, after) /\ registered' = registered /\ escrow' = escrow
    BY DEF Transfer
  <2>. QED BY <2>2, <2>3
<1>4. onchain \in Commitments
  BY OnchainType DEF WalletInv
<1>. HIDE DEF w
<1>5. s = <<b, a, sigma>> /\ s \in Secret
  <2>1. p.rE[1] = a /\ p.rE[2] = sigma
    BY <1>2
  <2>2. s = <<b, a, sigma>>
    BY <2>1 DEF Ecdh
  <2>. QED BY <2>2, SecretType
<1>6. mask \in Fr /\ blind \in Fr
  <2>1. "TX_AMOUNT" \in Domain /\ "TX_BLINDING" \in Domain
    BY DEF Domain
  <2>. HIDE DEF s
  <2>. QED BY <1>5, <2>1, DigestType DEF DeriveTxBlind
<1>7. /\ ev.type = "transfer" /\ ev.ledger = ledger /\ ev.from = a /\ ev.to = b
      /\ ev.rE = p.rE /\ ev.vTilde = p.vTilde /\ ev.sigma = p.sigma /\ ev.sigma = sigma
      /\ ev.bTilde = p.bTilde
  BY <1>2
<1>8. /\ p.cSpendNew = CommitOpening(OpenSpendable(a, ev)) /\ p.cSpendNew \in Point
      /\ ev.bTilde \in Fr
  <2>. HIDE DEF ev
  <2>. QED BY <1>1, <1>2, <1>3, <1>7, SpendExplained
<1>9. ev.vTilde \in Fr /\ FrMod(ev.vTilde - mask) = amount
  <2>. HIDE DEF ev, mask
  <2>. QED BY <1>1, <1>3, <1>6, <1>7, Unmask
<1>10. p.cTx = CommitOpening(DecryptIncoming(b, ev)) /\ p.cTx \in Point
  <2>1. DecryptIncoming(b, ev) = [v |-> amount, r |-> blind]
    <3>. HIDE DEF ev
    <3>. QED BY <1>7, <1>9 DEF DecryptIncoming
  <2>2. Commit(amount, blind) \in Point
    <3>. HIDE DEF blind
    <3>. QED BY <1>1, <1>6, FrInFp, CommitType
  <2>. QED BY <1>3, <2>1, <2>2 DEF CommitOpening
<1>11. ev \in ConfidentialEvent
  <2>1. p.rE \in Accounts \X Sigmas
    BY <1>2
  <2>. QED BY <1>1, <1>7, <1>8, <1>9, <2>1 DEF ConfidentialEvent, TransferEvent
<1>12. after \in Commitments
  <2>1. spent \in Commitments
    BY <1>4, <1>8 DEF Commitments
  <2>2. spent[b].receivingC \in Point
    BY <2>1 DEF Commitments
  <2>3. PointAdd(spent[b].receivingC, p.cTx) \in Point
    BY <1>10, <2>2, PointAddType
  <2>4. after = [spent EXCEPT ![b].receivingC = PointAdd(@, p.cTx)]
    OBVIOUS
  <2>. HIDE DEF spent, after
  <2>. QED BY <2>1, <2>3, <2>4 DEF Commitments
<1>13. EventExplains(ev, onchain, after)
  <2>. HIDE DEF ev
  <2>. QED BY <1>7, <1>8, <1>10 DEF EventExplains
<1>14. registered' \subseteq Accounts /\ escrow' \in Int
  BY <1>1, <1>3 DEF WalletInv, TypeOK
<1>. HIDE DEF ev, after
<1>. QED BY <1>3, <1>7, <1>11, <1>12, <1>13, <1>14, EmitPreserves

\* Closing a ledger preserves the invariant.
LEMMA CloseLedgerStep ==
  ASSUME WalletInv, CloseLedger
  PROVE  WalletInv'
<1>1. /\ ledger' = ledger + 1 /\ log' = log /\ commits' = commits
      /\ registered' = registered /\ escrow' = escrow
      /\ state' = state /\ fed' = fed /\ saved' = saved
  BY DEF CloseLedger, walletVars
<1>2. /\ ledger \in Nat \ {0} /\ Len(log) \in Nat /\ TypeOK
      /\ \A k \in 1 .. Len(log) : log[k].ledger \in 1 .. ledger
  BY DEF WalletInv, TypeOK, LogInOrder
<1>3. TypeOK'
  BY <1>1, <1>2 DEF TypeOK
<1>4. LogExplained'
  BY <1>1 DEF WalletInv, LogExplained, EventExplains
<1>5. LogInOrder'
  <2>1. \A k \in 1 .. Len(log) : log[k].ledger \in 1 .. ledger + 1
    BY <1>2
  <2>. QED BY <1>1, <2>1 DEF WalletInv, LogInOrder
<1>6. \A a \in Accounts, st \in AccountState, n \in 0 .. Len(log) :
        InPlace(a, st, n) => InPlace(a, st, n)'
  <2>1. ASSUME NEW a \in Accounts, NEW st \in AccountState, NEW n \in 0 .. Len(log),
               InPlace(a, st, n)
        PROVE  InPlace(a, st, n)'
    BY <1>1, <1>2, <2>1, StaysInPlace
  <2>. QED BY <2>1
<1>7. WalletsInPlace'
  <2>1. ASSUME NEW a \in Accounts
        PROVE  /\ InPlace(a, state[a], fed[a])'
               /\ (\E n \in 0 .. Len(log) : InPlace(a, saved[a], n))'
    <3>1. state[a] \in AccountState /\ saved[a] \in AccountState /\ fed[a] \in 0 .. Len(log)
      BY <1>2 DEF TypeOK
    <3>2. InPlace(a, state[a], fed[a])
      BY DEF WalletInv, WalletsInPlace
    <3>3. PICK n \in 0 .. Len(log) : InPlace(a, saved[a], n)
      BY DEF WalletInv, WalletsInPlace
    <3>4. InPlace(a, state[a], fed[a])'
      BY <1>1, <1>6, <3>1, <3>2 DEF InPlace, Through
    <3>5. InPlace(a, saved[a], n)'
      BY <1>1, <1>6, <3>1, <3>3 DEF InPlace, Through
    <3>. QED BY <1>1, <3>4, <3>5
  <2>. QED BY <2>1 DEF WalletsInPlace
<1>. QED BY <1>3, <1>4, <1>5, <1>7 DEF WalletInv

\* One wallet's memory and store change; the others' are as before.
LEMMA IngestStep ==
  ASSUME WalletInv, NEW a \in Accounts, Ingest(a)
  PROVE  WalletInv'
<1>1. PICK to \in 0 .. ledger - 1, n \in fed[a] .. Len(log) :
        /\ Through(n, to)
        /\ LET next == IngestEvents(a, state[a], SubSeq(log, fed[a] + 1, n)) IN
           /\ state' = [state EXCEPT ![a] = next]
           /\ saved' \in {saved} \cup
                         {[saved EXCEPT ![b] = next] : b \in Stored \cap {a}}
        /\ fed' = [fed EXCEPT ![a] = n]
        /\ UNCHANGED chainVars
  BY DEF Ingest
<1>. DEFINE next == IngestEvents(a, state[a], SubSeq(log, fed[a] + 1, n))
<1>2. /\ TypeOK /\ fed[a] \in 0 .. Len(log) /\ state[a] \in AccountState
      /\ Len(log) \in Nat /\ n \in 0 .. Len(log)
  BY DEF WalletInv, TypeOK
<1>3. next \in AccountState /\ InPlace(a, next, n)
  BY <1>1, <1>2, ReplayInPlace DEF WalletInv, WalletsInPlace
<1>. HIDE DEF next
<1>4. /\ state' = [state EXCEPT ![a] = next]
      /\ saved' = saved \/ saved' = [saved EXCEPT ![a] = next]
      /\ fed' = [fed EXCEPT ![a] = n]
      /\ ledger' = ledger /\ log' = log /\ commits' = commits
      /\ registered' = registered /\ escrow' = escrow
  BY <1>1 DEF next, chainVars
<1>5. TypeOK'
  <2>1. n \in Nat /\ n <= Len(log)
    BY <1>2
  <2>. QED BY <1>2, <1>3, <1>4, <2>1 DEF TypeOK
<1>6. LogExplained' /\ LogInOrder'
  BY <1>4 DEF WalletInv, LogExplained, EventExplains, LogInOrder
<1>7. WalletsInPlace'
  <2>1. ASSUME NEW b \in Accounts
        PROVE  /\ InPlace(b, state'[b], fed'[b])
               /\ \E m \in 0 .. Len(log) : InPlace(b, saved'[b], m)
    <3>1. CASE b = a
      <4>1. state'[a] = next /\ fed'[a] = n /\ saved'[a] \in {saved[a], next}
        BY <1>2, <1>4 DEF TypeOK
      <4>. QED BY <1>2, <1>3, <3>1, <4>1 DEF WalletInv, WalletsInPlace
    <3>2. CASE b # a
      <4>1. state'[b] = state[b] /\ fed'[b] = fed[b] /\ saved'[b] = saved[b]
        BY <1>2, <1>4, <3>2 DEF TypeOK
      <4>. QED BY <4>1 DEF WalletInv, WalletsInPlace
    <3>. QED BY <3>1, <3>2
  <2>. QED BY <1>4, <2>1 DEF WalletsInPlace, InPlace, Through
<1>. QED BY <1>5, <1>6, <1>7 DEF WalletInv

\* A restart preserves the invariant: the stored state is in place.
LEMMA RestartStep ==
  ASSUME WalletInv, NEW a \in Accounts, Restart(a)
  PROVE  WalletInv'
<1>1. PICK n \in 0 .. Len(log) :
        /\ Through(n, saved[a].lastLedger)
        /\ state' = [state EXCEPT ![a] = saved[a]]
        /\ fed' = [fed EXCEPT ![a] = n]
        /\ UNCHANGED <<chainVars, saved>>
  BY DEF Restart
<1>2. /\ ledger' = ledger /\ log' = log /\ commits' = commits
      /\ registered' = registered /\ escrow' = escrow /\ saved' = saved
  BY <1>1 DEF chainVars
<1>3. /\ TypeOK /\ Len(log) \in Nat /\ saved[a] \in AccountState
      /\ saved[a].lastLedger \in Nat
      /\ \A k \in 1 .. Len(log) : log[k].ledger \in Nat
  BY EventTypes DEF WalletInv, TypeOK, AccountState, LogInOrder
<1>4. InPlace(a, saved[a], n)
  <2>1. PICK m \in 0 .. Len(log) : InPlace(a, saved[a], m)
    BY DEF WalletInv, WalletsInPlace
  <2>2. m = n
    <3>. DEFINE l == saved[a].lastLedger
    <3>1. ASSUME m < n PROVE FALSE
      <4>1. n \in m + 1 .. Len(log) /\ n \in 1 .. n /\ n \in 1 .. Len(log)
        BY <1>3, <3>1
      <4>2. log[n].ledger > l /\ log[n].ledger <= l
        BY <1>1, <2>1, <4>1 DEF InPlace, Through
      <4>. QED BY <1>3, <4>1, <4>2
    <3>2. ASSUME n < m PROVE FALSE
      <4>1. m \in n + 1 .. Len(log) /\ m \in 1 .. m /\ m \in 1 .. Len(log)
        BY <1>3, <3>2
      <4>2. log[m].ledger > l /\ log[m].ledger <= l
        BY <1>1, <2>1, <4>1 DEF InPlace, Through
      <4>. QED BY <1>3, <4>1, <4>2
    <3>. QED BY <1>3, <3>1, <3>2
  <2>. QED BY <2>1, <2>2
<1>5. TypeOK'
  <2>1. n \in Nat /\ n <= Len(log)
    BY <1>3
  <2>. QED BY <1>1, <1>2, <1>3, <2>1 DEF TypeOK
<1>6. LogExplained' /\ LogInOrder'
  BY <1>2 DEF WalletInv, LogExplained, EventExplains, LogInOrder
<1>7. WalletsInPlace'
  <2>1. ASSUME NEW b \in Accounts
        PROVE  /\ InPlace(b, state'[b], fed'[b])
               /\ \E m \in 0 .. Len(log) : InPlace(b, saved'[b], m)
    <3>1. CASE b = a
      <4>1. state'[a] = saved[a] /\ fed'[a] = n
        BY <1>1, <1>3 DEF TypeOK
      <4>. QED BY <1>2, <1>4, <3>1, <4>1
    <3>2. CASE b # a
      <4>1. state'[b] = state[b] /\ fed'[b] = fed[b] /\ saved'[b] = saved[b]
        BY <1>1, <1>2, <1>3, <3>2 DEF TypeOK
      <4>. QED BY <4>1 DEF WalletInv, WalletsInPlace
    <3>. QED BY <3>1, <3>2
  <2>. QED BY <1>2, <2>1 DEF WalletsInPlace, InPlace, Through
<1>. QED BY <1>5, <1>6, <1>7 DEF WalletInv

\* The invariant holds before the first event.
LEMMA WalletInvInit ==
  ASSUME Init
  PROVE  WalletInv
<1>1. Commit(0, 0) \in Point /\ ZeroOpening \in Opening
  BY CommitType, OpeningType
<1>2. FreshState \in AccountState
  BY <1>1 DEF FreshState, AccountState
<1>3. Len(log) = 0 /\ Len(commits) = 1 /\ log \in Seq(ConfidentialEvent)
  BY DEF Init
<1>4. commits[1] \in Commitments /\ commits \in Seq(Commitments)
  <2>1. [a \in Accounts |-> [ spendableC |-> Commit(0, 0),
                              receivingC |-> Commit(0, 0) ]] \in Commitments
    BY <1>1 DEF Commitments
  <2>. QED BY <2>1 DEF Init
<1>5. TypeOK
  BY <1>2, <1>3, <1>4, WalletReplayAssumption DEF Init, TypeOK
<1>6. LogExplained /\ LogInOrder
  BY <1>3 DEF LogExplained, LogInOrder
<1>7. WalletsInPlace
  <2>1. ASSUME NEW a \in Accounts PROVE InPlace(a, FreshState, 0)
    <3>1. Through(0, 0)
      BY <1>3 DEF Through
    <3>2. VerifyAgainstChain(FreshState, commits[0 + 1][a])
      BY DEF Init, VerifyAgainstChain, Opens, CommitOpening, FreshState, ZeroOpening
    <3>. QED BY <3>1, <3>2 DEF InPlace, FreshState, Init
  <2>. QED BY <1>3, <2>1 DEF Init, WalletsInPlace
<1>. QED BY <1>5, <1>6, <1>7 DEF WalletInv

\* Every step preserves the invariant.
LEMMA WalletInvStep ==
  ASSUME WalletInv, [Next]_vars
  PROVE  WalletInv'
<1>1. CASE UNCHANGED vars
  BY <1>1 DEF vars, chainVars, walletVars, WalletInv, TypeOK, LogExplained,
              EventExplains, LogInOrder, WalletsInPlace, InPlace, Through
<1>2. CASE CloseLedger
  BY <1>2, CloseLedgerStep
<1>3. ASSUME NEW a \in Accounts, Register(a) PROVE WalletInv'
  BY <1>3, RegisterStep
<1>4. ASSUME NEW a \in Accounts, NEW amount \in DepositAmounts, Deposit(a, amount)
      PROVE  WalletInv'
  BY <1>4, DepositStep
<1>5. ASSUME NEW a \in Accounts, Merge(a) PROVE WalletInv'
  BY <1>5, MergeStep
<1>6. ASSUME NEW a \in Accounts, NEW amount \in 0 .. MaxValue, NEW sigma \in Sigmas,
             Withdraw(a, amount, sigma)
      PROVE  WalletInv'
  BY <1>6, WithdrawStep
<1>7. ASSUME NEW a \in Accounts, NEW amount \in 0 .. MaxValue, NEW sigma \in Sigmas,
             NEW b \in Accounts, Transfer(a, b, amount, sigma)
      PROVE  WalletInv'
  BY <1>7, TransferStep
<1>8. ASSUME NEW a \in Accounts, Ingest(a) PROVE WalletInv'
  BY <1>8, IngestStep
<1>9. ASSUME NEW a \in Accounts, Restart(a) PROVE WalletInv'
  BY <1>9, RestartStep
<1>. QED BY <1>1, <1>2, <1>3, <1>4, <1>5, <1>6, <1>7, <1>8, <1>9 DEF Next

\* The inductive invariant holds throughout: engine.ts, fed by what
\* transfer.ts and withdraw.ts build, never leaves its place in the log.
THEOREM Invariance == Spec => []WalletInv
<1>1. Init => WalletInv
  BY WalletInvInit
<1>2. WalletInv /\ [Next]_vars => WalletInv'
  BY WalletInvStep
<1>. QED BY <1>1, <1>2, PTL DEF Spec

\* Every event stays decodable and every blinding canonical in the group.
THEOREM TypeCorrect == Spec => []TypeOK
<1>1. WalletInv => TypeOK
  BY DEF WalletInv
<1>. QED BY <1>1, Invariance, PTL

\* verifyAgainstChain is ok at the position of the log an engine has reached,
\* for any history of deposits, transfers, merges, spends and restarts.
THEOREM ReplayCorrect == Spec => []ReplayMatchesChain
<1>1. WalletInv => ReplayMatchesChain
  BY DEF WalletInv, WalletsInPlace, InPlace, ReplayMatchesChain
<1>. QED BY <1>1, Invariance, PTL

\* Resuming from the store's lastLedger neither skips nor repeats an event,
\* although saves are never awaited and may be lost.
THEOREM ResumeCorrect == Spec => []SavedStateResumes
<1>1. WalletInv => SavedStateResumes
  BY DEF WalletInv, WalletsInPlace, SavedStateResumes
<1>. QED BY <1>1, Invariance, PTL

\* A spend event alone opens the spendable commitment it left, as the engine's
\* header promises.
THEOREM SpendEventsSelfSufficient == Spec => []SpendEventsOpen
<1>1. WalletInv => SpendEventsOpen
  <2>. SUFFICES ASSUME WalletInv, NEW i \in 1 .. Len(log),
                       log[i].type \in {"withdraw", "transfer"}
                PROVE  Opens(OpenSpendable(log[i].from, log[i]),
                             commits[i + 1][log[i].from].spendableC)
    BY DEF SpendEventsOpen
  <2>. DEFINE ev == log[i]
              before == commits[i]
              after == commits[i + 1]
              spent == CommitOpening(OpenSpendable(ev.from, ev))
  <2>1. /\ ev \in ConfidentialEvent /\ before \in Commitments
        /\ EventExplains(ev, before, after)
    <3>1. Len(log) \in Nat /\ i \in 1 .. Len(commits)
      BY DEF WalletInv, TypeOK
    <3>. QED BY <3>1 DEF WalletInv, TypeOK, LogExplained
  <2>2. ev.from \in Accounts
    BY <2>1, EventTypes DEF WithdrawEvent, TransferEvent
  <2>. HIDE DEF ev, before, after
  <2>3. after[ev.from].spendableC = spent
    <3>1. CASE ev.type = "withdraw"
      <4>1. after = [before EXCEPT ![ev.from].spendableC = spent]
        BY <2>1, <3>1 DEF EventExplains
      <4>. QED BY <2>1, <2>2, <4>1 DEF Commitments
    <3>2. CASE ev.type = "transfer"
      <4>1. after = [before EXCEPT
                       ![ev.from].spendableC = spent,
                       ![ev.to].receivingC =
                         PointAdd(@, CommitOpening(DecryptIncoming(ev.to, ev)))]
        BY <2>1, <3>2 DEF EventExplains
      <4>2. ev.to \in Accounts
        BY <2>1, <3>2, EventTypes DEF TransferEvent
      <4>. HIDE DEF spent
      <4>. QED BY <2>1, <2>2, <4>1, <4>2 DEF Commitments
    <3>. QED BY <3>1, <3>2 DEF ev
  <2>. QED BY <2>3 DEF Opens, ev, after
<1>. QED BY <1>1, Invariance, PTL

\* A wallet that has caught up builds witnesses the circuits accept.
THEOREM CaughtUpCanSpend == Spec => []CaughtUpSpendsAccepted
<1>1. WalletInv => CaughtUpSpendsAccepted
  <2>. SUFFICES
         ASSUME WalletInv, NEW a \in registered, fed[a] = Len(log),
                state[a].spendable.v <= MaxValue, state[a].spendable.r \in Fr,
                NEW b \in Accounts, NEW amount \in 0 .. MaxValue, NEW sigma \in Sigmas,
                CanSpend(state[a].spendable, amount)
         PROVE  /\ SpendAccepted(a,
                     BuildWithdrawWitness(a, state[a].spendable, amount, sigma), amount)
                /\ TransferAccepted(a, b,
                     BuildTransferWitness(a, state[a].spendable, b, amount, sigma), amount)
    BY DEF CaughtUpSpendsAccepted
  <2>. DEFINE o == state[a].spendable
  <2>1. a \in Accounts /\ o \in Opening /\ o.v \in Int /\ MaxValue \in Nat /\ MaxValue < FrModulus
    BY WitnessAssumption, FieldAssumption DEF WalletInv, TypeOK, AccountState, Opening, Fr
  <2>2. Commit(o.v, o.r) = onchain[a].spendableC
    <3>1. VerifyAgainstChain(state[a], onchain[a])
      BY <2>1 DEF WalletInv, WalletsInPlace, InPlace, onchain
    <3>. QED BY <3>1 DEF VerifyAgainstChain, Opens, CommitOpening
  <2>3. o.v <= MaxValue /\ o.v - amount >= 0 /\ o.r \in Fr
    BY DEF CanSpend
  <2>. HIDE DEF o
  <2>. DEFINE v == o.v
              r == o.r
  <2>4. v \in Int /\ v <= MaxValue /\ v - amount >= 0 /\ r \in Fr
    BY <2>1, <2>3
  <2>. HIDE DEF v, r
  <2>5. /\ amount \in Int /\ v - amount \in 0 .. MaxValue /\ v \in Fr
    BY <2>1, <2>4, FieldAssumption DEF Fr
  <2>6. FieldIn(v) = v /\ FieldIn(r) = r
    <3>1. \A x \in Fr : x % FrModulus = x
      BY FieldAssumption DEF Fr
    <3>. QED BY <2>4, <2>5, <3>1 DEF FieldIn, FrMod
  <2>7. SpendAccepted(a, BuildWithdrawWitness(a, o, amount, sigma), amount)
    BY <2>2, <2>5, <2>6 DEF SpendAccepted, BuildWithdrawWitness, v, r
  <2>8. SpendAccepted(a, BuildTransferWitness(a, o, b, amount, sigma), amount)
    BY <2>2, <2>5, <2>6 DEF SpendAccepted, BuildTransferWitness, v, r
  <2>9. TransferAccepted(a, b, BuildTransferWitness(a, o, b, amount, sigma), amount)
    BY <2>8 DEF TransferAccepted, BuildTransferWitness
  <2>. QED BY <2>7, <2>9 DEF o
<1>. QED BY <1>1, Invariance, PTL
-----------------------------------------------------------------------------
First(s) == CHOOSE x \in s : TRUE

\* The partial sums of f over the subsets of S.
Partial(g, f, S) ==
  \A s \in SUBSET S :
    g[s] = IF s = {} THEN 0 ELSE f[First(s)] + g[s \ {First(s)}]

\* One element less.
LEMMA FirstIs ==
  ASSUME NEW S, IsFiniteSet(S), NEW s \in SUBSET S, s # {}
  PROVE  /\ First(s) \in s /\ s \ {First(s)} \in SUBSET S
         /\ IsFiniteSet(s) /\ Cardinality(s) \in Nat /\ Cardinality(s) # 0
         /\ Cardinality(s \ {First(s)}) = Cardinality(s) - 1
<1>1. First(s) \in s
  BY DEF First
<1>2. IsFiniteSet(s)
  BY FS_Subset
<1>. QED BY <1>1, <1>2, FS_RemoveElement, FS_CardinalityType, FS_EmptySet

\* A set of n + 1 elements is not empty.
LEMMA SomeIn ==
  ASSUME NEW t, NEW n \in Nat, Cardinality(t) = n + 1
  PROVE  t # {}
<1>1. Cardinality({}) = 0
  BY FS_EmptySet
<1>2. n + 1 # 0
  OBVIOUS
<1>. QED BY <1>1, <1>2

\* The sum is the last of its partial sums.
LEMMA SumUnrolls ==
  ASSUME NEW S, IsFiniteSet(S), NEW f \in [S -> Int]
  PROVE  \E g : Partial(g, f, S) /\ SumFunction(f) = g[S]
<1>. DEFINE T == [SUBSET S -> Int]
            N == Cardinality(S)
            part(h, s) == IF s = {} THEN 0 ELSE f[First(s)] + h[s \ {First(s)}]
            Step == [n \in 1 .. N |-> [h \in T |-> [s \in SUBSET S |-> part(h, s)]]]
            zero == [s \in SUBSET S |-> 0]
            Loop(g) == g = [s \in SUBSET S |->
                              IF s = {} THEN 0 ELSE f[First(s)] + g[s \ {First(s)}]]
            sum == CHOOSE g : Loop(g)
<1>1. N \in Nat /\ zero \in T
  BY FS_CardinalityType
<1>2. Step \in [1 .. N -> [T -> T]]
  <2>1. ASSUME NEW h \in T, NEW s \in SUBSET S PROVE part(h, s) \in Int
    <3>1. CASE s # {}
      <4>1. First(s) \in S /\ s \ {First(s)} \in SUBSET S
        BY <3>1, FirstIs
      <4>2. f[First(s)] \in Int /\ h[s \ {First(s)}] \in Int
        BY <4>1
      <4>. QED BY <3>1, <4>2
    <3>. QED BY <3>1
  <2>. HIDE DEF part
  <2>. QED BY <2>1
<1>. HIDE DEF N, T
<1>3. PICK h \in [0 .. N -> T] : Iterates(h, zero, Step, N)
  BY <1>1, <1>2, Iteration
<1>. DEFINE g == [s \in SUBSET S |-> h[Cardinality(s)][s]]
<1>4. ASSUME NEW s \in SUBSET S PROVE g[s] = part(g, s)
  <2>1. CASE s = {}
    <3>1. Cardinality(s) = 0 /\ h[0] = zero /\ zero[s] = 0
      BY <1>3, <2>1, FS_EmptySet DEF Iterates
    <3>. QED BY <2>1, <3>1
  <2>2. CASE s # {}
    <3>. DEFINE c == Cardinality(s)
                r == s \ {First(s)}
    <3>1. r \in SUBSET S /\ Cardinality(r) = c - 1 /\ c \in 1 .. N
      <4>1. r \in SUBSET S /\ Cardinality(r) = c - 1 /\ c \in Nat /\ c # 0
        BY <2>2, FirstIs
      <4>2. c <= N
        BY FS_Subset DEF N
      <4>. QED BY <1>1, <4>1, <4>2
    <3>2. h[c] = Step[c][h[c - 1]] /\ h[c - 1] \in T
      <4>1. c - 1 \in 0 .. N
        BY <1>1, <3>1
      <4>. QED BY <1>3, <3>1, <4>1 DEF Iterates
    <3>3. h[c][s] = part(h[c - 1], s)
      <4>. HIDE DEF c, part
      <4>. QED BY <3>1, <3>2
    <3>. QED BY <2>2, <3>1, <3>3
  <2>. QED BY <2>1, <2>2
<1>5. Loop(g)
  <2>1. g = [s \in SUBSET S |-> g[s]]
    OBVIOUS
  <2>. HIDE DEF g
  <2>. QED BY <1>4, <2>1
<1>6. Loop(sum)
  <2>. HIDE DEF Loop, g
  <2>. QED BY <1>5, Zenon
<1>7. SumFunction(f) = sum[S]
  BY DEF SumFunction, SumFunctionOnSet, FoldFunctionOnSet, MapThenFoldSet, First
<1>8. Partial(sum, f, S)
  <2>. HIDE DEF sum
  <2>. QED BY <1>6 DEF Partial
<1>. QED BY <1>7, <1>8

\* Every partial sum is a number.
LEMMA PartialType ==
  ASSUME NEW S, IsFiniteSet(S), NEW f \in [S -> Int], NEW g, Partial(g, f, S),
         NEW s \in SUBSET S
  PROVE  g[s] \in Int
<1>. DEFINE G == {n \in Nat : \A t \in SUBSET S : Cardinality(t) = n => g[t] \in Int}
<1>1. 0 \in G
  <2>1. ASSUME NEW t \in SUBSET S, Cardinality(t) = 0 PROVE g[t] \in Int
    <3>1. t = {}
      BY <2>1, FS_Subset, FS_EmptySet
    <3>2. g[t] = 0
      BY <3>1 DEF Partial
    <3>. QED BY <3>2
  <2>. QED BY <2>1
<1>2. ASSUME NEW n \in Nat, n \in G PROVE n + 1 \in G
  <2>1. ASSUME NEW t \in SUBSET S, Cardinality(t) = n + 1 PROVE g[t] \in Int
    <3>1. t # {}
      BY <2>1, SomeIn
    <3>2. First(t) \in S /\ t \ {First(t)} \in SUBSET S /\ Cardinality(t \ {First(t)}) = n
      BY <2>1, <3>1, FirstIs
    <3>3. g[t \ {First(t)}] \in Int /\ f[First(t)] \in Int
      BY <1>2, <3>2
    <3>4. g[t] = f[First(t)] + g[t \ {First(t)}]
      BY <3>1 DEF Partial
    <3>. QED BY <3>3, <3>4
  <2>. QED BY <2>1
<1>3. Cardinality(s) \in Nat
  BY FS_Subset, FS_CardinalityType
<1>4. Cardinality(s) \in G
  <2>. HIDE DEF G
  <2>. QED BY <1>1, <1>2, <1>3, SetInduction
<1>. QED BY <1>4

\* Any element can be taken out of a partial sum.
LEMMA PartialTakesOut ==
  ASSUME NEW S, IsFiniteSet(S), NEW f \in [S -> Int], NEW g, Partial(g, f, S),
         NEW s \in SUBSET S, NEW x \in s
  PROVE  g[s] = f[x] + g[s \ {x}]
<1>. DEFINE Out(t, y) == g[t] = f[y] + g[t \ {y}]
            G == {n \in Nat : \A t \in SUBSET S : Cardinality(t) = n => \A y \in t : Out(t, y)}
<1>1. 0 \in G
  <2>1. ASSUME NEW t \in SUBSET S, Cardinality(t) = 0 PROVE t = {}
    BY <2>1, FS_Subset, FS_EmptySet
  <2>. QED BY <2>1
<1>2. ASSUME NEW n \in Nat, n \in G PROVE n + 1 \in G
  <2>1. ASSUME NEW t \in SUBSET S, Cardinality(t) = n + 1, NEW y \in t PROVE Out(t, y)
    <3>. DEFINE z == First(t)
                r == t \ {z}
    <3>1. z \in t /\ r \in SUBSET S /\ IsFiniteSet(t) /\ Cardinality(r) = n
      BY <2>1, FirstIs
    <3>2. g[t] = f[z] + g[r]
      BY <2>1 DEF Partial
    <3>. HIDE DEF z
    <3>3. CASE y # z
      <4>. DEFINE q == t \ {y}
                  both == r \ {y}
      <4>1. y \in r /\ z \in q /\ q \in SUBSET S /\ q \ {z} = both /\ both \in SUBSET S
        BY <3>1, <3>3
      <4>2. Cardinality(q) = n
        BY <2>1, <3>1, FS_RemoveElement
      <4>3. g[r] = f[y] + g[both]
        BY <1>2, <3>1, <4>1
      <4>4. g[q] = f[z] + g[both]
        BY <1>2, <4>1, <4>2
      <4>5. g[both] \in Int /\ f[y] \in Int /\ f[z] \in Int
        <5>1. y \in S /\ z \in S
          BY <3>1
        <5>. QED BY <4>1, <5>1, PartialType
      <4>. HIDE DEF r, q, both
      <4>6. g[t] = f[z] + (f[y] + g[both]) /\ f[y] + g[q] = f[y] + (f[z] + g[both])
        BY <3>2, <4>3, <4>4
      <4>7. g[t] = f[y] + g[q]
        BY <4>5, <4>6
      <4>. QED BY <4>7 DEF q
    <3>. QED BY <3>2, <3>3
  <2>. HIDE DEF Out
  <2>. QED BY <2>1
<1>3. Cardinality(s) \in Nat
  BY FS_Subset, FS_CardinalityType
<1>4. Cardinality(s) \in G
  <2>. HIDE DEF G
  <2>. QED BY <1>1, <1>2, <1>3, SetInduction
<1>. QED BY <1>4

\* Functions that agree on a set have the same partial sum of it.
LEMMA PartialsAgree ==
  ASSUME NEW S, IsFiniteSet(S), NEW f \in [S -> Int], NEW e \in [S -> Int],
         NEW g, Partial(g, f, S), NEW h, Partial(h, e, S),
         NEW s \in SUBSET S, \A x \in s : f[x] = e[x]
  PROVE  g[s] = h[s]
<1>. DEFINE G == {n \in Nat : \A t \in SUBSET s : Cardinality(t) = n => g[t] = h[t]}
<1>1. 0 \in G
  <2>1. ASSUME NEW t \in SUBSET s, Cardinality(t) = 0 PROVE g[t] = h[t]
    <3>1. t \in SUBSET S
      OBVIOUS
    <3>2. t = {}
      BY <2>1, <3>1, FS_Subset, FS_EmptySet
    <3>3. g[t] = 0 /\ h[t] = 0
      BY <3>1, <3>2 DEF Partial
    <3>. QED BY <3>3
  <2>. QED BY <2>1
<1>2. ASSUME NEW n \in Nat, n \in G PROVE n + 1 \in G
  <2>1. ASSUME NEW t \in SUBSET s, Cardinality(t) = n + 1 PROVE g[t] = h[t]
    <3>0. t # {}
      BY <2>1, SomeIn
    <3>1. t # {} /\ t \in SUBSET S
      BY <3>0
    <3>2. First(t) \in t /\ Cardinality(t \ {First(t)}) = n
      BY <2>1, <3>1, FirstIs
    <3>3. g[t \ {First(t)}] = h[t \ {First(t)}] /\ f[First(t)] = e[First(t)]
      BY <1>2, <3>2
    <3>4. /\ g[t] = f[First(t)] + g[t \ {First(t)}]
          /\ h[t] = e[First(t)] + h[t \ {First(t)}]
      BY <3>1 DEF Partial
    <3>. QED BY <3>3, <3>4
  <2>. QED BY <2>1
<1>3. Cardinality(s) \in Nat
  BY FS_Subset, FS_CardinalityType
<1>4. Cardinality(s) \in G
  <2>. HIDE DEF G
  <2>. QED BY <1>1, <1>2, <1>3, SetInduction
<1>. QED BY <1>4

\* A sum is a number, and changes by what one of its terms changes.
LEMMA SumChanges ==
  ASSUME NEW S, IsFiniteSet(S), NEW f \in [S -> Int], NEW e \in [S -> Int],
         NEW x \in S, NEW d \in Int, e[x] = f[x] + d, \A y \in S \ {x} : e[y] = f[y]
  PROVE  SumFunction(f) \in Int /\ SumFunction(e) = SumFunction(f) + d
<1>1. PICK g : Partial(g, f, S) /\ SumFunction(f) = g[S]
  BY SumUnrolls
<1>2. PICK h : Partial(h, e, S) /\ SumFunction(e) = h[S]
  BY SumUnrolls
<1>. DEFINE r == S \ {x}
<1>3. g[S] = f[x] + g[r] /\ h[S] = e[x] + h[r]
  BY <1>1, <1>2, PartialTakesOut
<1>4. h[r] = g[r] /\ g[r] \in Int /\ f[x] \in Int
  BY <1>1, <1>2, PartialsAgree, PartialType
<1>. HIDE DEF r
<1>. QED BY <1>1, <1>2, <1>3, <1>4

\* The sum of zeros is zero.
LEMMA SumOfZeros ==
  ASSUME NEW S, IsFiniteSet(S), NEW f \in [S -> Int], \A x \in S : f[x] = 0
  PROVE  SumFunction(f) = 0
<1>1. PICK g : Partial(g, f, S) /\ SumFunction(f) = g[S]
  BY SumUnrolls
<1>. DEFINE G == {n \in Nat : \A t \in SUBSET S : Cardinality(t) = n => g[t] = 0}
<1>2. 0 \in G
  <2>1. ASSUME NEW t \in SUBSET S, Cardinality(t) = 0 PROVE g[t] = 0
    <3>1. t = {}
      BY <2>1, FS_Subset, FS_EmptySet
    <3>. QED BY <1>1, <3>1 DEF Partial
  <2>. QED BY <2>1
<1>3. ASSUME NEW n \in Nat, n \in G PROVE n + 1 \in G
  <2>1. ASSUME NEW t \in SUBSET S, Cardinality(t) = n + 1 PROVE g[t] = 0
    <3>1. t # {}
      BY <2>1, SomeIn
    <3>2. First(t) \in S /\ t \ {First(t)} \in SUBSET S /\ Cardinality(t \ {First(t)}) = n
      BY <2>1, <3>1, FirstIs
    <3>3. g[t \ {First(t)}] = 0 /\ f[First(t)] = 0
      BY <1>3, <3>2
    <3>4. g[t] = f[First(t)] + g[t \ {First(t)}]
      BY <1>1, <3>1 DEF Partial
    <3>. QED BY <3>3, <3>4
  <2>. QED BY <2>1
<1>4. Cardinality(S) \in Nat
  BY FS_CardinalityType
<1>5. Cardinality(S) \in G
  <2>. HIDE DEF G
  <2>. QED BY <1>2, <1>3, <1>4, SetInduction
<1>. QED BY <1>1, <1>5

\* A term of a sum of naturals is no larger than the sum.
LEMMA SumBounds ==
  ASSUME NEW S, IsFiniteSet(S), NEW f \in [S -> Nat], NEW x \in S
  PROVE  SumFunction(f) \in Nat /\ f[x] <= SumFunction(f)
<1>1. f \in [S -> Int]
  OBVIOUS
<1>2. PICK g : Partial(g, f, S) /\ SumFunction(f) = g[S]
  BY <1>1, SumUnrolls
<1>. DEFINE G == {n \in Nat : \A t \in SUBSET S : Cardinality(t) = n => g[t] \in Nat}
<1>3. 0 \in G
  <2>1. ASSUME NEW t \in SUBSET S, Cardinality(t) = 0 PROVE g[t] \in Nat
    <3>1. t = {}
      BY <2>1, FS_Subset, FS_EmptySet
    <3>. QED BY <1>2, <3>1 DEF Partial
  <2>. QED BY <2>1
<1>4. ASSUME NEW n \in Nat, n \in G PROVE n + 1 \in G
  <2>1. ASSUME NEW t \in SUBSET S, Cardinality(t) = n + 1 PROVE g[t] \in Nat
    <3>1. t # {}
      BY <2>1, SomeIn
    <3>2. First(t) \in S /\ t \ {First(t)} \in SUBSET S /\ Cardinality(t \ {First(t)}) = n
      BY <2>1, <3>1, FirstIs
    <3>3. g[t \ {First(t)}] \in Nat /\ f[First(t)] \in Nat
      BY <1>4, <3>2
    <3>4. g[t] = f[First(t)] + g[t \ {First(t)}]
      BY <1>2, <3>1 DEF Partial
    <3>. QED BY <3>3, <3>4
  <2>. QED BY <2>1
<1>5. \A t \in SUBSET S : g[t] \in Nat
  <2>1. ASSUME NEW t \in SUBSET S PROVE g[t] \in Nat
    <3>1. Cardinality(t) \in Nat
      BY FS_Subset, FS_CardinalityType
    <3>2. Cardinality(t) \in G
      <4>. HIDE DEF G
      <4>. QED BY <1>3, <1>4, <3>1, SetInduction
    <3>. QED BY <3>2
  <2>. QED BY <2>1
<1>6. g[S] = f[x] + g[S \ {x}]
  BY <1>1, <1>2, PartialTakesOut
<1>7. g[S \ {x}] \in Nat /\ g[S] \in Nat /\ f[x] \in Nat
  BY <1>5
<1>. QED BY <1>2, <1>6, <1>7
-----------------------------------------------------------------------------
\* Amounts are far below both moduli.
LEMMA SmallSupply ==
  /\ MaxSupply \in Nat /\ MaxSupply < FrModulus
  /\ FrModulus \in Nat \ {0} /\ FpModulus \in Nat \ {0} /\ FrModulus < FpModulus
  /\ IsFiniteSet(Accounts)
BY FieldAssumption, WalletReplayAssumption DEF Fr

\* A number below the group order is what its commitment commits to.
LEMMA CommitsTo ==
  ASSUME NEW v \in Nat, v < FpModulus, NEW r
  PROVE  Commit(v, r).g = v
<1>1. v % FpModulus = v
  BY SmallSupply
<1>. QED BY <1>1 DEF Commit

\* Balances are naturals.
LEMMA BalancesType ==
  ASSUME NEW c \in Commitments
  PROVE  /\ Balances(c) \in [Accounts -> Nat]
         /\ \A a \in Accounts :
              /\ c[a].spendableC.g \in Nat /\ c[a].receivingC.g \in Nat
              /\ c[a].spendableC.g < FpModulus /\ c[a].receivingC.g < FpModulus
              /\ Balances(c)[a] = c[a].spendableC.g + c[a].receivingC.g
<1>1. ASSUME NEW a \in Accounts
      PROVE  /\ c[a].spendableC.g \in Nat /\ c[a].receivingC.g \in Nat
             /\ c[a].spendableC.g < FpModulus /\ c[a].receivingC.g < FpModulus
  <2>1. c[a].spendableC \in Point /\ c[a].receivingC \in Point
    BY DEF Commitments
  <2>2. c[a].spendableC.g \in Fp /\ c[a].receivingC.g \in Fp
    BY <2>1 DEF Point
  <2>3. \A x \in Fp : x \in Nat /\ x < FpModulus
    BY SmallSupply DEF Fp
  <2>. QED BY <2>2, <2>3
<1>2. \A a \in Accounts : c[a].spendableC.g + c[a].receivingC.g \in Nat
  BY <1>1
<1>. QED BY <1>1, <1>2 DEF Balances

\* No account holds more than all of them.
LEMMA HoldsAtMost ==
  ASSUME NEW c \in Commitments, NEW a \in Accounts
  PROVE  /\ SumFunction(Balances(c)) \in Nat
         /\ Balances(c)[a] <= SumFunction(Balances(c))
BY SmallSupply, BalancesType, SumBounds

\* What changes one account's balance changes the sum by as much.
LEMMA BalanceChanges ==
  ASSUME NEW c \in Commitments, NEW d \in Commitments, NEW a \in Accounts, NEW m \in Int,
         Balances(d)[a] = Balances(c)[a] + m,
         \A b \in Accounts \ {a} : Balances(d)[b] = Balances(c)[b]
  PROVE  SumFunction(Balances(d)) = SumFunction(Balances(c)) + m
<1>1. Balances(c) \in [Accounts -> Int] /\ Balances(d) \in [Accounts -> Int]
  BY BalancesType
<1>. HIDE DEF Balances
<1>. QED BY <1>1, SmallSupply, SumChanges

\* What a spend leaves is what its author reads in the event.
LEMMA SpendLeaves ==
  ASSUME NEW o \in [v : Fr, r : Fr]
  PROVE  CommitOpening(o).g = o.v
<1>1. o.v \in Fr
  OBVIOUS
<1>2. o.v \in Nat /\ o.v < FpModulus
  BY <1>1, SmallSupply DEF Fr
<1>. QED BY <1>2, CommitsTo DEF CommitOpening

\* Applying an event to the numbers an account holds gives those it holds after it.
LEMMA ApplyHolds ==
  ASSUME NEW me \in Accounts, NEW st \in AccountState, NEW ev \in ConfidentialEvent,
         NEW before \in Commitments, NEW after \in Commitments,
         EventExplains(ev, before, after), MovesFunds(ev, before, after),
         Holds(st, before[me])
  PROVE  Holds(Apply(me, st, ev), after[me])
<1>1. /\ st.spendable.v = before[me].spendableC.g
      /\ st.receiving.v = before[me].receivingC.g
  BY DEF Holds
<1>0. Commit(0, 0).g = 0
  BY SmallSupply, CommitsTo
<1>. SUFFICES /\ SpendableAfter(me, st, ev).v = after[me].spendableC.g
              /\ ReceivingAfter(me, st, ev).v = after[me].receivingC.g
  BY DEF Holds, Apply
<1>2. CASE ev.type = "register"
  BY <1>1, <1>2 DEF EventExplains, SpendableAfter, ReceivingAfter
<1>3. CASE ev.type = "deposit"
  <2>1. after = [before EXCEPT ![ev.to].receivingC = PointAdd(@, Commit(ev.amount, 0))]
    BY <1>3 DEF EventExplains
  <2>2. ev.to \in Accounts /\ ev.amount \in Int
    BY <1>3, EventTypes DEF DepositEvent
  <2>3. SpendableAfter(me, st, ev) = st.spendable
    BY <1>3 DEF SpendableAfter
  <2>4. after[me].spendableC = before[me].spendableC
    BY <2>1, <2>2 DEF Commitments
  <2>5. CASE ev.to = me
    <3>1. ReceivingAfter(me, st, ev) = [st.receiving EXCEPT !.v = @ + ev.amount]
      BY <1>3, <2>5 DEF ReceivingAfter
    <3>2. ReceivingAfter(me, st, ev).v = st.receiving.v + ev.amount
      BY <3>1 DEF AccountState, Opening
    <3>3. after[me].receivingC.g = before[me].receivingC.g + ev.amount
      BY <1>3, <2>5 DEF MovesFunds
    <3>. QED BY <1>1, <2>3, <2>4, <3>2, <3>3
  <2>6. CASE ev.to # me
    <3>1. ReceivingAfter(me, st, ev) = st.receiving
      BY <1>3, <2>6 DEF ReceivingAfter
    <3>2. after[me].receivingC = before[me].receivingC
      BY <2>1, <2>6 DEF Commitments
    <3>. QED BY <1>1, <2>3, <2>4, <3>1, <3>2
  <2>. QED BY <2>5, <2>6
<1>4. CASE ev.type = "merge"
  <2>1. after = [before EXCEPT ![ev.account] =
                   [ spendableC |-> PointAdd(@.spendableC, @.receivingC),
                     receivingC |-> Commit(0, 0) ]]
    BY <1>4 DEF EventExplains
  <2>2. CASE ev.account = me
    <3>1. /\ SpendableAfter(me, st, ev) = AddOpening(st.spendable, st.receiving)
          /\ ReceivingAfter(me, st, ev) = ZeroOpening
      BY <1>4, <2>2 DEF SpendableAfter, ReceivingAfter
    <3>2. after[me].receivingC = Commit(0, 0)
      BY <2>1, <2>2 DEF Commitments
    <3>3. after[me].spendableC.g = before[me].spendableC.g + before[me].receivingC.g
      BY <1>4, <2>2 DEF MovesFunds
    <3>. QED BY <1>0, <1>1, <3>1, <3>2, <3>3 DEF AddOpening, ZeroOpening
  <2>3. CASE ev.account # me
    <3>1. /\ SpendableAfter(me, st, ev) = st.spendable
          /\ ReceivingAfter(me, st, ev) = st.receiving
      BY <1>4, <2>3 DEF SpendableAfter, ReceivingAfter
    <3>2. after[me] = before[me]
      BY <2>1, <2>3 DEF Commitments
    <3>. QED BY <1>1, <3>1, <3>2
  <2>. QED BY <2>2, <2>3
<1>5. CASE ev.type = "withdraw"
  <2>0. OpenSpendable(ev.from, ev) \in [v : Fr, r : Fr]
    BY <1>5, EventTypes, OpenSpendableType DEF WithdrawEvent
  <2>1. after = [before EXCEPT ![ev.from].spendableC =
                   CommitOpening(OpenSpendable(ev.from, ev))]
    BY <1>5 DEF EventExplains
  <2>2. ReceivingAfter(me, st, ev) = st.receiving
    BY <1>5 DEF ReceivingAfter
  <2>3. after[me].receivingC = before[me].receivingC
    BY <2>1 DEF Commitments
  <2>4. CASE ev.from = me
    <3>1. SpendableAfter(me, st, ev) = OpenSpendable(me, ev)
      BY <1>5, <2>4 DEF SpendableAfter
    <3>2. after[me].spendableC = CommitOpening(OpenSpendable(me, ev))
      BY <2>1, <2>4 DEF Commitments
    <3>. QED BY <1>1, <2>0, <2>2, <2>3, <2>4, <3>1, <3>2, SpendLeaves
  <2>5. CASE ev.from # me
    <3>1. SpendableAfter(me, st, ev) = st.spendable
      BY <1>5, <2>5 DEF SpendableAfter
    <3>2. after[me].spendableC = before[me].spendableC
      BY <2>1, <2>5 DEF Commitments
    <3>. QED BY <1>1, <2>2, <2>3, <3>1, <3>2
  <2>. QED BY <2>4, <2>5
<1>6. CASE ev.type = "transfer"
  <2>. DEFINE spent == [before EXCEPT ![ev.from].spendableC =
                          CommitOpening(OpenSpendable(ev.from, ev))]
  <2>0. /\ ev \in TransferEvent /\ ev.to \in Accounts /\ ev.from \in Accounts
    BY <1>6, EventTypes DEF TransferEvent
  <2>1. OpenSpendable(ev.from, ev) \in [v : Fr, r : Fr]
    BY <2>0, OpenSpendableType
  <2>2. after = [spent EXCEPT ![ev.to].receivingC =
                   PointAdd(@, CommitOpening(DecryptIncoming(ev.to, ev)))]
    BY <1>6 DEF EventExplains
  <2>3. /\ spent[me].receivingC = before[me].receivingC
        /\ ev.from = me => spent[me].spendableC = CommitOpening(OpenSpendable(me, ev))
        /\ ev.from # me => spent[me].spendableC = before[me].spendableC
    BY DEF Commitments
  <2>4. /\ after[me].spendableC = spent[me].spendableC
        /\ ev.to # me => after[me].receivingC = spent[me].receivingC
    <3>1. spent \in [Accounts -> [{"spendableC", "receivingC"} ->
                                    Point \cup {CommitOpening(OpenSpendable(ev.from, ev))}]]
      BY DEF Commitments
    <3>. HIDE DEF spent
    <3>. QED BY <2>0, <2>2, <3>1
  <2>. HIDE DEF spent
  <2>5. SpendableAfter(me, st, ev).v = after[me].spendableC.g
    <3>1. CASE ev.from = me
      <4>1. SpendableAfter(me, st, ev) = OpenSpendable(me, ev)
        BY <1>6, <3>1 DEF SpendableAfter
      <4>. QED BY <2>1, <2>3, <2>4, <3>1, <4>1, SpendLeaves
    <3>2. CASE ev.from # me
      <4>1. SpendableAfter(me, st, ev) = st.spendable
        BY <1>6, <3>2 DEF SpendableAfter
      <4>. QED BY <1>1, <2>3, <2>4, <3>2, <4>1
    <3>. QED BY <3>1, <3>2
  <2>6. ReceivingAfter(me, st, ev).v = after[me].receivingC.g
    <3>1. CASE ev.to = me
      <4>1. ReceivingAfter(me, st, ev) = AddOpening(st.receiving, DecryptIncoming(me, ev))
        BY <1>6, <3>1 DEF ReceivingAfter
      <4>2. after[me].receivingC.g = before[me].receivingC.g + DecryptIncoming(me, ev).v
        BY <1>6, <3>1 DEF MovesFunds
      <4>. QED BY <1>1, <4>1, <4>2 DEF AddOpening
    <3>2. CASE ev.to # me
      <4>1. ReceivingAfter(me, st, ev) = st.receiving
        BY <1>6, <3>2 DEF ReceivingAfter
      <4>. QED BY <1>1, <2>3, <2>4, <3>2, <4>1
    <3>. QED BY <3>1, <3>2
  <2>. QED BY <2>5, <2>6
<1>. QED BY <1>2, <1>3, <1>4, <1>5, <1>6, EventTypes

\* Replaying a stretch of the log carries the numbers along.
LEMMA ReplayHolds ==
  ASSUME TypeOK, LogExplained, LogMovesFunds,
         NEW a \in Accounts, NEW st \in AccountState,
         NEW from \in 0 .. Len(log), Holds(st, commits[from + 1][a]),
         NEW n \in from .. Len(log)
  PROVE  Holds(IngestEvents(a, st, SubSeq(log, from + 1, n)), commits[n + 1][a])
<1>. DEFINE evs == SubSeq(log, from + 1, n)
            R == Replay(a, st, evs)
            Right(i) == R[i] \in AccountState /\ Holds(R[i], commits[from + i + 1][a])
            G == {i \in Nat : i <= Len(evs) => Right(i)}
<1>1. /\ Len(log) \in Nat /\ from \in Nat /\ n \in Nat
      /\ \A k \in 1 .. Len(log) : log[k] \in ConfidentialEvent
      /\ \A k \in 1 .. Len(log) + 1 : commits[k] \in Commitments
  BY DEF TypeOK
<1>2. /\ Len(evs) = n - from
      /\ \A i \in 1 .. n - from : evs[i] = log[from + i]
  <2>1. \A i \in from + 1 .. n : log[i] \in ConfidentialEvent
    BY <1>1
  <2>2. Len(evs) = IF from + 1 <= n THEN n - (from + 1) + 1 ELSE 0
    BY <1>1, <2>1, SubSeqProperties
  <2>3. \A i \in 1 .. n - (from + 1) + 1 : evs[i] = log[from + 1 + i - 1]
    BY <1>1, <2>1, SubSeqProperties
  <2>. HIDE DEF evs
  <2>. QED BY <1>1, <2>2, <2>3
<1>. HIDE DEF evs
<1>3. /\ R[0] = st
      /\ \A i \in 1 .. Len(evs) : R[i] = Apply(a, R[i - 1], evs[i])
  BY <1>1, <1>2, ReplayEquations
<1>. HIDE DEF R
<1>4. 0 \in G
  <2>1. commits[from + 0 + 1] = commits[from + 1]
    BY <1>1
  <2>. QED BY <1>3, <2>1
<1>5. ASSUME NEW i \in Nat, i \in G PROVE i + 1 \in G
  <2>. SUFFICES ASSUME i + 1 <= Len(evs) PROVE Right(i + 1)
    OBVIOUS
  <2>1. Right(i)
    BY <1>1, <1>2, <1>5
  <2>. DEFINE k == from + i + 1
              ev == log[k]
  <2>2. /\ k \in 1 .. Len(log) /\ k \in Nat
        /\ from + (i + 1) = k /\ from + (i + 1) + 1 = k + 1 /\ k \in 1 .. Len(log) + 1
        /\ k + 1 \in 1 .. Len(log) + 1
    BY <1>1, <1>2
  <2>3. R[i + 1] = Apply(a, R[i], ev)
    <3>1. i + 1 \in 1 .. Len(evs) /\ i + 1 - 1 = i /\ evs[i + 1] = ev
      BY <1>1, <1>2, <2>2
    <3>2. R[i + 1] = Apply(a, R[i + 1 - 1], evs[i + 1])
      BY <1>3, <3>1
    <3>. QED BY <3>1, <3>2
  <2>4. ev \in ConfidentialEvent /\ commits[k] \in Commitments /\ commits[k + 1] \in Commitments
    BY <1>1, <2>2
  <2>5. R[i + 1] \in AccountState
    BY <2>1, <2>3, <2>4, ApplyType
  <2>6. EventExplains(ev, commits[k], commits[k + 1]) /\ MovesFunds(ev, commits[k], commits[k + 1])
    BY <2>2 DEF LogExplained, LogMovesFunds
  <2>. HIDE DEF ev
  <2>7. Holds(R[i + 1], commits[k + 1][a])
    BY <2>1, <2>3, <2>4, <2>6, ApplyHolds
  <2>. QED BY <2>2, <2>5, <2>7
<1>6. Right(n - from)
  <2>1. n - from \in Nat /\ n - from <= Len(evs)
    BY <1>1, <1>2
  <2>2. n - from \in G
    <3>. HIDE DEF G
    <3>. QED BY <1>4, <1>5, <2>1, SetInduction
  <2>. QED BY <2>1, <2>2
<1>7. IngestEvents(a, st, evs) = R[n - from] /\ from + (n - from) + 1 = n + 1
  BY <1>1, <1>2 DEF IngestEvents, R
<1>. QED BY <1>6, <1>7 DEF evs
-----------------------------------------------------------------------------
\* Ledger boundaries are places of the log.
LEMMA ThroughOnce ==
  ASSUME TypeOK, NEW l \in Nat, NEW n \in 0 .. Len(log), NEW m \in 0 .. Len(log),
         Through(n, l), Through(m, l)
  PROVE  m = n
<1>1. Len(log) \in Nat /\ \A k \in 1 .. Len(log) : log[k].ledger \in Nat
  BY EventTypes DEF TypeOK
<1>2. ASSUME m < n PROVE FALSE
  <2>1. n \in m + 1 .. Len(log) /\ n \in 1 .. n /\ n \in 1 .. Len(log)
    BY <1>1, <1>2
  <2>2. log[n].ledger > l /\ log[n].ledger <= l
    BY <2>1 DEF Through
  <2>. QED BY <1>1, <2>1, <2>2
<1>3. ASSUME n < m PROVE FALSE
  <2>1. m \in n + 1 .. Len(log) /\ m \in 1 .. m /\ m \in 1 .. Len(log)
    BY <1>1, <1>3
  <2>2. log[m].ledger > l /\ log[m].ledger <= l
    BY <2>1 DEF Through
  <2>. QED BY <1>1, <2>1, <2>2
<1>. QED BY <1>1, <1>2, <1>3

\* What a call adds to the log and to the commitments.
LEMMA EmitAdds ==
  ASSUME WalletInv, WalletInv', NEW ev, NEW after, Emit(ev, after)
  PROVE  /\ ev \in ConfidentialEvent /\ after \in Commitments /\ onchain \in Commitments
         /\ onchain' = after
         /\ Len(log) \in Nat /\ Len(log') = Len(log) + 1
         /\ Len(commits) = Len(log) + 1 /\ Len(commits') = Len(log) + 2
         /\ \A k \in 1 .. Len(log) : log'[k] = log[k]
         /\ log'[Len(log) + 1] = ev
         /\ \A k \in 1 .. Len(log) + 1 : commits'[k] = commits[k]
         /\ commits'[Len(log) + 2] = after
         /\ ledger' = ledger /\ state' = state /\ fed' = fed /\ saved' = saved
<1>1. /\ log' = Append(log, ev) /\ commits' = Append(commits, after)
      /\ ledger' = ledger /\ state' = state /\ fed' = fed /\ saved' = saved
  BY DEF Emit, walletVars
<1>2. /\ log \in Seq(ConfidentialEvent) /\ commits \in Seq(Commitments)
      /\ Len(commits) = Len(log) + 1 /\ Len(log) \in Nat
      /\ log' \in Seq(ConfidentialEvent) /\ commits' \in Seq(Commitments)
  BY DEF WalletInv, TypeOK
<1>3. /\ Len(log') = Len(log) + 1 /\ log'[Len(log) + 1] = ev
      /\ \A k \in 1 .. Len(log) : log'[k] = log[k]
  BY <1>1, <1>2
<1>4. /\ Len(commits') = Len(log) + 2 /\ commits'[Len(log) + 2] = after
      /\ \A k \in 1 .. Len(log) + 1 : commits'[k] = commits[k]
  BY <1>1, <1>2
<1>5. ev \in ConfidentialEvent /\ after \in Commitments
  <2>1. Len(log) + 1 \in 1 .. Len(log') /\ Len(log) + 2 \in 1 .. Len(commits')
    BY <1>2, <1>3, <1>4
  <2>. QED BY <1>2, <1>3, <1>4, <2>1
<1>6. onchain' = after
  <2>1. Len(log') + 1 = Len(log) + 2
    BY <1>2, <1>3
  <2>. QED BY <1>4, <2>1 DEF onchain
<1>7. onchain \in Commitments
  BY OnchainType DEF WalletInv
<1>. QED BY <1>1, <1>2, <1>3, <1>4, <1>5, <1>6, <1>7

\* A call whose event moves its amount as a number, and which leaves the accounts
\* with the escrow, keeps the amounts right.
LEMMA EmitKeepsFunds ==
  ASSUME FundsInv, WalletInv', NEW ev, NEW after, Emit(ev, after), ev.ledger = ledger,
         MovesFunds(ev, onchain, after),
         SumFunction(Balances(after)) = escrow', escrow' \in 0 .. MaxSupply
  PROVE  FundsInv'
<1>0. WalletInv
  BY DEF FundsInv
<1>1. /\ ev \in ConfidentialEvent /\ after \in Commitments
      /\ onchain' = after
      /\ Len(log) \in Nat /\ Len(log') = Len(log) + 1
      /\ Len(commits) = Len(log) + 1 /\ Len(commits') = Len(log) + 2
      /\ \A k \in 1 .. Len(log) : log'[k] = log[k]
      /\ log'[Len(log) + 1] = ev
      /\ \A k \in 1 .. Len(log) + 1 : commits'[k] = commits[k]
      /\ commits'[Len(log) + 2] = after
      /\ ledger' = ledger /\ state' = state /\ fed' = fed /\ saved' = saved
  BY <1>0, EmitAdds
<1>2. LogMovesFunds'
  <2>1. ASSUME NEW k \in 1 .. Len(log')
        PROVE  MovesFunds(log'[k], commits'[k], commits'[k + 1])
    <3>1. CASE k \in 1 .. Len(log)
      <4>1. k \in 1 .. Len(log) + 1 /\ k + 1 \in 1 .. Len(log) + 1
        BY <1>1, <3>1
      <4>2. MovesFunds(log[k], commits[k], commits[k + 1])
        BY <3>1 DEF FundsInv, LogMovesFunds
      <4>. QED BY <1>1, <3>1, <4>1, <4>2
    <3>2. CASE k = Len(log) + 1
      <4>1. k \in 1 .. Len(log) + 1 /\ k + 1 = Len(log) + 2
        BY <1>1, <3>2
      <4>2. commits'[k] = onchain
        BY <1>1, <3>2, <4>1 DEF onchain
      <4>. QED BY <1>1, <3>2, <4>1, <4>2
    <3>. QED BY <1>1, <3>1, <3>2
  <2>. QED BY <2>1 DEF LogMovesFunds, MovesFunds
<1>3. EscrowBacked'
  <2>1. ASSUME NEW k \in 1 .. Len(commits')
        PROVE  SumFunction(Balances(commits'[k])) \in 0 .. MaxSupply
    <3>1. CASE k \in 1 .. Len(log) + 1
      BY <1>1, <3>1 DEF FundsInv, EscrowBacked
    <3>2. CASE k = Len(log) + 2
      BY <1>1, <3>2
    <3>. QED BY <1>1, <3>1, <3>2
  <2>. QED BY <1>1, <2>1 DEF EscrowBacked, Balances
<1>4. WalletsHoldFunds'
  <2>1. ASSUME NEW a \in Accounts
        PROVE  (/\ Holds(state[a], commits[fed[a] + 1][a])
                /\ \A n \in 0 .. Len(log) :
                     Through(n, saved[a].lastLedger) => Holds(saved[a], commits[n + 1][a]))'
    <3>1. fed[a] + 1 \in 1 .. Len(log) + 1
      BY <1>0, <1>1 DEF WalletInv, TypeOK
    <3>2. Holds(state[a], commits[fed[a] + 1][a])'
      BY <1>1, <3>1 DEF FundsInv, WalletsHoldFunds, Holds
    <3>3. ASSUME NEW n \in 0 .. Len(log'), Through(n, saved[a].lastLedger)'
          PROVE  Holds(saved[a], commits[n + 1][a])'
      <4>. DEFINE l == saved[a].lastLedger
      <4>1. l \in Nat /\ ledger \in Nat /\ l < ledger
        <5>1. \E m \in 0 .. Len(log) : InPlace(a, saved[a], m)
          BY <1>0 DEF WalletInv, WalletsInPlace
        <5>. QED BY <1>0, <5>1 DEF InPlace, WalletInv, TypeOK, AccountState
      <4>2. /\ \A i \in 1 .. n : log'[i].ledger <= l
            /\ \A i \in n + 1 .. Len(log') : log'[i].ledger > l
        BY <1>1, <3>3 DEF Through
      <4>. HIDE DEF l
      <4>3. n # Len(log) + 1
        <5>1. SUFFICES ASSUME n = Len(log) + 1 PROVE FALSE
          OBVIOUS
        <5>2. Len(log) + 1 \in 1 .. n
          BY <1>1, <5>1
        <5>3. ev.ledger <= l
          BY <1>1, <4>2, <5>2
        <5>. QED BY <4>1, <5>3
      <4>4. n \in 0 .. Len(log) /\ n \in Nat
        BY <1>1, <4>3
      <4>5. Through(n, l)
        <5>1. ASSUME NEW i \in 1 .. n PROVE log[i].ledger <= l
          <6>1. i \in 1 .. Len(log)
            BY <1>1, <4>4
          <6>. QED BY <1>1, <4>2, <6>1
        <5>2. ASSUME NEW i \in n + 1 .. Len(log) PROVE log[i].ledger > l
          <6>1. i \in 1 .. Len(log) /\ i \in n + 1 .. Len(log')
            BY <1>1, <4>4
          <6>. QED BY <1>1, <4>2, <6>1
        <5>. QED BY <5>1, <5>2 DEF Through
      <4>6. Holds(saved[a], commits[n + 1][a])
        BY <4>4, <4>5 DEF FundsInv, WalletsHoldFunds, l
      <4>7. n + 1 \in 1 .. Len(log) + 1
        BY <1>1, <4>4
      <4>. QED BY <1>1, <4>6, <4>7 DEF Holds
    <3>. QED BY <3>2, <3>3
  <2>. QED BY <2>1 DEF WalletsHoldFunds
<1>. QED BY <1>2, <1>3, <1>4 DEF FundsInv

\* A step that leaves the log, the escrow and the wallets alone.
LEMMA StillFunds ==
  ASSUME FundsInv, WalletInv',
         UNCHANGED <<log, commits, escrow, state, fed, saved>>
  PROVE  FundsInv'
<1>1. LogMovesFunds'
  BY DEF FundsInv, LogMovesFunds, MovesFunds
<1>2. EscrowBacked'
  BY DEF FundsInv, EscrowBacked, Balances, onchain
<1>3. WalletsHoldFunds'
  BY DEF FundsInv, WalletsHoldFunds, Holds, Through
<1>. QED BY <1>1, <1>2, <1>3 DEF FundsInv

\* A wallet that replays on, and maybe saves.
LEMMA IngestKeepsFunds ==
  ASSUME FundsInv, WalletInv', NEW a \in Accounts, Ingest(a)
  PROVE  FundsInv'
<1>1. PICK to \in 0 .. ledger - 1, n \in fed[a] .. Len(log) :
        /\ Through(n, to)
        /\ LET next == IngestEvents(a, state[a], SubSeq(log, fed[a] + 1, n)) IN
           /\ state' = [state EXCEPT ![a] = next]
           /\ saved' \in {saved} \cup
                         {[saved EXCEPT ![b] = next] : b \in Stored \cap {a}}
        /\ fed' = [fed EXCEPT ![a] = n]
        /\ UNCHANGED chainVars
  BY DEF Ingest
<1>. DEFINE next == IngestEvents(a, state[a], SubSeq(log, fed[a] + 1, n))
<1>2. /\ TypeOK /\ fed[a] \in 0 .. Len(log) /\ state[a] \in AccountState
      /\ Len(log) \in Nat /\ n \in 0 .. Len(log)
      /\ LogExplained /\ LogInOrder /\ LogMovesFunds /\ InPlace(a, state[a], fed[a])
  BY DEF FundsInv, WalletInv, WalletsInPlace, TypeOK
<1>3. next \in AccountState /\ InPlace(a, next, n)
  BY <1>1, <1>2, ReplayInPlace
<1>4. Holds(next, commits[n + 1][a])
  <2>1. Holds(state[a], commits[fed[a] + 1][a])
    BY DEF FundsInv, WalletsHoldFunds
  <2>. QED BY <1>2, <2>1, ReplayHolds
<1>. HIDE DEF next
<1>5. /\ state' = [state EXCEPT ![a] = next]
      /\ saved' = saved \/ saved' = [saved EXCEPT ![a] = next]
      /\ fed' = [fed EXCEPT ![a] = n]
      /\ log' = log /\ commits' = commits /\ escrow' = escrow
  BY <1>1 DEF next, chainVars
<1>6. LogMovesFunds' /\ EscrowBacked'
  BY <1>5 DEF FundsInv, LogMovesFunds, MovesFunds, EscrowBacked, Balances, onchain
<1>7. WalletsHoldFunds'
  <2>1. ASSUME NEW b \in Accounts
        PROVE  /\ Holds(state'[b], commits[fed'[b] + 1][b])
               /\ \A m \in 0 .. Len(log) :
                    Through(m, saved'[b].lastLedger) => Holds(saved'[b], commits[m + 1][b])
    <3>1. CASE b = a
      <4>1. state'[a] = next /\ fed'[a] = n /\ saved'[a] \in {saved[a], next}
        BY <1>2, <1>5 DEF TypeOK
      <4>2. ASSUME NEW m \in 0 .. Len(log), Through(m, next.lastLedger)
            PROVE  Holds(next, commits[m + 1][a])
        <5>1. next.lastLedger \in Nat /\ Through(n, next.lastLedger)
          BY <1>3 DEF InPlace, AccountState
        <5>2. m = n
          BY <1>2, <4>2, <5>1, ThroughOnce
        <5>. QED BY <1>4, <5>2
      <4>3. \A m \in 0 .. Len(log) :
              Through(m, saved[a].lastLedger) => Holds(saved[a], commits[m + 1][a])
        BY DEF FundsInv, WalletsHoldFunds
      <4>. QED BY <1>4, <3>1, <4>1, <4>2, <4>3
    <3>2. CASE b # a
      <4>1. state'[b] = state[b] /\ fed'[b] = fed[b] /\ saved'[b] = saved[b]
        BY <1>2, <1>5, <3>2 DEF TypeOK
      <4>. QED BY <4>1 DEF FundsInv, WalletsHoldFunds
    <3>. QED BY <3>1, <3>2
  <2>. QED BY <1>5, <2>1 DEF WalletsHoldFunds, Through
<1>. QED BY <1>6, <1>7 DEF FundsInv

\* A wallet that starts again from what was saved.
LEMMA RestartKeepsFunds ==
  ASSUME FundsInv, WalletInv', NEW a \in Accounts, Restart(a)
  PROVE  FundsInv'
<1>1. PICK n \in 0 .. Len(log) :
        /\ Through(n, saved[a].lastLedger)
        /\ state' = [state EXCEPT ![a] = saved[a]]
        /\ fed' = [fed EXCEPT ![a] = n]
        /\ UNCHANGED <<chainVars, saved>>
  BY DEF Restart
<1>2. log' = log /\ commits' = commits /\ escrow' = escrow /\ saved' = saved
  BY <1>1 DEF chainVars
<1>3. LogMovesFunds' /\ EscrowBacked'
  BY <1>2 DEF FundsInv, LogMovesFunds, MovesFunds, EscrowBacked, Balances, onchain
<1>4. WalletsHoldFunds'
  <2>1. ASSUME NEW b \in Accounts PROVE Holds(state'[b], commits[fed'[b] + 1][b])
    <3>1. CASE b = a
      <4>1. state'[a] = saved[a] /\ fed'[a] = n
        BY <1>1 DEF FundsInv, WalletInv, TypeOK
      <4>. QED BY <1>1, <3>1, <4>1 DEF FundsInv, WalletsHoldFunds
    <3>2. CASE b # a
      <4>1. state'[b] = state[b] /\ fed'[b] = fed[b]
        BY <1>1, <3>2 DEF FundsInv, WalletInv, TypeOK
      <4>. QED BY <4>1 DEF FundsInv, WalletsHoldFunds
    <3>. QED BY <3>1, <3>2
  <2>. QED BY <1>2, <2>1 DEF FundsInv, WalletsHoldFunds, Through
<1>. QED BY <1>3, <1>4 DEF FundsInv
-----------------------------------------------------------------------------
\* Points whose amounts stay below the group order add their amounts.
LEMMA AddsUp ==
  ASSUME NEW p, NEW q, p.g \in Nat, q.g \in Nat, p.g + q.g < FpModulus
  PROVE  PointAdd(p, q).g = p.g + q.g
<1>. DEFINE s == p.g + q.g
<1>1. s \in Nat /\ s < FpModulus
  OBVIOUS
<1>. HIDE DEF s
<1>2. s % FpModulus = s
  BY <1>1, SmallSupply
<1>. QED BY <1>2 DEF PointAdd, GroupAdd, s

\* What is known of the amounts before a call.
LEMMA FundsNow ==
  ASSUME FundsInv, NEW a \in Accounts
  PROVE  /\ onchain \in Commitments /\ escrow \in 0 .. MaxSupply /\ MaxSupply \in Nat
         /\ SumFunction(Balances(onchain)) = escrow
         /\ onchain[a].spendableC.g \in Nat /\ onchain[a].receivingC.g \in Nat
         /\ onchain[a].spendableC.g + onchain[a].receivingC.g <= escrow
<1>1. onchain \in Commitments /\ Len(log) + 1 \in 1 .. Len(commits)
  BY OnchainType DEF FundsInv, WalletInv, TypeOK
<1>2. escrow \in 0 .. MaxSupply /\ SumFunction(Balances(onchain)) = escrow
  BY <1>1 DEF FundsInv, EscrowBacked, onchain
<1>3. /\ onchain[a].spendableC.g \in Nat /\ onchain[a].receivingC.g \in Nat
      /\ Balances(onchain)[a] = onchain[a].spendableC.g + onchain[a].receivingC.g
  BY <1>1, BalancesType
<1>4. Balances(onchain)[a] <= escrow
  BY <1>1, <1>2, HoldsAtMost
<1>. QED BY <1>1, <1>2, <1>3, <1>4, SmallSupply

\* A registration moves nothing.
LEMMA RegisterKeepsFunds ==
  ASSUME FundsInv, WalletInv', NEW a \in Accounts, Register(a)
  PROVE  FundsInv' /\ onchain' = onchain
<1>. DEFINE ev == [type |-> "register", ledger |-> ledger, account |-> a]
<1>1. Emit(ev, onchain) /\ ev.ledger = ledger /\ escrow' = escrow
  BY DEF Register
<1>2. MovesFunds(ev, onchain, onchain)
  BY DEF MovesFunds
<1>3. SumFunction(Balances(onchain)) = escrow' /\ escrow' \in 0 .. MaxSupply
  BY <1>1, FundsNow
<1>. HIDE DEF ev
<1>4. onchain' = onchain
  BY <1>1, EmitAdds DEF FundsInv
<1>. QED BY <1>1, <1>2, <1>3, <1>4, EmitKeepsFunds

\* A deposit adds its amount to the receiver and to the escrow.
LEMMA DepositKeepsFunds ==
  ASSUME FundsInv, WalletInv', NEW a \in Accounts, NEW amount \in DepositAmounts,
         Deposit(a, amount)
  PROVE  FundsInv' /\ amount \in 0 .. MaxSupply /\ Plain!Credit(a, amount)
<1>. DEFINE ev == [type |-> "deposit", ledger |-> ledger, to |-> a, amount |-> amount]
            after == [onchain EXCEPT ![a].receivingC = PointAdd(@, Commit(amount, 0))]
<1>1. /\ Emit(ev, after) /\ escrow' = escrow + amount /\ escrow + amount <= MaxSupply
      /\ ev.type = "deposit" /\ ev.ledger = ledger /\ ev.to = a /\ ev.amount = amount
  BY DEF Deposit
<1>2. amount \in Nat
  BY WalletReplayAssumption
<1>3. /\ onchain \in Commitments /\ escrow \in 0 .. MaxSupply /\ MaxSupply \in Nat
      /\ SumFunction(Balances(onchain)) = escrow
      /\ onchain[a].spendableC.g \in Nat /\ onchain[a].receivingC.g \in Nat
      /\ onchain[a].spendableC.g + onchain[a].receivingC.g <= escrow
  BY FundsNow
<1>4. /\ after[a].receivingC = PointAdd(onchain[a].receivingC, Commit(amount, 0))
      /\ after[a].spendableC = onchain[a].spendableC
      /\ \A b \in Accounts \ {a} : after[b] = onchain[b]
  BY <1>3 DEF Commitments
<1>. HIDE DEF ev, after
<1>5. after \in Commitments /\ onchain' = after
  BY <1>1, EmitAdds DEF FundsInv
<1>6. after[a].receivingC.g = onchain[a].receivingC.g + amount
  <2>. DEFINE q == Commit(amount, 0)
  <2>1. onchain[a].receivingC.g + amount < FpModulus /\ amount < FpModulus
    BY <1>1, <1>2, <1>3, SmallSupply
  <2>2. q.g = amount
    BY <1>2, <2>1, CommitsTo
  <2>. HIDE DEF q
  <2>3. PointAdd(onchain[a].receivingC, q).g = onchain[a].receivingC.g + q.g
    BY <1>2, <1>3, <2>1, <2>2, AddsUp
  <2>. QED BY <1>4, <2>2, <2>3 DEF q
<1>7. SumFunction(Balances(after)) = escrow + amount
  <2>1. Balances(after)[a] = Balances(onchain)[a] + amount
    BY <1>2, <1>3, <1>4, <1>6 DEF Balances
  <2>2. \A b \in Accounts \ {a} : Balances(after)[b] = Balances(onchain)[b]
    BY <1>4 DEF Balances
  <2>. QED BY <1>2, <1>3, <1>5, <2>1, <2>2, BalanceChanges
<1>8. MovesFunds(ev, onchain, after)
  BY <1>1, <1>6 DEF MovesFunds
<1>9. escrow' \in 0 .. MaxSupply /\ amount \in 0 .. MaxSupply
  BY <1>1, <1>2, <1>3
<1>10. FundsInv'
  BY <1>1, <1>7, <1>8, <1>9, EmitKeepsFunds
<1>11. Plain!Credit(a, amount)
  BY <1>4, <1>5, <1>6 DEF Plain!Credit
<1>. QED BY <1>9, <1>10, <1>11

\* A merge moves what was received to what can be spent.
LEMMA MergeKeepsFunds ==
  ASSUME FundsInv, WalletInv', NEW a \in Accounts, Merge(a)
  PROVE  FundsInv' /\ Plain!Collect(a)
<1>. DEFINE ev == [type |-> "merge", ledger |-> ledger, account |-> a]
            after == [onchain EXCEPT ![a] =
                        [ spendableC |-> PointAdd(@.spendableC, @.receivingC),
                          receivingC |-> Commit(0, 0) ]]
<1>1. /\ Emit(ev, after) /\ escrow' = escrow
      /\ ev.type = "merge" /\ ev.ledger = ledger /\ ev.account = a
  BY DEF Merge
<1>3. /\ onchain \in Commitments /\ escrow \in 0 .. MaxSupply /\ MaxSupply \in Nat
      /\ SumFunction(Balances(onchain)) = escrow
      /\ onchain[a].spendableC.g \in Nat /\ onchain[a].receivingC.g \in Nat
      /\ onchain[a].spendableC.g + onchain[a].receivingC.g <= escrow
  BY FundsNow
<1>4. /\ after[a].receivingC = Commit(0, 0)
      /\ after[a].spendableC = PointAdd(onchain[a].spendableC, onchain[a].receivingC)
      /\ \A b \in Accounts \ {a} : after[b] = onchain[b]
  BY <1>3 DEF Commitments
<1>. HIDE DEF ev, after
<1>5. after \in Commitments /\ onchain' = after
  BY <1>1, EmitAdds DEF FundsInv
<1>6. /\ after[a].spendableC.g = onchain[a].spendableC.g + onchain[a].receivingC.g
      /\ after[a].receivingC.g = 0
  <2>1. onchain[a].spendableC.g + onchain[a].receivingC.g < FpModulus /\ 0 < FpModulus
    BY <1>3, SmallSupply
  <2>2. Commit(0, 0).g = 0
    BY <2>1, CommitsTo
  <2>. QED BY <1>3, <1>4, <2>1, <2>2, AddsUp
<1>7. SumFunction(Balances(after)) = escrow
  <2>1. Balances(after)[a] = Balances(onchain)[a] + 0
    BY <1>3, <1>6 DEF Balances
  <2>2. \A b \in Accounts \ {a} : Balances(after)[b] = Balances(onchain)[b]
    BY <1>4 DEF Balances
  <2>3. SumFunction(Balances(after)) = SumFunction(Balances(onchain)) + 0
    BY <1>3, <1>5, <2>1, <2>2, BalanceChanges
  <2>. QED BY <1>3, <2>3
<1>8. MovesFunds(ev, onchain, after)
  BY <1>1, <1>6 DEF MovesFunds
<1>9. FundsInv'
  BY <1>1, <1>3, <1>7, <1>8, EmitKeepsFunds
<1>10. Plain!Collect(a)
  BY <1>4, <1>5, <1>6 DEF Plain!Collect
<1>. QED BY <1>9, <1>10

\* A spend the circuits accept is of what the account has, and leaves the rest:
\* the number the wallet replayed is the one the commitment on chain carries.
LEMMA SpendsWhatItHas ==
  ASSUME FundsInv, NEW a \in Accounts, NEW w, NEW amount \in 0 .. MaxValue,
         w.inputs.v = FieldIn(state[a].spendable.v), SpendAccepted(a, w, amount)
  PROVE  /\ amount \in Nat /\ amount <= onchain[a].spendableC.g
         /\ w.payload.cSpendNew.g = onchain[a].spendableC.g - amount
<1>. DEFINE v == state[a].spendable.v
            then == commits[fed[a] + 1]
<1>1. then \in Commitments /\ SumFunction(Balances(then)) \in 0 .. MaxSupply
  <2>1. fed[a] + 1 \in 1 .. Len(commits)
    BY DEF FundsInv, WalletInv, TypeOK
  <2>. QED BY <2>1 DEF FundsInv, WalletInv, TypeOK, EscrowBacked
<1>2. v = then[a].spendableC.g
  BY DEF FundsInv, WalletsHoldFunds, Holds
<1>. HIDE DEF v, then
<1>3. v \in Nat /\ v <= MaxSupply
  <2>1. /\ then[a].spendableC.g \in Nat /\ then[a].receivingC.g \in Nat
        /\ Balances(then)[a] = then[a].spendableC.g + then[a].receivingC.g
    BY <1>1, BalancesType
  <2>2. Balances(then)[a] <= SumFunction(Balances(then))
    BY <1>1, HoldsAtMost
  <2>. QED BY <1>1, <1>2, <2>1, <2>2, SmallSupply
<1>4. w.inputs.v = v
  <2>1. v % FrModulus = v
    BY <1>3, SmallSupply
  <2>. QED BY <2>1 DEF FieldIn, FrMod, v
<1>5. v = onchain[a].spendableC.g
  <2>1. Commit(v, w.inputs.r) = onchain[a].spendableC
    BY <1>4 DEF SpendAccepted
  <2>2. Commit(v, w.inputs.r).g = v
    BY <1>3, CommitsTo, SmallSupply
  <2>. QED BY <2>1, <2>2
<1>6. amount \in Nat /\ v - amount \in 0 .. MaxValue
  BY <1>4, WitnessAssumption, FieldAssumption DEF SpendAccepted, Fr
<1>7. w.payload.cSpendNew.g = v - amount
  <2>. DEFINE rest == v - amount
  <2>1. w.payload.cSpendNew = Commit(rest, DeriveSpendR(a, w.payload.sigma))
    BY <1>4 DEF SpendAccepted
  <2>2. rest \in Nat /\ rest < FpModulus
    BY <1>3, <1>6, SmallSupply
  <2>. HIDE DEF rest
  <2>3. w.payload.cSpendNew.g = rest
    BY <2>1, <2>2, CommitsTo
  <2>. QED BY <2>3 DEF rest
<1>. QED BY <1>3, <1>5, <1>6, <1>7, WitnessAssumption, FieldAssumption DEF Fr

\* A withdrawal takes its amount out of the account and out of the escrow.
LEMMA WithdrawKeepsFunds ==
  ASSUME FundsInv, WalletInv', NEW a \in Accounts, NEW amount \in 0 .. MaxValue,
         NEW sigma \in Sigmas, Withdraw(a, amount, sigma)
  PROVE  FundsInv' /\ amount \in 0 .. MaxSupply /\ Plain!Debit(a, amount)
<1>. DEFINE w == BuildWithdrawWitness(a, state[a].spendable, amount, sigma)
            ev == [ type |-> "withdraw", ledger |-> ledger, from |-> a,
                    sigma |-> w.payload.sigma, bTilde |-> w.payload.bTilde ]
            after == [onchain EXCEPT ![a].spendableC = w.payload.cSpendNew]
<1>1. /\ SpendAccepted(a, w, amount) /\ Emit(ev, after) /\ escrow' = escrow - amount
      /\ ev.type = "withdraw" /\ ev.ledger = ledger
  BY DEF Withdraw
<1>2. w.inputs.v = FieldIn(state[a].spendable.v)
  BY DEF BuildWithdrawWitness
<1>. HIDE DEF w
<1>3. /\ onchain \in Commitments /\ escrow \in 0 .. MaxSupply /\ MaxSupply \in Nat
      /\ SumFunction(Balances(onchain)) = escrow
      /\ onchain[a].spendableC.g \in Nat /\ onchain[a].receivingC.g \in Nat
      /\ onchain[a].spendableC.g + onchain[a].receivingC.g <= escrow
  BY FundsNow
<1>4. /\ amount \in Nat /\ amount <= onchain[a].spendableC.g
      /\ w.payload.cSpendNew.g = onchain[a].spendableC.g - amount
  BY <1>1, <1>2, SpendsWhatItHas
<1>5. /\ after[a].spendableC.g = onchain[a].spendableC.g - amount
      /\ after[a].receivingC = onchain[a].receivingC
      /\ \A b \in Accounts \ {a} : after[b] = onchain[b]
  BY <1>3, <1>4 DEF Commitments
<1>. HIDE DEF ev, after
<1>6. after \in Commitments /\ onchain' = after
  BY <1>1, EmitAdds DEF FundsInv
<1>7. SumFunction(Balances(after)) = escrow - amount
  <2>. DEFINE m == 0 - amount
  <2>1. Balances(after)[a] = Balances(onchain)[a] + m
    BY <1>3, <1>4, <1>5 DEF Balances
  <2>2. \A b \in Accounts \ {a} : Balances(after)[b] = Balances(onchain)[b]
    BY <1>5 DEF Balances
  <2>3. m \in Int /\ escrow + m = escrow - amount
    BY <1>3, <1>4
  <2>. HIDE DEF m
  <2>4. SumFunction(Balances(after)) = SumFunction(Balances(onchain)) + m
    BY <1>3, <1>6, <2>1, <2>2, <2>3, BalanceChanges
  <2>. QED BY <1>3, <2>3, <2>4
<1>8. MovesFunds(ev, onchain, after)
  BY <1>1 DEF MovesFunds
<1>9. escrow' \in 0 .. MaxSupply /\ amount \in 0 .. MaxSupply
  BY <1>1, <1>3, <1>4
<1>10. FundsInv'
  BY <1>1, <1>7, <1>8, <1>9, EmitKeepsFunds
<1>11. Plain!Debit(a, amount)
  BY <1>4, <1>5, <1>6 DEF Plain!Debit
<1>. QED BY <1>9, <1>10, <1>11

\* A transfer carries its amount from one account to another, or to itself.
LEMMA TransferKeepsFunds ==
  ASSUME FundsInv, WalletInv', NEW a \in Accounts, NEW b \in Accounts,
         NEW amount \in 0 .. MaxValue, NEW sigma \in Sigmas,
         Transfer(a, b, amount, sigma)
  PROVE  FundsInv' /\ amount \in 0 .. MaxSupply /\ Plain!Send(a, b, amount)
<1>. DEFINE w == BuildTransferWitness(a, state[a].spendable, b, amount, sigma)
            p == w.payload
            ev == [ type |-> "transfer", ledger |-> ledger, from |-> a, to |-> b,
                    rE |-> p.rE, vTilde |-> p.vTilde, sigma |-> p.sigma,
                    bTilde |-> p.bTilde ]
            spent == [onchain EXCEPT ![a].spendableC = p.cSpendNew]
            after == [onchain EXCEPT ![a].spendableC = p.cSpendNew,
                                     ![b].receivingC = PointAdd(@, p.cTx)]
            s == Ecdh(b, p.rE)
            mask == Digest("TX_AMOUNT", s, sigma)
            blind == DeriveTxBlind(s, sigma)
<1>1. /\ SpendAccepted(a, w, amount) /\ Emit(ev, after) /\ escrow' = escrow
      /\ p.cTx = Commit(amount, DeriveTxBlind(s, p.sigma))
      /\ p.vTilde = FrAdd(amount, Digest("TX_AMOUNT", s, p.sigma))
  <2>1. TransferAccepted(a, b, w, amount)
    BY DEF Transfer
  <2>2. Emit(ev, after) /\ escrow' = escrow
    BY DEF Transfer
  <2>. QED BY <2>1, <2>2 DEF TransferAccepted, EncryptAmount
<1>2. /\ w.inputs.v = FieldIn(state[a].spendable.v)
      /\ p.sigma = sigma /\ p.rE = <<a, sigma>>
  BY DEF BuildTransferWitness, EphemeralRE
<1>. HIDE DEF w
<1>3. /\ onchain \in Commitments /\ escrow \in 0 .. MaxSupply /\ MaxSupply \in Nat
      /\ SumFunction(Balances(onchain)) = escrow
      /\ onchain[a].spendableC.g \in Nat /\ onchain[a].receivingC.g \in Nat
      /\ onchain[a].spendableC.g + onchain[a].receivingC.g <= escrow
  BY FundsNow
<1>4. /\ amount \in Nat /\ amount <= onchain[a].spendableC.g
      /\ p.cSpendNew.g = onchain[a].spendableC.g - amount
  BY <1>1, <1>2, SpendsWhatItHas
<1>5. /\ onchain[b].spendableC.g \in Nat /\ onchain[b].receivingC.g \in Nat
      /\ onchain[b].spendableC.g + onchain[b].receivingC.g <= escrow
  BY FundsNow
<1>6. DecryptIncoming(b, ev).v = amount
  <2>1. s = <<b, a, sigma>> /\ s \in Secret
    <3>1. p.rE[1] = a /\ p.rE[2] = sigma
      BY <1>2
    <3>2. s = <<b, a, sigma>>
      BY <3>1 DEF Ecdh
    <3>. QED BY <3>2, SecretType
  <2>2. mask \in Fr
    <3>1. "TX_AMOUNT" \in Domain
      BY DEF Domain
    <3>. HIDE DEF s
    <3>. QED BY <2>1, <3>1, DigestType
  <2>3. amount \in Fr
    BY WitnessAssumption, FieldAssumption DEF Fr
  <2>4. ev.rE = p.rE /\ ev.sigma = sigma /\ ev.vTilde = FrAdd(amount, mask)
    BY <1>1, <1>2
  <2>. HIDE DEF ev, mask
  <2>5. FrMod(ev.vTilde - mask) = amount
    BY <2>2, <2>3, <2>4, Unmask
  <2>. QED BY <2>4, <2>5 DEF DecryptIncoming, mask
<1>7. ev.type = "transfer" /\ ev.ledger = ledger /\ ev.to = b
  OBVIOUS
<1>8. spent \in [Accounts -> [spendableC : Point \cup {p.cSpendNew}, receivingC : Point]]
  BY <1>3 DEF Commitments
<1>9. /\ spent[a].spendableC = p.cSpendNew /\ spent[a].receivingC = onchain[a].receivingC
      /\ \A x \in Accounts \ {a} : spent[x] = onchain[x]
  BY <1>3 DEF Commitments
<1>10. after = [spent EXCEPT ![b].receivingC = PointAdd(@, p.cTx)]
  OBVIOUS
<1>. HIDE DEF ev, after, spent
<1>11. /\ after[b].receivingC = PointAdd(spent[b].receivingC, p.cTx)
       /\ after[b].spendableC = spent[b].spendableC
       /\ \A x \in Accounts \ {b} : after[x] = spent[x]
  BY <1>8, <1>10
<1>12. after \in Commitments /\ onchain' = after
  BY <1>1, EmitAdds DEF FundsInv
<1>13. spent \in Commitments
  <2>1. after[a].spendableC = p.cSpendNew
    BY <1>9, <1>11
  <2>2. p.cSpendNew \in Point
    BY <1>12, <2>1 DEF Commitments
  <2>. QED BY <1>8, <2>2 DEF Commitments
<1>14. spent[b].receivingC = onchain[b].receivingC
  BY <1>9
<1>15. after[b].receivingC.g = onchain[b].receivingC.g + amount
  <2>1. amount + onchain[b].receivingC.g < FpModulus /\ amount < FpModulus
    <3>1. CASE a = b
      BY <1>3, <1>4, <3>1, SmallSupply
    <3>2. CASE a # b
      <4>1. Balances(spent)[a] = Balances(onchain)[a] + (0 - amount)
        BY <1>3, <1>4, <1>9 DEF Balances
      <4>2. \A x \in Accounts \ {a} : Balances(spent)[x] = Balances(onchain)[x]
        BY <1>9 DEF Balances
      <4>3. SumFunction(Balances(spent)) = escrow - amount
        <5>. DEFINE m == 0 - amount
        <5>1. m \in Int /\ escrow + m = escrow - amount
          BY <1>3, <1>4
        <5>2. Balances(spent)[a] = Balances(onchain)[a] + m
          BY <4>1
        <5>. HIDE DEF m
        <5>. QED BY <1>3, <1>13, <4>2, <5>1, <5>2, BalanceChanges
      <4>4. Balances(spent)[b] <= SumFunction(Balances(spent))
        BY <1>13, HoldsAtMost
      <4>5. Balances(spent)[b] = onchain[b].spendableC.g + onchain[b].receivingC.g
        BY <1>9, <3>2 DEF Balances
      <4>. QED BY <1>3, <1>4, <1>5, <4>3, <4>4, <4>5, SmallSupply
    <3>. QED BY <3>1, <3>2
  <2>. DEFINE q == Commit(amount, DeriveTxBlind(s, p.sigma))
  <2>2. q.g = amount
    <3>. HIDE DEF s, p
    <3>. QED BY <1>4, <2>1, CommitsTo
  <2>3. p.cTx = q
    BY <1>1
  <2>. HIDE DEF q
  <2>4. PointAdd(onchain[b].receivingC, q).g = onchain[b].receivingC.g + q.g
    BY <1>4, <1>5, <2>1, <2>2, AddsUp
  <2>. QED BY <1>11, <1>14, <2>2, <2>3, <2>4
<1>16. SumFunction(Balances(after)) = escrow
  <2>. DEFINE m == 0 - amount
  <2>1. m \in Int /\ escrow + m + amount = escrow
    BY <1>3, <1>4
  <2>2. Balances(spent)[a] = Balances(onchain)[a] + m
    BY <1>3, <1>4, <1>9 DEF Balances
  <2>3. \A x \in Accounts \ {a} : Balances(spent)[x] = Balances(onchain)[x]
    BY <1>9 DEF Balances
  <2>4. Balances(after)[b] = Balances(spent)[b] + amount
    <3>1. spent[b].spendableC.g \in Nat
      BY <1>13, BalancesType
    <3>. QED BY <1>4, <1>5, <1>11, <1>14, <1>15, <3>1 DEF Balances
  <2>5. \A x \in Accounts \ {b} : Balances(after)[x] = Balances(spent)[x]
    BY <1>11 DEF Balances
  <2>. HIDE DEF m
  <2>6. SumFunction(Balances(spent)) = SumFunction(Balances(onchain)) + m
    BY <1>3, <1>13, <2>1, <2>2, <2>3, BalanceChanges
  <2>7. SumFunction(Balances(after)) = SumFunction(Balances(spent)) + amount
    BY <1>4, <1>12, <1>13, <2>4, <2>5, BalanceChanges
  <2>. QED BY <1>3, <2>1, <2>6, <2>7
<1>17. MovesFunds(ev, onchain, after)
  BY <1>6, <1>7, <1>15 DEF MovesFunds
<1>18. escrow' \in 0 .. MaxSupply /\ amount \in 0 .. MaxSupply
  BY <1>1, <1>3, <1>4
<1>19. FundsInv'
  BY <1>1, <1>7, <1>16, <1>17, <1>18, EmitKeepsFunds
<1>20. Plain!Send(a, b, amount)
  <2>1. \A x \in Accounts :
          after[x].spendableC.g =
            IF x = a THEN onchain[x].spendableC.g - amount ELSE onchain[x].spendableC.g
    BY <1>4, <1>9, <1>11
  <2>2. \A x \in Accounts :
          after[x].receivingC.g =
            IF x = b THEN onchain[x].receivingC.g + amount ELSE onchain[x].receivingC.g
    BY <1>9, <1>11, <1>15
  <2>. QED BY <1>4, <1>12, <2>1, <2>2 DEF Plain!Send
<1>. QED BY <1>18, <1>19, <1>20

\* Before the first event nobody holds anything.
LEMMA FundsInvInit ==
  ASSUME Init
  PROVE  FundsInv
<1>1. WalletInv
  BY WalletInvInit
<1>2. Len(log) = 0 /\ Len(commits) = 1 /\ commits[1] \in Commitments /\ onchain = commits[1]
  BY <1>1 DEF Init, WalletInv, TypeOK, onchain
<1>3. Commit(0, 0).g = 0
  BY SmallSupply, CommitsTo
<1>4. \A a \in Accounts : commits[1][a].spendableC.g = 0 /\ commits[1][a].receivingC.g = 0
  BY <1>3 DEF Init
<1>5. LogMovesFunds
  BY <1>2 DEF LogMovesFunds
<1>6. EscrowBacked
  <2>1. \A a \in Accounts : Balances(commits[1])[a] = 0
    BY <1>4 DEF Balances
  <2>2. Balances(commits[1]) \in [Accounts -> Int]
    BY <1>2, BalancesType
  <2>3. SumFunction(Balances(commits[1])) = 0
    BY <2>1, <2>2, SumOfZeros, SmallSupply
  <2>. QED BY <1>2, <2>3, SmallSupply DEF EscrowBacked, Init
<1>7. WalletsHoldFunds
  <2>1. \A a \in Accounts : Holds(FreshState, commits[1][a])
    BY <1>4 DEF Holds, FreshState, ZeroOpening
  <2>. QED BY <1>2, <2>1 DEF WalletsHoldFunds, Init
<1>. QED BY <1>1, <1>5, <1>6, <1>7 DEF FundsInv

\* Every step keeps the amounts right, and is a step of the plain token or leaves
\* every balance as it is.
LEMMA FundsInvStep ==
  ASSUME FundsInv, [Next]_vars
  PROVE  FundsInv' /\ [Plain!Next]_(Plain!balances)
<1>0. WalletInv'
  BY WalletInvStep DEF FundsInv
<1>1. ASSUME onchain' = onchain PROVE UNCHANGED Plain!balances
  BY <1>1 DEF Plain!balances
<1>2. CASE UNCHANGED vars \/ CloseLedger
  <2>1. /\ log' = log /\ commits' = commits /\ escrow' = escrow
        /\ state' = state /\ fed' = fed /\ saved' = saved
    BY <1>2 DEF vars, chainVars, walletVars, CloseLedger
  <2>2. onchain' = onchain
    BY <2>1 DEF onchain
  <2>. QED BY <1>0, <1>1, <2>1, <2>2, StillFunds
<1>3. ASSUME NEW a \in Accounts, Register(a)
      PROVE  FundsInv' /\ [Plain!Next]_(Plain!balances)
  BY <1>0, <1>1, <1>3, RegisterKeepsFunds
<1>4. ASSUME NEW a \in Accounts, NEW amount \in DepositAmounts, Deposit(a, amount)
      PROVE  FundsInv' /\ [Plain!Next]_(Plain!balances)
  <2>1. FundsInv' /\ amount \in 0 .. MaxSupply /\ Plain!Credit(a, amount)
    BY <1>0, <1>4, DepositKeepsFunds
  <2>. QED BY <2>1 DEF Plain!Next
<1>5. ASSUME NEW a \in Accounts, Merge(a)
      PROVE  FundsInv' /\ [Plain!Next]_(Plain!balances)
  <2>1. FundsInv' /\ Plain!Collect(a)
    BY <1>0, <1>5, MergeKeepsFunds
  <2>. QED BY <2>1 DEF Plain!Next
<1>6. ASSUME NEW a \in Accounts, NEW amount \in 0 .. MaxValue, NEW sigma \in Sigmas,
             Withdraw(a, amount, sigma)
      PROVE  FundsInv' /\ [Plain!Next]_(Plain!balances)
  <2>1. FundsInv' /\ amount \in 0 .. MaxSupply /\ Plain!Debit(a, amount)
    BY <1>0, <1>6, WithdrawKeepsFunds
  <2>. QED BY <2>1 DEF Plain!Next
<1>7. ASSUME NEW a \in Accounts, NEW amount \in 0 .. MaxValue, NEW sigma \in Sigmas,
             NEW b \in Accounts, Transfer(a, b, amount, sigma)
      PROVE  FundsInv' /\ [Plain!Next]_(Plain!balances)
  <2>1. FundsInv' /\ amount \in 0 .. MaxSupply /\ Plain!Send(a, b, amount)
    BY <1>0, <1>7, TransferKeepsFunds
  <2>. QED BY <2>1 DEF Plain!Next
<1>8. ASSUME NEW a \in Accounts, Ingest(a)
      PROVE  FundsInv' /\ [Plain!Next]_(Plain!balances)
  <2>1. onchain' = onchain
    BY <1>8 DEF Ingest, chainVars, onchain
  <2>. QED BY <1>0, <1>1, <1>8, <2>1, IngestKeepsFunds
<1>9. ASSUME NEW a \in Accounts, Restart(a)
      PROVE  FundsInv' /\ [Plain!Next]_(Plain!balances)
  <2>1. onchain' = onchain
    BY <1>9 DEF Restart, chainVars, onchain
  <2>. QED BY <1>0, <1>1, <1>9, <2>1, RestartKeepsFunds
<1>. QED BY <1>2, <1>3, <1>4, <1>5, <1>6, <1>7, <1>8, <1>9 DEF Next

\* The invariant of the amounts holds throughout: deposits, merges and payments of
\* amounts below both moduli never wrap, so every number a wallet of engine.ts
\* replays is the number the account held at the wallet's place in the log.
THEOREM FundsInvariance == Spec => []FundsInv
<1>1. Init => FundsInv
  BY FundsInvInit
<1>2. FundsInv /\ [Next]_vars => FundsInv'
  BY FundsInvStep
<1>. QED BY <1>1, <1>2, PTL DEF Spec

\* When every wallet has replayed the whole log, what they believe they own adds
\* up to what the contract holds.
THEOREM FundsAccounted == Spec => []WalletsAccountForEscrow
<1>1. FundsInv => WalletsAccountForEscrow
  <2>. SUFFICES ASSUME FundsInv, \A a \in Accounts : fed[a] = Len(log)
                PROVE  SumFunction(Held) = escrow
    BY DEF WalletsAccountForEscrow
  <2>1. \A a \in Accounts : Holds(state[a], onchain[a])
    BY DEF FundsInv, WalletsHoldFunds, onchain
  <2>2. Held = Balances(onchain)
    BY <2>1 DEF Held, Balances, Holds
  <2>. QED BY <2>2 DEF FundsInv, EscrowBacked
<1>. QED BY <1>1, FundsInvariance, PTL

\* The confidential token is a plain token: whatever travels encrypted, each call
\* credits, collects, debits or sends a visible amount, and never overdraws.
THEOREM ImplementsPlain == Spec => ImplementsPlainToken
<1>1. Init => Plain!Init
  <2>. SUFFICES ASSUME Init PROVE Plain!Init
    OBVIOUS
  <2>1. Len(log) = 0 /\ onchain = commits[1]
    BY DEF Init, onchain
  <2>2. Commit(0, 0).g = 0
    BY SmallSupply, CommitsTo
  <2>. QED BY <2>1, <2>2 DEF Init, Plain!Init
<1>2. FundsInv /\ [Next]_vars => [Plain!Next]_(Plain!balances)
  BY FundsInvStep
<1>. QED BY <1>1, <1>2, FundsInvariance, PTL DEF Spec, ImplementsPlainToken, Plain!Spec
=============================================================================
