-------------------------- MODULE DisclosureProofs --------------------------
(***************************************************************************)
(* For every set of accounts, contracts, salts and keys, and any number of *)
(* events: auditors read what their keys entitle them to, and no two kinds *)
(* of plaintext share a pad.                                               *)
(*                                                                         *)
(* The argument: every event is the payload of the call that emitted it    *)
(* (EventExplained).  Every step keeps this, and both properties follow    *)
(* from the shape of a payload.                                            *)
(***************************************************************************)
EXTENDS Disclosure, Induction, SequenceTheorems, FiniteSetTheorems

-----------------------------------------------------------------------------
(* The induction over the log. *)

\* An event carries the payload of the call that emitted it.
EventExplained(ev) ==
  /\ ev.type \in {"transfer", "withdraw"}
  /\ ev.from \in Accounts /\ ev.to \in Accounts
  /\ IF ev.type = "transfer"
     THEN \E v, rE : \E sigma \in Sigmas :
            /\ IsScalar(rE) /\ ev.left = v - ev.amount /\ ev.rEScalar = rE
            /\ rE \in {DeriveEphemeralRE(Keys[ev.from][Token].vk, sigma)} \cup Ephemerals
            /\ ev.data = TransferPayload(v, ev.amount, sigma, rE, Keys[ev.from][Token].vk, PVK(ev.to),
                           ScalarMul(AuditorOf[ev.to]), ScalarMul(AuditorOf[ev.from]))
     ELSE \E v, sigma, rE :
            /\ IsScalar(rE) /\ ev.left = v - ev.amount
            /\ ev.data = WithdrawPayload(v, ev.amount, sigma, rE, Keys[ev.from][Token].vk,
                           ScalarMul(AuditorOf[ev.from]))

LogInv ==
  /\ \E S : log \in Seq(S)
  /\ Len(log) <= MaxSpends
  /\ \A i \in 1 .. Len(log) : EventExplained(log[i])

\* What is appended is explained, if the entry is.
LEMMA AppendExplained ==
  ASSUME LogInv, NEW ev, EventExplained(ev), Len(log) < MaxSpends, log' = Append(log, ev)
  PROVE  LogInv'
<1>1. PICK S : log \in Seq(S)
  BY DEF LogInv
<1>2. log \in Seq(S \cup {ev})
  BY <1>1, SeqDef
<1>3. log' \in Seq(S \cup {ev}) /\ Len(log') = Len(log) + 1 /\ Len(log) \in Nat
      /\ (\A i \in 1 .. Len(log) : log'[i] = log[i]) /\ log'[Len(log) + 1] = ev
  BY <1>2, AppendProperties, LenProperties
<1>4. \A i \in 1 .. Len(log') : EventExplained(log'[i])
  <2>. SUFFICES ASSUME NEW i \in 1 .. Len(log') PROVE EventExplained(log'[i])
    OBVIOUS
  <2>1. CASE i \in 1 .. Len(log)
    BY <2>1, <1>3 DEF LogInv
  <2>2. CASE i = Len(log) + 1
    BY <2>2, <1>3
  <2>. QED BY <2>1, <2>2, <1>3
<1>5. (\E T : log \in Seq(T))'
  BY <1>3
<1>6. (\A i \in 1 .. Len(log) : EventExplained(log[i]))'
  BY <1>4
<1>7. (Len(log) <= MaxSpends)'
  BY <1>3, DisclosureAssumption
<1>. QED BY <1>5, <1>6, <1>7 DEF LogInv

\* A call's event is explained by the call.
LEMMA TransferExplained ==
  ASSUME LogInv, NEW a \in Accounts, NEW b \in Accounts, NEW amount, NEW sigma \in Sigmas, NEW rE,
         Transfer(a, b, amount, sigma, rE)
  PROVE  LogInv'
<1>. DEFINE ev == [ type |-> "transfer", from |-> a, to |-> b,
                    amount |-> amount, left |-> balance[a] - amount, rEScalar |-> rE,
                    data |-> TransferPayload(balance[a], amount, sigma, rE, Keys[a][Token].vk, PVK(b),
                               ScalarMul(AuditorOf[b]), ScalarMul(AuditorOf[a])) ]
<1>1. log' = Append(log, ev) /\ Len(log) < MaxSpends
  BY DEF Transfer, Emit
<1>2. IsScalar(rE)
  <2>1. rE = DeriveEphemeralRE(Keys[a][Token].vk, sigma) \/ rE \in Ephemerals
    BY DEF Transfer
  <2>2. IsScalar(DeriveEphemeralRE(Keys[a][Token].vk, sigma))
    BY DEF DeriveEphemeralRE, Scalar, IsScalar
  <2>. QED BY <2>1, <2>2, DisclosureAssumption
<1>3. EventExplained(ev)
  <2>1. rE \in {DeriveEphemeralRE(Keys[ev.from][Token].vk, sigma)} \cup Ephemerals
    BY DEF Transfer
  <2>. DEFINE v == balance[a]
  <2>2. /\ ev.left = v - ev.amount /\ ev.rEScalar = rE /\ ev.to = b /\ ev.from = a
        /\ ev.data = TransferPayload(v, ev.amount, sigma, rE, Keys[ev.from][Token].vk, PVK(ev.to),
                       ScalarMul(AuditorOf[ev.to]), ScalarMul(AuditorOf[ev.from]))
        /\ ev.type = "transfer"
    OBVIOUS
  <2>. HIDE DEF ev, v
  <2>. QED BY <1>2, <2>1, <2>2 DEF EventExplained
<1>. QED BY <1>1, <1>3, AppendExplained

LEMMA WithdrawExplained ==
  ASSUME LogInv, NEW a \in Accounts, NEW amount, NEW sigma, NEW rE,
         Withdraw(a, amount, sigma, rE)
  PROVE  LogInv'
<1>. DEFINE ev == [ type |-> "withdraw", from |-> a, to |-> a, amount |-> amount,
                    left |-> balance[a] - amount,
                    data |-> WithdrawPayload(balance[a], amount, sigma, rE, Keys[a][Token].vk,
                                             ScalarMul(AuditorOf[a])) ]
<1>1. log' = Append(log, ev) /\ Len(log) < MaxSpends
  BY DEF Withdraw, Emit
<1>2. IsScalar(rE)
  BY DisclosureAssumption DEF Withdraw
<1>3. EventExplained(ev)
  BY <1>2 DEF EventExplained
<1>. QED BY <1>1, <1>3, AppendExplained

\* Every other step leaves the log alone.
LEMMA LogKept ==
  ASSUME LogInv, UNCHANGED log
  PROVE  LogInv'
<1>1. (\E S : log \in Seq(S))'
  BY DEF LogInv
<1>2. (\A i \in 1 .. Len(log) : EventExplained(log[i]))'
  BY DEF LogInv
<1>3. (Len(log) <= MaxSpends)'
  BY DEF LogInv
<1>. QED BY <1>1, <1>2, <1>3 DEF LogInv

\* A holder's answer adds a bundle and leaves the chain and the requests alone.
LEMMA ProveLeaves ==
  ASSUME NEW a, NEW c, NEW i, NEW n, ProveDisclosure(a, c, i, n)
  PROVE  UNCHANGED <<log, requests>> /\ verdict' = Unread
<1>1. PICK ev : \/ ProveRecipientDisclosure(a, c, i, n, EventRef(ev))
                \/ \E kept \in BOOLEAN : ProveSenderDisclosure(a, c, i, n, EventRef(ev), kept)
  BY DEF ProveDisclosure
<1>2. CASE ProveRecipientDisclosure(a, c, i, n, EventRef(ev))
  BY <1>2 DEF ProveRecipientDisclosure, Answer
<1>3. CASE \E kept \in BOOLEAN : ProveSenderDisclosure(a, c, i, n, EventRef(ev), kept)
  <2>1. PICK kept \in BOOLEAN : ProveSenderDisclosure(a, c, i, n, EventRef(ev), kept)
    BY <1>3
  <2>. QED BY <2>1 DEF ProveSenderDisclosure, Answer
<1>. QED BY <1>1, <1>2, <1>3

\* Everything on the log is the payload of the call that emitted it, at all times.
THEOREM LogInvariance == Spec => []LogInv
<1>1. Init => LogInv
  <2>. SUFFICES ASSUME Init PROVE LogInv
    OBVIOUS
  <2>1. log \in Seq({}) /\ Len(log) = 0
    BY DEF Init
  <2>. QED BY <2>1, DisclosureAssumption DEF LogInv
<1>2. LogInv /\ [Next]_vars => LogInv'
  <2>. SUFFICES ASSUME LogInv, [Next]_vars PROVE LogInv'
    OBVIOUS
  <2>1. CASE \E a, b \in Accounts, v \in Amounts, sigma \in Sigmas :
               \E rE \in {DeriveEphemeralRE(Keys[a][Token].vk, sigma)} \cup Ephemerals :
                 Transfer(a, b, v, sigma, rE)
    BY <2>1, TransferExplained
  <2>2. CASE \E a \in Accounts, v \in Amounts, sigma \in Sigmas, rE \in Ephemerals :
               Withdraw(a, v, sigma, rE)
    BY <2>2, WithdrawExplained
  <2>3. CASE \E rR \in DeskKeys : NewDisclosureRequest(rR)
    BY <2>3, LogKept DEF NewDisclosureRequest
  <2>4. CASE \E a \in Accounts, c \in Contracts, i \in DOMAIN log, n \in DOMAIN requests :
               ProveDisclosure(a, c, i, n)
    BY <2>4, ProveLeaves, LogKept
  <2>5. CASE \E made \in bundles, n \in DOMAIN requests, refE \in References, rpc \in {DOMAIN log, {}} :
               Verify(made, n, refE, rpc)
    BY <2>5, LogKept DEF Verify
  <2>6. CASE UNCHANGED vars
    BY <2>6, LogKept DEF vars
  <2>. QED BY <2>1, <2>2, <2>3, <2>4, <2>5, <2>6 DEF Next
<1>. QED BY <1>1, <1>2, PTL DEF Spec

-----------------------------------------------------------------------------
(* Pads. *)

\* Amounts take squeeze 0; checkpoints and blindings take squeeze 1, and the wallet's own
\* checkpoint a domain of its own.
LEMMA TransferPads ==
  ASSUME NEW v, NEW amount, NEW sigma, NEW rE, NEW vk, NEW pvkB, NEW kAudR, NEW kAudS
  PROVE  LET data == TransferPayload(v, amount, sigma, rE, vk, pvkB, kAudR, kAudS) IN
         /\ \A c \in {data.vTilde, data.vAudR, data.vAudS} :
              c.pad[2] = 0 /\ c.pad[1] # "ENCRYPTED_BALANCE"
         /\ data.rAudR.pad[2] = 1
         /\ data.bAudS.pad[2] = 1
         /\ data.bTilde.pad[1] = "ENCRYPTED_BALANCE"
<1>. DEFINE data == TransferPayload(v, amount, sigma, rE, vk, pvkB, kAudR, kAudS)
<1>1. data.vTilde.pad[2] = 0 /\ data.vTilde.pad[1] = "TX_AMOUNT"
  BY DEF TransferPayload, EncryptAmount, Mask, PoseidonWithDomain, SpongeSqueeze2
<1>2. data.vAudR.pad[2] = 0 /\ data.vAudR.pad[1] = "AUDITOR_RECIPIENT" /\ data.rAudR.pad[2] = 1
  BY DEF TransferPayload, Mask, SpongeSqueeze2
<1>3. data.vAudS.pad[2] = 0 /\ data.vAudS.pad[1] = "AUDITOR_SENDER" /\ data.bAudS.pad[2] = 1
  BY DEF TransferPayload, Mask, SpongeSqueeze2
<1>4. data.bTilde.pad[1] = "ENCRYPTED_BALANCE"
  BY DEF TransferPayload, EncryptBalance, Mask, PoseidonWithDomain, SpongeSqueeze2
<1>. QED BY <1>1, <1>2, <1>3, <1>4

LEMMA WithdrawPads ==
  ASSUME NEW v, NEW amount, NEW sigma, NEW rE, NEW vk, NEW kAudS
  PROVE  /\ WithdrawPayload(v, amount, sigma, rE, vk, kAudS).bAudS.pad[2] = 1
         /\ WithdrawPayload(v, amount, sigma, rE, vk, kAudS).bTilde.pad[1] = "ENCRYPTED_BALANCE"
BY DEF WithdrawPayload, EncryptAuditorSenderBalance, EncryptBalance, PoseidonWithDomain, Mask,
       SpongeSqueeze2

LEMMA EventPads ==
  ASSUME NEW ev, EventExplained(ev)
  PROVE  /\ ev.data.bAudS.pad[2] = 1
         /\ ev.data.bTilde.pad[1] = "ENCRYPTED_BALANCE"
         /\ ev.type = "transfer" =>
              /\ \A c \in {ev.data.vTilde, ev.data.vAudR, ev.data.vAudS} :
                   c.pad[2] = 0 /\ c.pad[1] # "ENCRYPTED_BALANCE"
              /\ ev.data.rAudR.pad[2] = 1
<1>1. CASE ev.type = "transfer"
  BY <1>1, TransferPads DEF EventExplained
<1>2. CASE ev.type = "withdraw"
  BY <1>2, WithdrawPads DEF EventExplained
<1>. QED BY <1>1, <1>2 DEF EventExplained

\* No checkpoint shares its pad with an amount, nor an amount with a blinding,
\* however often a wallet draws one salt: they take different squeezes or domains.
THEOREM PadsApart == Spec => []PadsKeptApart
<1>1. LogInv => PadsKeptApart
  <2>. SUFFICES ASSUME LogInv PROVE PadsKeptApart
    OBVIOUS
  <2>1. DOMAIN log = 1 .. Len(log)
    BY LenProperties DEF LogInv
  <2>2. \A i \in DOMAIN log :
          /\ log[i].data.bAudS.pad[2] = 1
          /\ log[i].data.bTilde.pad[1] = "ENCRYPTED_BALANCE"
          /\ TransferAt(i) =>
               /\ \A c \in {log[i].data.vTilde, log[i].data.vAudR, log[i].data.vAudS} :
                    c.pad[2] = 0 /\ c.pad[1] # "ENCRYPTED_BALANCE"
               /\ log[i].data.rAudR.pad[2] = 1
    BY <2>1, EventPads DEF LogInv, TransferAt
  <2>. QED BY <2>2 DEF PadsKeptApart
<1>. QED BY <1>1, LogInvariance, PTL

-----------------------------------------------------------------------------
(* The auditors. *)

\* Two parties agree on a secret, and a key that reaches it is the other party's:
\* with both coordinates absorbed, not even the negated key does.
LEMMA EcdhIsOneKeys ==
  ASSUME NEW k, NEW a, NEW rE, IsScalar(k), IsScalar(a), IsScalar(rE)
  PROVE  Ecdh(k, ScalarMul(rE)) = Ecdh(rE, ScalarMul(a)) <=> k = a
<1>1. Ecdh(k, ScalarMul(rE)) = [between |-> {k.of, rE.of}, negated |-> k.negated # rE.negated]
  BY DEF Ecdh, ScalarMul
<1>2. Ecdh(rE, ScalarMul(a)) = [between |-> {rE.of, a.of}, negated |-> rE.negated # a.negated]
  BY DEF Ecdh, ScalarMul
<1>3. ASSUME k = a PROVE Ecdh(k, ScalarMul(rE)) = Ecdh(rE, ScalarMul(a))
  <2>1. {k.of, rE.of} = {rE.of, a.of}
    BY <1>3
  <2>2. (k.negated # rE.negated) = (rE.negated # a.negated)
    BY <1>3
  <2>. QED BY <1>1, <1>2, <2>1, <2>2
<1>4. ASSUME Ecdh(k, ScalarMul(rE)) = Ecdh(rE, ScalarMul(a)) PROVE k = a
  <2>1. {k.of, rE.of} = {rE.of, a.of}
    BY <1>1, <1>2, <1>4
  <2>2. (k.negated # rE.negated) = (rE.negated # a.negated)
    BY <1>1, <1>2, <1>4
  <2>3. k.of = a.of
    BY <2>1
  <2>4. k.negated = a.negated
    BY <2>2 DEF IsScalar
  <2>. QED BY <2>3, <2>4 DEF IsScalar
<1>. QED BY <1>3, <1>4

\* What a mask opens to: its plaintext, or something no plaintext equals.
LEMMA UnmaskOpens ==
  ASSUME NEW plain, NEW pad, NEW other
  PROVE  /\ other = pad => Unmask(Mask(plain, pad), other) = Plain(plain)
         /\ other # pad => /\ Unmask(Mask(plain, pad), other).pad = other
                           /\ \A v : Unmask(Mask(plain, pad), other) # Plain(v)
<1>1. Mask(plain, pad).pad = pad /\ Mask(plain, pad).cipher = plain
  BY DEF Mask
<1>2. ASSUME other = pad PROVE Unmask(Mask(plain, pad), other) = Plain(plain)
  BY <1>1, <1>2 DEF Unmask
<1>3. ASSUME other # pad
      PROVE  /\ Unmask(Mask(plain, pad), other).pad = other
             /\ \A v : Unmask(Mask(plain, pad), other) # Plain(v)
  <2>1. Unmask(Mask(plain, pad), other) = [masked |-> Mask(plain, pad), pad |-> other]
    BY <1>1, <1>3 DEF Unmask
  <2>2. "plain" \notin DOMAIN Unmask(Mask(plain, pad), other)
    BY <2>1
  <2>3. \A v : "plain" \in DOMAIN Plain(v)
    BY DEF Plain
  <2>. QED BY <2>1, <2>2, <2>3
<1>. QED BY <1>2, <1>3

\* One pad of the sponge is another's only with the same domain and secret.
LEMMA SqueezeIsOneSecrets ==
  ASSUME NEW domain, NEW s, NEW t, NEW sigma
  PROVE  /\ SpongeSqueeze2(domain, s, sigma)[1] = SpongeSqueeze2(domain, t, sigma)[1] <=> s = t
         /\ SpongeSqueeze2(domain, s, sigma)[2] = SpongeSqueeze2(domain, t, sigma)[2] <=> s = t
         /\ SpongeSqueeze2(domain, s, sigma)[1][1] = domain
BY DEF SpongeSqueeze2

\* What a key opens of a transfer.
LEMMA TransferAudited ==
  ASSUME NEW v, NEW amount, NEW sigma, NEW rE, NEW vk, NEW pvkB, NEW k, NEW aR, NEW aS,
         IsScalar(k), IsScalar(aR), IsScalar(aS), IsScalar(rE)
  PROVE  LET data == TransferPayload(v, amount, sigma, rE, vk, pvkB, ScalarMul(aR), ScalarMul(aS))
             audited == AuditTransfer(k, data)
         IN
         /\ audited.channelsAgree <=> k = aS /\ k = aR
         /\ k = aS => audited.amount = Plain(amount) /\ audited.senderBalance = Plain(v - amount)
         /\ k = aR => audited.rTx = Plain(data.cTx.r)
<1>. DEFINE data == TransferPayload(v, amount, sigma, rE, vk, pvkB, ScalarMul(aR), ScalarMul(aS))
            audited == AuditTransfer(k, data)
            mine(domain) == SpongeSqueeze2(domain, Ecdh(k, ScalarMul(rE)), sigma)
            theirs(domain, a) == SpongeSqueeze2(domain, Ecdh(rE, ScalarMul(a)), sigma)
            S == Unmask(Mask(amount, theirs("AUDITOR_SENDER", aS)[1]), mine("AUDITOR_SENDER")[1])
            B == Unmask(Mask(v - amount, theirs("AUDITOR_SENDER", aS)[2]), mine("AUDITOR_SENDER")[2])
            R == Unmask(Mask(amount, theirs("AUDITOR_RECIPIENT", aR)[1]), mine("AUDITOR_RECIPIENT")[1])
            T == Unmask(Mask(data.cTx.r, theirs("AUDITOR_RECIPIENT", aR)[2]), mine("AUDITOR_RECIPIENT")[2])
<1>1. /\ data.rE = ScalarMul(rE) /\ data.sigma = sigma
      /\ data.vAudS = Mask(amount, theirs("AUDITOR_SENDER", aS)[1])
      /\ data.bAudS = Mask(v - amount, theirs("AUDITOR_SENDER", aS)[2])
      /\ data.vAudR = Mask(amount, theirs("AUDITOR_RECIPIENT", aR)[1])
      /\ data.rAudR = Mask(data.cTx.r, theirs("AUDITOR_RECIPIENT", aR)[2])
  BY DEF TransferPayload
<1>2. /\ audited.amount = S /\ audited.senderBalance = B /\ audited.rTx = T
      /\ audited.channelsAgree = (S = R)
  BY <1>1 DEF AuditTransfer, AuditTransferSenderChannel, AuditTransferRecipientChannel
<1>3. /\ mine("AUDITOR_SENDER")[1] = theirs("AUDITOR_SENDER", aS)[1] <=> k = aS
      /\ mine("AUDITOR_SENDER")[2] = theirs("AUDITOR_SENDER", aS)[2] <=> k = aS
      /\ mine("AUDITOR_RECIPIENT")[1] = theirs("AUDITOR_RECIPIENT", aR)[1] <=> k = aR
      /\ mine("AUDITOR_RECIPIENT")[2] = theirs("AUDITOR_RECIPIENT", aR)[2] <=> k = aR
  BY EcdhIsOneKeys, SqueezeIsOneSecrets
<1>4. mine("AUDITOR_SENDER")[1] # mine("AUDITOR_RECIPIENT")[1]
  BY SqueezeIsOneSecrets
<1>. HIDE DEF mine, theirs, data
<1>5. /\ k = aS => S = Plain(amount) /\ B = Plain(v - amount)
      /\ k = aR => R = Plain(amount) /\ T = Plain(data.cTx.r)
  BY <1>3, UnmaskOpens
<1>6. /\ k # aS => S.pad = mine("AUDITOR_SENDER")[1] /\ \A w : S # Plain(w)
      /\ k # aR => R.pad = mine("AUDITOR_RECIPIENT")[1] /\ \A w : R # Plain(w)
  BY <1>3, UnmaskOpens
<1>. HIDE DEF S, R, B, T
<1>7. S = R <=> k = aS /\ k = aR
  <2>1. CASE k = aS /\ k = aR
    BY <2>1, <1>5
  <2>2. CASE k = aS /\ k # aR
    BY <2>2, <1>5, <1>6
  <2>3. CASE k # aS /\ k = aR
    BY <2>3, <1>5, <1>6
  <2>4. CASE k # aS /\ k # aR
    BY <2>4, <1>4, <1>6
  <2>. QED BY <2>1, <2>2, <2>3, <2>4
<1>8. audited.channelsAgree <=> k = aS /\ k = aR
  BY <1>2, <1>7
<1>. QED BY <1>2, <1>5, <1>8 DEF data

LEMMA WithdrawAudited ==
  ASSUME NEW v, NEW amount, NEW sigma, NEW rE, NEW vk, NEW a, IsScalar(a),
         IsScalar(rE)
  PROVE  AuditWithdraw(a, WithdrawPayload(v, amount, sigma, rE, vk, ScalarMul(a))) = Plain(v - amount)
<1>. DEFINE data == WithdrawPayload(v, amount, sigma, rE, vk, ScalarMul(a))
            theirs == SpongeSqueeze2("AUDITOR_SENDER", Ecdh(rE, ScalarMul(a)), sigma)[2]
            mine   == SpongeSqueeze2("AUDITOR_SENDER", Ecdh(a, ScalarMul(rE)), sigma)[2]
<1>1. data.rE = ScalarMul(rE) /\ data.sigma = sigma /\ data.bAudS = Mask(v - amount, theirs)
  BY DEF WithdrawPayload, EncryptAuditorSenderBalance
<1>2. mine = theirs
  BY EcdhIsOneKeys
<1>3. AuditWithdraw(a, data) = Unmask(Mask(v - amount, theirs), mine)
  BY <1>1 DEF AuditWithdraw
<1>. QED BY <1>2, <1>3, UnmaskOpens

\* Whatever the accounts, salts and ephemeral keys, an auditor opens what its key
\* entitles it to, and the two channels agree under exactly that key.
THEOREM AuditCorrect == Spec => []AuditIsRight
<1>1. LogInv => AuditIsRight
  <2>. SUFFICES ASSUME LogInv PROVE AuditIsRight
    OBVIOUS
  <2>1. DOMAIN log = 1 .. Len(log)
    BY LenProperties DEF LogInv
  <2>. DEFINE Right(ev, k) ==
         IF ev.type = "transfer"
         THEN LET audited == AuditTransfer(k, ev.data) IN
              /\ audited.channelsAgree <=> k = AuditorOf[ev.from] /\ k = AuditorOf[ev.to]
              /\ k = AuditorOf[ev.from] => /\ audited.amount = Plain(ev.amount)
                                           /\ audited.senderBalance = Plain(ev.left)
              /\ k = AuditorOf[ev.to] => audited.rTx = Plain(ev.data.cTx.r)
         ELSE k = AuditorOf[ev.from] => AuditWithdraw(k, ev.data) = Plain(ev.left)
  <2>2. ASSUME NEW ev, NEW k \in AuditorKeys, EventExplained(ev) PROVE Right(ev, k)
    <3>1. /\ IsScalar(k) /\ IsScalar(AuditorOf[ev.from]) /\ IsScalar(AuditorOf[ev.to])
      BY <2>2, DisclosureAssumption DEF EventExplained
    <3>2. CASE ev.type = "transfer"
      <4>1. PICK v, rE, sigma :
              /\ IsScalar(rE) /\ ev.left = v - ev.amount
              /\ ev.data = TransferPayload(v, ev.amount, sigma, rE, Keys[ev.from][Token].vk, PVK(ev.to),
                             ScalarMul(AuditorOf[ev.to]), ScalarMul(AuditorOf[ev.from]))
        BY <2>2, <3>2 DEF EventExplained
      <4>. QED BY <3>1, <3>2, <4>1, TransferAudited
    <3>3. CASE ev.type # "transfer"
      <4>1. PICK v, sigma, rE :
              /\ IsScalar(rE) /\ ev.left = v - ev.amount
              /\ ev.data = WithdrawPayload(v, ev.amount, sigma, rE, Keys[ev.from][Token].vk,
                             ScalarMul(AuditorOf[ev.from]))
        BY <2>2, <3>3 DEF EventExplained
      <4>. QED BY <3>1, <3>3, <4>1, WithdrawAudited
    <3>. QED BY <3>2, <3>3
  <2>3. \A i \in DOMAIN log, k \in AuditorKeys : Right(log[i], k)
    BY <2>1, <2>2 DEF LogInv
  <2>. QED BY <2>3 DEF AuditIsRight, TransferAt
<1>. QED BY <1>1, LogInvariance, PTL

-----------------------------------------------------------------------------
(* The rows: however one is written, it is read as the event it is of. *)

LEMMA JsonIs ==
  ASSUME NEW x
  PROVE  /\ DOMAIN Text(x) = {"text"} /\ Text(x).text = x
         /\ DOMAIN Record(x) = {"rec"} /\ Record(x).rec = x
         /\ DOMAIN Array(x) = {"arr"} /\ Array(x).arr = x
         /\ DOMAIN [json |-> x] = {"json"} /\ [json |-> x].json = x
         /\ DOMAIN [items |-> x] = {"items"} /\ [items |-> x].items = x
         /\ DOMAIN [map |-> x] = {"map"} /\ [map |-> x].map = x
<1>1. DOMAIN Text(x) = {"text"} /\ Text(x).text = x
  BY DEF Text
<1>2. DOMAIN Record(x) = {"rec"} /\ Record(x).rec = x
  BY DEF Record
<1>3. DOMAIN Array(x) = {"arr"} /\ Array(x).arr = x
  BY DEF Array
<1>4. DOMAIN [json |-> x] = {"json"} /\ [json |-> x].json = x
  OBVIOUS
<1>5. DOMAIN [items |-> x] = {"items"} /\ [items |-> x].items = x
  OBVIOUS
<1>6. DOMAIN [map |-> x] = {"map"} /\ [map |-> x].map = x
  OBVIOUS
<1>. QED BY <1>1, <1>2, <1>3, <1>4, <1>5, <1>6

\* JSON text of a value is read as the value; a value of itself.
LEMMA NormalizedIs ==
  ASSUME NEW x
  PROVE  /\ NormalizeJson([json |-> Record(x)]) = Record(x)
         /\ NormalizeJson(Record(x)) = Record(x)
         /\ NormalizeJson([json |-> Array(x)]) = Array(x)
         /\ NormalizeJson(Array(x)) = Array(x)
BY JsonIs DEF NormalizeJson

LEMMA ArrayIs ==
  ASSUME NEW x
  PROVE  AsArray(Array(x)) = x /\ AsArray(Record([items |-> x])) = x
<1>1. AsArray(Array(x)) = x
  BY JsonIs DEF AsArray
<1>2. AsRecord(Record([items |-> x])) = [items |-> x]
  BY JsonIs DEF AsRecord
<1>3. "arr" \notin DOMAIN Record([items |-> x])
  BY JsonIs
<1>4. AsArray(Record([items |-> x])) = x
  BY <1>2, <1>3, JsonIs DEF AsArray
<1>. QED BY <1>1, <1>4

\* A record of one of the tags yields its value.
LEMMA FirstIs ==
  ASSUME NEW tags, NEW n \in DOMAIN tags, NEW s, DOMAIN tags \subseteq Nat,
         \A k \in DOMAIN tags : tags[k] = tags[n] => k = n
  PROVE  FirstOf([t \in {tags[n]} |-> s], tags) = {s}
<1>. DEFINE rec == [t \in {tags[n]} |-> s]
            present == {k \in DOMAIN tags : tags[k] \in DOMAIN rec}
<1>0. DOMAIN rec = {tags[n]}
  OBVIOUS
<1>1. present = {n}
  <2>. HIDE DEF rec
  <2>. QED BY <1>0
<1>2. rec[tags[n]] = s /\ n <= n
  <2>1. tags[n] \in {tags[n]}
    OBVIOUS
  <2>. QED BY <2>1
<1>. HIDE DEF rec, present
<1>3. {k \in present : \A j \in present : k <= j} = {n}
  BY <1>1, <1>2
<1>4. {rec[tags[k]] : k \in {k \in present : \A j \in present : k <= j}} = {s}
  BY <1>2, <1>3
<1>. QED BY <1>4 DEF FirstOf, rec, present

LEMMA TaggedIs ==
  ASSUME NEW tag, NEW s
  PROVE  /\ AsRecord(Tagged(tag, s)) = [t \in {tag} |-> s]
         /\ "text" \notin DOMAIN Tagged(tag, s)
<1>. DEFINE rec == [t \in {tag} |-> s]
<1>1. Tagged(tag, s) = Record(rec)
  BY DEF Tagged
<1>. HIDE DEF rec
<1>2. AsRecord(Record(rec)) = rec /\ "text" \notin DOMAIN Record(rec)
  BY JsonIs DEF AsRecord
<1>. QED BY <1>1, <1>2 DEF rec

LEMMA StringIs ==
  ASSUME NEW s
  PROVE  /\ ScvString(Text(s)) = {s}
         /\ \A tag \in {"symbol", "address"} : ScvString(Tagged(tag, s)) = {s}
<1>. DEFINE tags == <<"symbol", "address", "string", "sym", "str", "value">>
<1>1. ScvString(Text(s)) = {s}
  BY JsonIs DEF ScvString
<1>2. /\ DOMAIN tags = 1 .. 6 /\ tags[1] = "symbol" /\ tags[2] = "address"
      /\ \A n \in {1, 2} : \A k \in 1 .. 6 : tags[k] = tags[n] => k = n
  OBVIOUS
<1>. HIDE DEF tags
<1>3. \A n \in {1, 2} : FirstOf([t \in {tags[n]} |-> s], tags) = {s}
  <2>. SUFFICES ASSUME NEW n \in {1, 2} PROVE FirstOf([t \in {tags[n]} |-> s], tags) = {s}
    OBVIOUS
  <2>1. n \in DOMAIN tags /\ DOMAIN tags \subseteq Nat
        /\ \A k \in DOMAIN tags : tags[k] = tags[n] => k = n
    BY <1>2
  <2>. QED BY <2>1, FirstIs
<1>4. \A tag \in {"symbol", "address"} : FirstOf([t \in {tag} |-> s], tags) = {s}
  <2>1. FirstOf([t \in {tags[1]} |-> s], tags) = {s} /\ FirstOf([t \in {tags[2]} |-> s], tags) = {s}
    BY <1>3
  <2>. QED BY <2>1, <1>2
<1>5. ASSUME NEW tag \in {"symbol", "address"} PROVE ScvString(Tagged(tag, s)) = {s}
  <2>1. AsRecord(Tagged(tag, s)) = [t \in {tag} |-> s] /\ "text" \notin DOMAIN Tagged(tag, s)
    BY TaggedIs
  <2>2. ScvString(Tagged(tag, s)) = FirstOf(AsRecord(Tagged(tag, s)), tags)
    BY <2>1 DEF ScvString, tags
  <2>3. FirstOf([t \in {tag} |-> s], tags) = {s}
    BY <1>4
  <2>. QED BY <2>1, <2>2, <2>3, Zenon
<1>. QED BY <1>1, <1>5

LEMMA BytesTextIs ==
  ASSUME NEW s
  PROVE  /\ ScvBytes(Text(s)) = {DecodeBytesString(s)}
         /\ \A tag \in {"bytes", "hex", "value"} : ScvBytes(Tagged(tag, s)) = {DecodeBytesString(s)}
<1>. DEFINE tags == <<"bytes", "hex", "b64", "bytesN", "value">>
<1>1. ScvBytes(Text(s)) = {DecodeBytesString(s)}
  BY JsonIs DEF ScvBytes
<1>2. /\ DOMAIN tags = 1 .. 5 /\ tags[1] = "bytes" /\ tags[2] = "hex" /\ tags[5] = "value"
      /\ \A n \in {1, 2, 5} : \A k \in 1 .. 5 : tags[k] = tags[n] => k = n
  OBVIOUS
<1>. HIDE DEF tags
<1>3. \A n \in {1, 2, 5} : FirstOf([t \in {tags[n]} |-> s], tags) = {s}
  <2>. SUFFICES ASSUME NEW n \in {1, 2, 5} PROVE FirstOf([t \in {tags[n]} |-> s], tags) = {s}
    OBVIOUS
  <2>1. n \in DOMAIN tags /\ DOMAIN tags \subseteq Nat
        /\ \A k \in DOMAIN tags : tags[k] = tags[n] => k = n
    BY <1>2
  <2>. QED BY <2>1, FirstIs
<1>4. \A tag \in {"bytes", "hex", "value"} : FirstOf([t \in {tag} |-> s], tags) = {s}
  <2>1. /\ FirstOf([t \in {tags[1]} |-> s], tags) = {s}
        /\ FirstOf([t \in {tags[2]} |-> s], tags) = {s}
        /\ FirstOf([t \in {tags[5]} |-> s], tags) = {s}
    BY <1>3
  <2>. QED BY <2>1, <1>2
<1>5. ASSUME NEW tag \in {"bytes", "hex", "value"}
      PROVE  ScvBytes(Tagged(tag, s)) = {DecodeBytesString(s)}
  <2>1. AsRecord(Tagged(tag, s)) = [t \in {tag} |-> s] /\ "text" \notin DOMAIN Tagged(tag, s)
    BY TaggedIs
  <2>2. ScvBytes(Tagged(tag, s)) = {DecodeBytesString(t) : t \in FirstOf(AsRecord(Tagged(tag, s)), tags)}
    BY <2>1 DEF ScvBytes, tags
  <2>3. FirstOf([t \in {tag} |-> s], tags) = {s}
    BY <1>4
  <2>4. ScvBytes(Tagged(tag, s)) = {DecodeBytesString(t) : t \in {s}}
    BY <2>1, <2>2, <2>3, Zenon
  <2>. QED BY <2>4
<1>. QED BY <1>1, <1>5

LEMMA TheIs ==
  ASSUME NEW s
  PROVE  The({s}) = s
BY DEF The

\* How a field is written in a row, and how it is read.
Written(form, name) ==
  [ as    |-> form.as,
    bytes |-> [of |-> name, width |-> (IF name = "rE" THEN PointWidth ELSE FieldWidth)
                                      - (IF form.minimized THEN 1 ELSE 0)] ]

BytesAs(form, name) ==
  IF form.tag = "none" THEN Text(Written(form, name)) ELSE Tagged(form.tag, Written(form, name))

Halves == Record([hi |-> [high |-> "amount"], lo |-> [low |-> "amount"]])

AmountAs(form) ==
  IF form.i128 = "plain" THEN Text([digits |-> "amount"])
  ELSE IF form.i128 = "tagged" THEN Tagged("i128", [digits |-> "amount"])
  ELSE IF form.i128 = "parts" THEN Halves
  ELSE Tagged("i128", Halves)

WrittenAs(form, name) == IF name = "amount" THEN AmountAs(form) ELSE BytesAs(form, name)

\* What a row of this form holds of an event of this type can be read.
LegibleAs(type, form) == type = "transfer" \/ form.i128 # "nested"

LEMMA FormIs ==
  ASSUME NEW form \in RowForms
  PROVE  /\ form.text \in BOOLEAN /\ form.minimized \in BOOLEAN /\ form.shaped \in BOOLEAN
         /\ form.topics \in {"plain", "tagged", "items"} /\ form.map \in {"entries", "plain"}
         /\ form.tag \in {"none", "bytes", "hex", "value"} /\ form.as \in {"hex", "base64"}
         /\ form.as = "base64" => ~ form.minimized
         /\ form.i128 \in {"plain", "tagged", "parts", "nested"}
<1>1. form \in Forms
  BY RowsAssumption
<1>. QED BY <1>1, RowsAssumption DEF Forms

LEMMA BytesReadBack ==
  ASSUME NEW form \in RowForms, NEW name
  PROVE  ScvBytes(BytesAs(form, name)) = {Written(form, name).bytes}
<1>. DEFINE w == Written(form, name)
<1>1. w.as = form.as /\ w.bytes.width \in Nat
      /\ (~ form.minimized => w.bytes.width \in {32, 64})
  BY FormIs DEF Written, PointWidth, FieldWidth
<1>. HIDE DEF w
<1>2. DecodeBytesString(w) = w.bytes
  <2>1. CASE form.as = "hex"
    BY <1>1, <2>1 DEF DecodeBytesString
  <2>2. CASE form.as = "base64"
    <3>1. w.bytes.width % 3 # 0
      BY <1>1, <2>2, FormIs
    <3>. QED BY <1>1, <2>2, <3>1 DEF DecodeBytesString, LooksHex
  <2>. QED BY <2>1, <2>2, FormIs
<1>3. form.tag = "none" \/ form.tag \in {"bytes", "hex", "value"}
  BY FormIs
<1>4. ScvBytes(BytesAs(form, name)) = {DecodeBytesString(w)}
  BY <1>3, BytesTextIs DEF BytesAs, w
<1>. QED BY <1>2, <1>4 DEF w

\* A point whose leading zeros were left out is filled up to its width again.
LEMMA BytesFieldIs ==
  ASSUME NEW form \in RowForms, NEW name, name # "amount", NEW byName, name \in DOMAIN byName,
         byName[name] = BytesAs(form, name)
  PROVE  DataMap(byName, name) = {name}
<1>1. ScvBytes(byName[name]) = {Written(form, name).bytes}
  BY BytesReadBack
<1>2. Written(form, name).bytes.of = name
  BY DEF Written
<1>3. CASE name # "rE"
  <2>1. DataMap(byName, name) = {b.of : b \in {Written(form, name).bytes}}
    BY <1>1, <1>3 DEF DataMap
  <2>. QED BY <2>1, <1>2
<1>4. CASE name = "rE"
  <2>. DEFINE width == IF form.minimized THEN 63 ELSE 64
              point == [of |-> "rE", width |-> 64]
  <2>1. Written(form, name).bytes = [of |-> "rE", width |-> width]
    BY <1>4, FormIs DEF Written, PointWidth
  <2>2. width <= 64
    OBVIOUS
  <2>3. PadTo([of |-> "rE", width |-> width], 64) = {point}
    BY <2>2 DEF PadTo
  <2>4. PointFromBytes(point) = {"rE"}
    BY DEF PointFromBytes, PointWidth
  <2>. HIDE DEF width, point
  <2>5. DataMap(byName, name)
          = UNION {PointFromBytes(b) : b \in UNION {PadTo(c, 64) : c \in {[of |-> "rE", width |-> width]}}}
    BY <1>1, <1>4, <2>1 DEF DataMap, PointWidth
  <2>6. UNION {PadTo(c, 64) : c \in {[of |-> "rE", width |-> width]}} = {point}
    BY <2>3
  <2>7. UNION {PointFromBytes(b) : b \in {point}} = {"rE"}
    BY <2>4
  <2>. QED BY <1>4, <2>5, <2>6, <2>7
<1>. QED BY <1>3, <1>4

\* An amount is read from its digits or its halves, but not from halves under a tag.
LEMMA AmountReadBack ==
  ASSUME NEW form \in RowForms
  PROVE  ScvI128(AmountAs(form)) = IF form.i128 = "nested" THEN {} ELSE {"amount"}
<1>. DEFINE tags       == <<"i128", "i64", "u64", "value">>
            Digits(S)  == {d.digits : d \in {d \in S : "digits" \in DOMAIN d}}
            Parts(rec) == IF {"hi", "lo"} \subseteq DOMAIN rec THEN {rec.hi.high} \cap {rec.lo.low} ELSE {}
            text       == [digits |-> "amount"]
            rec        == [hi |-> [high |-> "amount"], lo |-> [low |-> "amount"]]
<1>1. ASSUME NEW j, "text" \notin DOMAIN j
      PROVE  ScvI128(j) = IF Digits(FirstOf(AsRecord(j), tags)) # {}
                          THEN Digits(FirstOf(AsRecord(j), tags)) ELSE Parts(AsRecord(j))
  BY <1>1, Zenon DEF ScvI128
<1>2. Digits({text}) = {"amount"}
  <2>1. "digits" \in DOMAIN text /\ text.digits = "amount"
    OBVIOUS
  <2>. HIDE DEF text
  <2>2. {d \in {text} : "digits" \in DOMAIN d} = {text}
    BY <2>1
  <2>3. {d.digits : d \in {text}} = {"amount"}
    BY <2>1
  <2>. QED BY <2>2, <2>3
<1>3. DOMAIN Halves = {"rec"} /\ Digits({Halves}) = {}
  BY DEF Halves, Record
<1>4. Parts(rec) = {"amount"} /\ DOMAIN rec = {"hi", "lo"}
  OBVIOUS
<1>5. ASSUME NEW s PROVE Parts([t \in {"i128"} |-> s]) = {}
  <2>1. "hi" \notin DOMAIN [t \in {"i128"} |-> s]
    OBVIOUS
  <2>. QED BY <2>1
<1>6. /\ DOMAIN tags = 1 .. 4 /\ tags[1] = "i128" /\ \A k \in 1 .. 4 : tags[k] = tags[1] => k = 1
      /\ \A k \in 1 .. 4 : tags[k] \notin {"hi", "lo"}
  OBVIOUS
<1>. HIDE DEF tags
<1>7. ASSUME NEW s PROVE FirstOf([t \in {"i128"} |-> s], tags) = {s}
  <2>1. 1 \in DOMAIN tags /\ DOMAIN tags \subseteq Nat /\ \A k \in DOMAIN tags : tags[k] = tags[1] => k = 1
    BY <1>6
  <2>2. FirstOf([t \in {tags[1]} |-> s], tags) = {s}
    BY <2>1, FirstIs
  <2>. QED BY <1>6, <2>2
<1>8. FirstOf(rec, tags) = {}
  <2>1. {n \in DOMAIN tags : tags[n] \in DOMAIN rec} = {}
    BY <1>4, <1>6
  <2>. HIDE DEF rec
  <2>. QED BY <2>1 DEF FirstOf
<1>9. CASE form.i128 = "plain"
  <2>1. AmountAs(form) = Text(text) /\ "text" \in DOMAIN Text(text) /\ Text(text).text.digits = "amount"
    BY <1>9 DEF AmountAs, Text
  <2>2. ScvI128(Text(text)) = {Text(text).text.digits}
    <3>. HIDE DEF text
    <3>. QED BY <2>1, Zenon DEF ScvI128
  <2>. QED BY <1>9, <2>1, <2>2
<1>10. CASE form.i128 = "tagged"
  <2>1. AmountAs(form) = Tagged("i128", text)
    BY <1>10 DEF AmountAs
  <2>2. /\ AsRecord(Tagged("i128", text)) = [t \in {"i128"} |-> text]
        /\ "text" \notin DOMAIN Tagged("i128", text)
    BY TaggedIs
  <2>3. FirstOf(AsRecord(Tagged("i128", text)), tags) = {text}
    BY <1>7, <2>2
  <2>. HIDE DEF text, Digits, Parts
  <2>4. ScvI128(Tagged("i128", text)) = {"amount"}
    BY <1>1, <1>2, <2>2, <2>3
  <2>. QED BY <1>10, <2>1, <2>4
<1>11. CASE form.i128 = "parts"
  <2>1. AmountAs(form) = Record(rec)
    BY <1>11 DEF AmountAs, Halves
  <2>. HIDE DEF rec, Digits, Parts
  <2>2. AsRecord(Record(rec)) = rec /\ "text" \notin DOMAIN Record(rec)
    BY JsonIs DEF AsRecord
  <2>3. Digits({}) = {}
    BY DEF Digits
  <2>4. ScvI128(Record(rec)) = {"amount"}
    BY <1>1, <1>4, <1>8, <2>2, <2>3
  <2>. QED BY <1>11, <2>1, <2>4
<1>12. CASE form.i128 = "nested"
  <2>1. AmountAs(form) = Tagged("i128", Halves)
    BY <1>12 DEF AmountAs
  <2>2. /\ AsRecord(Tagged("i128", Halves)) = [t \in {"i128"} |-> Halves]
        /\ "text" \notin DOMAIN Tagged("i128", Halves)
    BY TaggedIs
  <2>3. FirstOf(AsRecord(Tagged("i128", Halves)), tags) = {Halves}
    BY <1>7, <2>2
  <2>. HIDE DEF Digits, Parts
  <2>4. Parts(AsRecord(Tagged("i128", Halves))) = {}
    BY <1>5, <2>2
  <2>5. ScvI128(Tagged("i128", Halves)) = {}
    BY <1>1, <1>3, <2>2, <2>3, <2>4
  <2>. QED BY <1>12, <2>1, <2>5
<1>. QED BY <1>9, <1>10, <1>11, <1>12, FormIs

LEMMA FieldReadBack ==
  ASSUME NEW form \in RowForms, NEW name, NEW byName, name \in DOMAIN byName,
         byName[name] = WrittenAs(form, name)
  PROVE  DataMap(byName, name) = IF name = "amount" /\ form.i128 = "nested" THEN {} ELSE {name}
<1>1. CASE name # "amount"
  BY <1>1, BytesFieldIs DEF WrittenAs
<1>2. CASE name = "amount"
  <2>1. DataMap(byName, name) = ScvI128(AmountAs(form))
    BY <1>2 DEF DataMap, WrittenAs
  <2>. QED BY <1>2, <2>1, AmountReadBack
<1>. QED BY <1>1, <1>2

\* A map of entries with keys of its own is the record of them.
WellNamed(names, key, len) ==
  /\ DOMAIN names = 1 .. len
  /\ \A n, k \in 1 .. len : names[n] = names[k] => n = k
  /\ \A n \in 1 .. len : ScvString(key[n]) = {names[n]}

Listed(key, val, len) ==
  Record([map |-> Array([n \in 1 .. len |-> Record([key |-> key[n], val |-> val[n]])])])

LEMMA EntriesAre ==
  ASSUME NEW names, NEW key, NEW val, NEW len \in Nat \ {0}, WellNamed(names, key, len)
  PROVE  \A n \in 1 .. len : /\ names[n] \in DOMAIN ParseScValMap(Listed(key, val, len))
                             /\ ParseScValMap(Listed(key, val, len))[names[n]] = val[n]
<1>. DEFINE entries == [n \in 1 .. len |-> Record([key |-> key[n], val |-> val[n]])]
            value   == Record([map |-> Array(entries)])
            At(k)   == {n \in DOMAIN entries : k \in ScvString(entries[n].rec.key)}
            keys    == UNION {ScvString(entries[n].rec.key) : n \in DOMAIN entries}
            Last(k) == CHOOSE n \in At(k) : \A j \in At(k) : j <= n
<1>1. /\ DOMAIN entries = 1 .. len
      /\ \A n \in 1 .. len : entries[n].rec.key = key[n] /\ entries[n].rec.val = val[n]
  BY JsonIs
<1>2. Len(entries) = len
  <2>1. entries \in Seq({entries[n] : n \in 1 .. len})
    BY SeqDef
  <2>. QED BY <2>1, <1>1, LenProperties
<1>3. AsRecord(value) = [map |-> Array(entries)]
  BY JsonIs DEF AsRecord
<1>4. DOMAIN [map |-> Array(entries)] = {"map"} /\ [map |-> Array(entries)].map = Array(entries)
  OBVIOUS
<1>5. AsArray(Array(entries)) = entries
  BY ArrayIs
<1>. HIDE DEF entries
<1>6. ParseScValMap(value) = [k \in keys |-> entries[Last(k)].rec.val]
  <2>. DEFINE listed   == IF "map" \in DOMAIN AsRecord(value) THEN AsArray(AsRecord(value).map) ELSE << >>
              Of(l, k) == {n \in DOMAIN l : k \in ScvString(l[n].rec.key)}
              Read(l)  == [ k \in UNION {ScvString(l[n].rec.key) : n \in DOMAIN l} |->
                              l[CHOOSE n \in Of(l, k) : \A j \in Of(l, k) : j <= n].rec.val ]
  <2>1. listed = entries
    BY <1>3, <1>4, <1>5
  <2>2. ParseScValMap(value) = IF Len(listed) = 0 THEN AsRecord(value) ELSE Read(listed)
    <3>. HIDE DEF value
    <3>. QED BY Zenon DEF ParseScValMap
  <2>3. Read(entries) = [k \in keys |-> entries[Last(k)].rec.val]
    BY Zenon
  <2>. HIDE DEF listed, Read, value
  <2>4. Len(listed) # 0 /\ Read(listed) = Read(entries)
    BY <1>2, <2>1
  <2>. QED BY <2>2, <2>3, <2>4, Zenon
<1>0. /\ DOMAIN names = 1 .. len
      /\ \A n, k \in 1 .. len : names[n] = names[k] => n = k
      /\ \A n \in 1 .. len : ScvString(key[n]) = {names[n]}
  BY DEF WellNamed
<1>7. keys = {names[n] : n \in 1 .. len}
  <2>. DEFINE F(n) == ScvString(entries[n].rec.key)
  <2>1. \A n \in 1 .. len : F(n) = {names[n]}
    BY <1>0, <1>1
  <2>. HIDE DEF F
  <2>2. UNION {F(n) : n \in 1 .. len} = {names[n] : n \in 1 .. len}
    BY <2>1
  <2>3. keys = UNION {F(n) : n \in 1 .. len}
    BY <1>1, Zenon DEF F
  <2>. QED BY <2>2, <2>3
<1>8. ASSUME NEW n \in 1 .. len PROVE ParseScValMap(value)[names[n]] = val[n]
  <2>1. \A k \in 1 .. len : names[n] \in ScvString(entries[k].rec.key) <=> k = n
    BY <1>0, <1>1
  <2>2. At(names[n]) = {n}
    BY <2>1, <1>1
  <2>3. Last(names[n]) = n
    <3>. DEFINE Best(S) == CHOOSE k \in S : \A j \in S : j <= k
    <3>1. Best({n}) = n
      OBVIOUS
    <3>. QED BY <2>2, <3>1
  <2>4. names[n] \in keys
    BY <1>7
  <2>. QED BY <1>1, <1>6, <2>3, <2>4
<1>9. DOMAIN ParseScValMap(value) = keys
  <2>. HIDE DEF value, keys, Last
  <2>. QED BY <1>6
<1>10. value = Listed(key, val, len)
  BY Zenon DEF Listed, entries
<1>. QED BY <1>7, <1>8, <1>9, <1>10, Zenon

\* Without entries, the record itself.
LEMMA NoEntries ==
  ASSUME NEW j
  PROVE  LET listed == IF "map" \in DOMAIN AsRecord(j) THEN AsArray(AsRecord(j).map) ELSE << >>
         IN  Len(listed) = 0 => ParseScValMap(j) = AsRecord(j)
<1>. DEFINE listed   == IF "map" \in DOMAIN AsRecord(j) THEN AsArray(AsRecord(j).map) ELSE << >>
            Of(k)    == {n \in DOMAIN listed : k \in ScvString(listed[n].rec.key)}
            read     == [ k \in UNION {ScvString(listed[n].rec.key) : n \in DOMAIN listed} |->
                            listed[CHOOSE n \in Of(k) : \A i \in Of(k) : i <= n].rec.val ]
<1>1. ParseScValMap(j) = IF Len(listed) = 0 THEN AsRecord(j) ELSE read
  BY Zenon DEF ParseScValMap
<1>. HIDE DEF read, listed
<1>2. Len(listed) = 0 => ParseScValMap(j) = AsRecord(j)
  BY <1>1, Zenon
<1>. QED BY <1>2 DEF listed

LEMMA NamesAre ==
  ASSUME NEW type \in Known
  PROVE  \E len \in Nat \ {0} :
           /\ DOMAIN FieldNames(type) = 1 .. len
           /\ \A n, k \in 1 .. len : FieldNames(type)[n] = FieldNames(type)[k] => n = k
           /\ FieldsOf(type) = {FieldNames(type)[n] : n \in 1 .. len}
           /\ "map" \notin FieldsOf(type)
           /\ "amount" \in FieldsOf(type) <=> type = "withdraw"
<1>. DEFINE T == <<"rE", "vTilde", "sigma", "bTilde", "vAudR", "rAudR", "vAudS", "bAudS">>
            W == <<"amount", "rE", "sigma", "bTilde", "bAudS">>
<1>1. CASE type = "transfer"
  <2>1. FieldNames(type) = T
    BY <1>1 DEF FieldNames
  <2>2. /\ DOMAIN T = 1 .. 8 /\ \A n, k \in 1 .. 8 : T[n] = T[k] => n = k
        /\ \A n \in 1 .. 8 : T[n] # "map" /\ T[n] # "amount"
    OBVIOUS
  <2>. HIDE DEF T
  <2>3. FieldsOf(type) = {T[n] : n \in 1 .. 8}
    BY <2>1, <2>2 DEF FieldsOf
  <2>4. "amount" \in FieldsOf(type) <=> type = "withdraw"
    BY <1>1, <2>2, <2>3
  <2>. QED BY <2>1, <2>2, <2>3, <2>4
<1>2. CASE type = "withdraw"
  <2>1. FieldNames(type) = W
    BY <1>2 DEF FieldNames
  <2>2. /\ DOMAIN W = 1 .. 5 /\ \A n, k \in 1 .. 5 : W[n] = W[k] => n = k
        /\ \A n \in 1 .. 5 : W[n] # "map"
        /\ W[1] = "amount"
    OBVIOUS
  <2>. HIDE DEF W
  <2>3. FieldsOf(type) = {W[n] : n \in 1 .. 5}
    BY <2>1, <2>2 DEF FieldsOf
  <2>4. "amount" \in FieldsOf(type) <=> type = "withdraw"
    BY <1>2, <2>2, <2>3
  <2>. QED BY <2>1, <2>2, <2>3, <2>4
<1>. QED BY <1>1, <1>2 DEF Known

\* A topic as a row writes it, and the two ways of writing the data.
Topic(form, tag, s) == IF form.topics = "plain" THEN Text(s) ELSE Tagged(tag, s)

Entries(type, form) ==
  [n \in DOMAIN FieldNames(type) |->
     Record([key |-> Topic(form, "symbol", FieldNames(type)[n]),
             val |-> WrittenAs(form, FieldNames(type)[n])])]
Plainly(type, form) == [name \in FieldsOf(type) |-> WrittenAs(form, name)]
ValueOf(type, form) ==
  IF form.map = "entries" THEN Record([map |-> Array(Entries(type, form))])
  ELSE Record(Plainly(type, form))

LEMMA TopicIs ==
  ASSUME NEW form, NEW tag \in {"symbol", "address"}, NEW s
  PROVE  ScvString(Topic(form, tag, s)) = {s}
BY StringIs DEF Topic

\* Either way the data is a record with a value for every field of its type.
LEMMA MapReadBack ==
  ASSUME NEW type \in Known, NEW form \in RowForms
  PROVE  LET m == ParseScValMap(ValueOf(type, form)) IN
         \A name \in FieldsOf(type) : name \in DOMAIN m /\ m[name] = WrittenAs(form, name)
<1>1. PICK len \in Nat \ {0} :
        /\ DOMAIN FieldNames(type) = 1 .. len
        /\ \A n, k \in 1 .. len : FieldNames(type)[n] = FieldNames(type)[k] => n = k
        /\ FieldsOf(type) = {FieldNames(type)[n] : n \in 1 .. len}
        /\ "map" \notin FieldsOf(type)
  BY NamesAre
<1>2. CASE form.map = "entries"
  <2>. DEFINE names == FieldNames(type)
              key   == [n \in 1 .. len |-> Topic(form, "symbol", names[n])]
              val   == [n \in 1 .. len |-> WrittenAs(form, names[n])]
              listed == [n \in 1 .. len |-> Record([key |-> key[n], val |-> val[n]])]
              m      == ParseScValMap(Record([map |-> Array(listed)]))
  <2>1. \A n \in 1 .. len : ScvString(key[n]) = {names[n]}
    BY TopicIs
  <2>2. \A n \in 1 .. len : val[n] = WrittenAs(form, names[n])
    OBVIOUS
  <2>3. listed = Entries(type, form)
    BY <1>1 DEF Entries
  <2>. HIDE DEF key, val, names
  <2>4. \A n \in 1 .. len : names[n] \in DOMAIN m /\ m[names[n]] = val[n]
    <3>1. DOMAIN names = 1 .. len /\ \A n, k \in 1 .. len : names[n] = names[k] => n = k
      BY <1>1 DEF names
    <3>2. WellNamed(names, key, len)
      BY <2>1, <3>1 DEF WellNamed
    <3>. HIDE DEF m
    <3>3. m = ParseScValMap(Listed(key, val, len))
      BY Zenon DEF m, Listed
    <3>4. \A n \in 1 .. len : /\ names[n] \in DOMAIN ParseScValMap(Listed(key, val, len))
                              /\ ParseScValMap(Listed(key, val, len))[names[n]] = val[n]
      BY <3>2, EntriesAre
    <3>. QED BY <3>3, <3>4
  <2>. HIDE DEF listed
  <2>5. m = ParseScValMap(ValueOf(type, form))
    BY <1>2, <2>3 DEF ValueOf
  <2>. HIDE DEF m
  <2>6. ASSUME NEW name \in FieldsOf(type) PROVE name \in DOMAIN m /\ m[name] = WrittenAs(form, name)
    <3>1. PICK n \in 1 .. len : name = names[n]
      BY <1>1 DEF names
    <3>. QED BY <2>2, <2>4, <3>1
  <2>. QED BY <2>5, <2>6
<1>3. CASE form.map # "entries"
  <2>. DEFINE rec == Plainly(type, form)
  <2>1. AsRecord(ValueOf(type, form)) = rec
    BY <1>3, JsonIs DEF ValueOf, AsRecord
  <2>2. /\ DOMAIN rec = FieldsOf(type) /\ \A name \in FieldsOf(type) : rec[name] = WrittenAs(form, name)
    BY DEF Plainly
  <2>. HIDE DEF rec
  <2>3. Len(<< >>) = 0
    OBVIOUS
  <2>4. ParseScValMap(ValueOf(type, form)) = rec
    <3>. DEFINE listed == IF "map" \in DOMAIN AsRecord(ValueOf(type, form))
                          THEN AsArray(AsRecord(ValueOf(type, form)).map) ELSE << >>
    <3>1. listed = << >>
      BY <1>1, <2>1, <2>2
    <3>2. Len(listed) = 0 => ParseScValMap(ValueOf(type, form)) = AsRecord(ValueOf(type, form))
      BY NoEntries
    <3>. HIDE DEF listed
    <3>. QED BY <2>1, <2>3, <3>1, <3>2
  <2>. QED BY <2>2, <2>4
<1>. QED BY <1>2, <1>3

\* Reading a row, from its topics and its data.
Topics(type, form) ==
  << Topic(form, "symbol", type), Topic(form, "address", "from"), Topic(form, "address", "to") >>
Addr(t, n)       == IF n + 1 \in DOMAIN t THEN ScvString(t[n + 1]) ELSE {}
TypesOf(t)       == IF Len(t) = 0 THEN {} ELSE ScvString(t[1]) \cap Known
Fields(m, type)  == [field \in FieldsOf(type) |-> DataMap(m, field)]
EventOf(t, m, type) ==
  [ type |-> type, from |-> The(Addr(t, 1)), to |-> The(Addr(t, 2)),
    data |-> [field \in FieldsOf(type) |-> The(Fields(m, type)[field])] ]
Complete(t, m, type) ==
  /\ Addr(t, 1) # {} /\ Addr(t, 2) # {}
  /\ \A field \in FieldsOf(type) : Fields(m, type)[field] # {}
Parsed(t, m) == {EventOf(t, m, type) : type \in {type \in TypesOf(t) : Complete(t, m, type)}}

LEMMA ParsingIs ==
  ASSUME NEW type \in Known, NEW form \in RowForms
  PROVE  Readings[type][form] = Parsed(Topics(type, form), ParseScValMap(ValueOf(type, form)))
<1>. DEFINE topics == Topics(type, form)
            array  == IF form.topics = "items" THEN Record([items |-> topics]) ELSE Array(topics)
            value  == ValueOf(type, form)
            Whole(j) == IF form.text THEN [json |-> j] ELSE j
            row    == [topic |-> Whole(array), value |-> Whole(value)]
<1>1. GoldskyRow(type, form) = row
  BY Zenon DEF GoldskyRow, ValueOf, Entries, Plainly, WrittenAs, BytesAs, AmountAs, Halves, Written,
               Topic, Topics
<1>2. AsArray(NormalizeJson(row.topic)) = topics
  BY NormalizedIs, ArrayIs, FormIs
<1>3. NormalizeJson(row.value) = value
  BY NormalizedIs, FormIs DEF ValueOf, AmountAs
<1>4. ParseIndexerEvent(row) = Parsed(AsArray(NormalizeJson(row.topic)), ParseScValMap(NormalizeJson(row.value)))
  <2>. HIDE DEF row
  <2>. QED BY Zenon DEF ParseIndexerEvent, Parsed, EventOf, Complete, Fields, Addr, TypesOf
<1>. HIDE DEF row, topics, value
<1>5. ParseIndexerEvent(row) = Parsed(topics, ParseScValMap(value))
  BY <1>2, <1>3, <1>4, Zenon
<1>6. Readings[type][form] = ParseIndexerEvent(GoldskyRow(type, form))
  BY DEF Readings
<1>. QED BY <1>1, <1>5, <1>6 DEF topics, value

LEMMA TopicsAre ==
  ASSUME NEW type \in Known, NEW form
  PROVE  LET t == Topics(type, form) IN
         /\ Addr(t, 1) = {"from"} /\ Addr(t, 2) = {"to"} /\ TypesOf(t) = {type}
         /\ The(Addr(t, 1)) = "from" /\ The(Addr(t, 2)) = "to"
<1>. DEFINE t == Topics(type, form)
<1>1. /\ DOMAIN t = 1 .. 3 /\ Len(t) = 3
      /\ ScvString(t[1]) = {type} /\ ScvString(t[2]) = {"from"} /\ ScvString(t[3]) = {"to"}
  BY TopicIs DEF Topics
<1>. HIDE DEF t
<1>2. Addr(t, 1) = {"from"} /\ Addr(t, 2) = {"to"} /\ TypesOf(t) = {type}
  BY <1>1 DEF Addr, TypesOf
<1>. QED BY <1>2, TheIs DEF t

\* A legible row of any form reads as the names of what the event holds, and
\* another one is not read at all.
LEMMA RowsReadBack ==
  ASSUME NEW type \in Known, NEW form \in RowForms
  PROVE  Readings[type][form]
           = IF LegibleAs(type, form)
             THEN {[ type |-> type, from |-> "from", to |-> "to",
                     data |-> [name \in FieldsOf(type) |-> name] ]}
             ELSE {}
<1>. DEFINE t == Topics(type, form)
            m == ParseScValMap(ValueOf(type, form))
            read == [ type |-> type, from |-> "from", to |-> "to",
                      data |-> [name \in FieldsOf(type) |-> name] ]
<1>1. \A field \in FieldsOf(type) :
        Fields(m, type)[field] = IF field = "amount" /\ form.i128 = "nested" THEN {} ELSE {field}
  BY MapReadBack, FieldReadBack DEF Fields
<1>2. /\ Addr(t, 1) = {"from"} /\ Addr(t, 2) = {"to"} /\ TypesOf(t) = {type}
      /\ The(Addr(t, 1)) = "from" /\ The(Addr(t, 2)) = "to"
  BY TopicsAre
<1>3. "amount" \in FieldsOf(type) <=> type = "withdraw"
  BY NamesAre
<1>4. Readings[type][form] = Parsed(t, m)
  BY ParsingIs
<1>. HIDE DEF t, m
<1>5. CASE LegibleAs(type, form)
  <2>1. \A field \in FieldsOf(type) : Fields(m, type)[field] = {field}
    BY <1>1, <1>3, <1>5 DEF LegibleAs
  <2>2. [field \in FieldsOf(type) |-> The(Fields(m, type)[field])] = [name \in FieldsOf(type) |-> name]
    BY <2>1, TheIs
  <2>3. Complete(t, m, type)
    BY <1>2, <2>1 DEF Complete
  <2>4. EventOf(t, m, type) = read
    BY <1>2, <2>2 DEF EventOf
  <2>. HIDE DEF read
  <2>5. Parsed(t, m) = {read}
    BY <1>2, <2>3, <2>4 DEF Parsed
  <2>. QED BY <1>4, <1>5, <2>5 DEF read
<1>6. CASE ~ LegibleAs(type, form)
  <2>1. type = "withdraw" /\ form.i128 = "nested"
    BY <1>6 DEF LegibleAs, Known
  <2>2. ~ Complete(t, m, type)
    BY <1>1, <1>3, <2>1 DEF Complete
  <2>3. Parsed(t, m) = {}
    BY <1>2, <2>2 DEF Parsed
  <2>. QED BY <1>4, <1>6, <2>3
<1>. QED BY <1>5, <1>6

-----------------------------------------------------------------------------
(* The sources. *)

LEMMA LastDigits ==
  ASSUME NEW k \in Nat, NEW o \in 0 .. OpRange - 1
  PROVE  (k * OpRange + o) % OpRange = o
BY SMTT(60) DEF OpRange

\* The operation's index survives the paging token.
LEMMA CoordsSurvive ==
  ASSUME NEW i \in DOMAIN Coordinates
  PROVE  LET c == Coordinates[i] IN
         RpcEventCoords(PagingToken(c)) = [op |-> c.op, event |-> c.event]
<1>. DEFINE c == Coordinates[i]
            first == c.ledger * TxRange + c.txIndex
<1>1. c.ledger \in Nat /\ c.txIndex \in Nat /\ c.op \in 0 .. OpRange - 1
  BY RowsAssumption
<1>2. first \in Nat
  BY <1>1 DEF TxRange
<1>. HIDE DEF first
<1>3. (first * OpRange + c.op) % OpRange = c.op
  BY <1>1, <1>2, LastDigits
<1>4. PagingToken(c) = [toid |-> first * OpRange + c.op, order |-> c.event]
  BY DEF PagingToken, first
<1>. QED BY <1>3, <1>4 DEF RpcEventCoords

LEMMA CursorIs ==
  ASSUME NEW i \in DOMAIN Coordinates
  PROVE  LET c == Coordinates[i] IN Cursor(i) = [natural |-> <<c.ledger, c.txHash, c.op, c.event>>]
BY CoordsSurvive DEF Cursor, NaturalEventId

LEMMA RowCursorIs ==
  ASSUME NEW i \in DOMAIN Coordinates, NEW form
  PROVE  LET c == Coordinates[i] IN
         /\ form.shaped => RowCursor(i, form) = Cursor(i)
         /\ ~ form.shaped =>
              RowCursor(i, form) = [row |-> [ shaped |-> form.shaped, ledger |-> c.ledger,
                                              txHash |-> c.txHash, op |-> c.op, event |-> c.event ]]
BY CursorIs DEF RowCursor, IndexerEventId, NaturalEventId

\* No two events have one cursor, from whichever sources they come.
LEMMA CursorsDiffer ==
  ASSUME NEW i \in DOMAIN Coordinates, NEW j \in DOMAIN Coordinates, i # j,
         NEW f \in RowForms, NEW g \in RowForms
  PROVE  /\ Cursor(i) # Cursor(j)
         /\ RowCursor(i, f) # Cursor(j)
         /\ RowCursor(i, f) # RowCursor(j, g)
<1>. DEFINE c == Coordinates[i]
            d == Coordinates[j]
<1>1. ~ (c.ledger = d.ledger /\ c.txHash = d.txHash /\ c.op = d.op /\ c.event = d.event)
  BY CoordinatesAssumption
<1>2. /\ Cursor(i) = [natural |-> <<c.ledger, c.txHash, c.op, c.event>>]
      /\ Cursor(j) = [natural |-> <<d.ledger, d.txHash, d.op, d.event>>]
  BY CursorIs
<1>3. f.shaped \in BOOLEAN /\ g.shaped \in BOOLEAN
  BY FormIs
<1>. DEFINE R == [ shaped |-> f.shaped, ledger |-> c.ledger, txHash |-> c.txHash,
                   op |-> c.op, event |-> c.event ]
            Q == [ shaped |-> g.shaped, ledger |-> d.ledger, txHash |-> d.txHash,
                   op |-> d.op, event |-> d.event ]
<1>4. /\ f.shaped => RowCursor(i, f) = Cursor(i)
      /\ ~ f.shaped => RowCursor(i, f) = [row |-> R]
      /\ g.shaped => RowCursor(j, g) = Cursor(j)
      /\ ~ g.shaped => RowCursor(j, g) = [row |-> Q]
  BY RowCursorIs
<1>. HIDE DEF c, d
<1>5. Cursor(i) # Cursor(j)
  BY <1>1, <1>2
<1>6. R # Q
  BY <1>1
<1>. HIDE DEF R, Q
<1>7. [row |-> R] # [row |-> Q]
  BY <1>6
<1>8. [row |-> R] # Cursor(j) /\ [row |-> Q] # Cursor(i)
  BY <1>2
<1>. QED BY <1>3, <1>4, <1>5, <1>7, <1>8, Zenon

\* An event as every source gives it, under this id.
Seen(i, cursor) ==
  [ at |-> i, ledger |-> Coordinates[i].ledger, txHash |-> Coordinates[i].txHash,
    cursor |-> cursor, type |-> log[i].type, from |-> log[i].from, to |-> log[i].to,
    data |-> [name \in FieldsOf(log[i].type) |-> log[i].data[name]] ]

LEMMA SeenOnChain ==
  ASSUME NEW i
  PROVE  ParseEvent(i) = Seen(i, Cursor(i))
BY DEF ParseEvent, Seen

LEMMA EventsAre ==
  ASSUME LogInv, NEW i \in DOMAIN log
  PROVE  /\ i \in 1 .. Len(log) /\ i \in Nat /\ i \in DOMAIN Coordinates /\ log[i].type \in Known
         /\ i \in 1 .. MaxSpends /\ ServedAs[i] \in RowForms
<1>1. DOMAIN log = 1 .. Len(log) /\ Len(log) \in Nat
  BY LenProperties DEF LogInv
<1>2. i \in 1 .. MaxSpends /\ i \in Nat
  BY <1>1, DisclosureAssumption DEF LogInv
<1>3. log[i].type \in Known
  BY <1>1 DEF LogInv, EventExplained, Known
<1>4. i \in DOMAIN Coordinates /\ ServedAs[i] \in RowForms
  BY <1>2, DisclosureAssumption
<1>. QED BY <1>1, <1>2, <1>3, <1>4

LEMMA SeenInRow ==
  ASSUME LogInv, NEW i \in DOMAIN log, NEW form \in RowForms
  PROVE  /\ ParseRow(i, form) = IF Legible(i, form) THEN {Seen(i, RowCursor(i, form))} ELSE {}
         /\ Readings[log[i].type][form] # {} <=> Legible(i, form)
<1>. DEFINE type == log[i].type
            read == [ type |-> type, from |-> "from", to |-> "to",
                      data |-> [name \in FieldsOf(type) |-> name] ]
            Event(r) ==
              [ at |-> i, ledger |-> Coordinates[i].ledger, txHash |-> Coordinates[i].txHash,
                cursor |-> RowCursor(i, form),
                type |-> r.type, from |-> log[i][r.from], to |-> log[i][r.to],
                data |-> [name \in DOMAIN r.data |-> log[i].data[r.data[name]]] ]
<1>1. type \in Known
  BY EventsAre
<1>2. Readings[type][form] = IF Legible(i, form) THEN {read} ELSE {}
  BY <1>1, RowsReadBack DEF LegibleAs, Legible, TransferAt
<1>3. ParseRow(i, form) = {Event(r) : r \in Readings[type][form]}
  BY Zenon DEF ParseRow
<1>4. Event(read) = Seen(i, RowCursor(i, form))
  <2>1. read.type = type /\ read.from = "from" /\ read.to = "to"
        /\ read.data = [name \in FieldsOf(type) |-> name]
    OBVIOUS
  <2>2. [name \in DOMAIN read.data |-> log[i].data[read.data[name]]]
          = [name \in FieldsOf(type) |-> log[i].data[name]]
    BY <2>1
  <2>. HIDE DEF read
  <2>. QED BY <2>1, <2>2 DEF Seen
<1>. HIDE DEF Event, read, type
<1>5. {Event(r) : r \in {read}} = {Event(read)} /\ {Event(r) : r \in {}} = {}
  OBVIOUS
<1>6. Readings[type][form] # {} <=> Legible(i, form)
  BY <1>2
<1>7. CASE Legible(i, form)
  BY <1>2, <1>3, <1>4, <1>5, <1>7 DEF type
<1>8. CASE ~ Legible(i, form)
  BY <1>2, <1>3, <1>5, <1>8 DEF type
<1>. QED BY <1>6, <1>7, <1>8 DEF type

LEMMA SeenFields ==
  ASSUME NEW i, NEW cursor, NEW other
  PROVE  /\ Seen(i, cursor).cursor = cursor /\ Seen(i, cursor).at = i
         /\ Seen(i, cursor).type = log[i].type
         /\ Seen(i, cursor).ledger = Coordinates[i].ledger
         /\ Seen(i, cursor).txHash = Coordinates[i].txHash
         /\ [Seen(i, other) EXCEPT !.cursor = cursor] = Seen(i, cursor)
         /\ EventRef(Seen(i, cursor))
              = [ledger |-> Coordinates[i].ledger, id |-> cursor, txHash |-> Coordinates[i].txHash]
<1>1. /\ Seen(i, cursor).cursor = cursor /\ Seen(i, cursor).at = i
      /\ Seen(i, cursor).type = log[i].type
      /\ Seen(i, cursor).ledger = Coordinates[i].ledger
      /\ Seen(i, cursor).txHash = Coordinates[i].txHash
  BY DEF Seen
<1>2. [Seen(i, other) EXCEPT !.cursor = cursor] = Seen(i, cursor)
  <2>. DEFINE data == [name \in FieldsOf(log[i].type) |-> log[i].data[name]]
              c    == Coordinates[i]
              ev   == log[i]
  <2>. HIDE DEF data, c, ev
  <2>1. \A x : Seen(i, x) = [ at |-> i, ledger |-> c.ledger, txHash |-> c.txHash, cursor |-> x,
                              type |-> ev.type, from |-> ev.from, to |-> ev.to, data |-> data ]
    BY Zenon DEF Seen, data, c, ev
  <2>. QED BY <2>1
<1>. QED BY <1>1, <1>2 DEF EventRef

\* One event of the page answers to a reference of its own.
LEMMA ResolvedOnChain ==
  ASSUME LogInv, NEW i \in DOMAIN log
  PROVE  ResolveEventRef(DOMAIN log, EventRef(ParseEvent(i)))
           = IF Coordinates[i].nth <= ResolveLimit THEN {ParseEvent(i)} ELSE {}
<1>. DEFINE ref == EventRef(ParseEvent(i))
            page == RpcPage(DOMAIN log, ref.ledger)
            matches == {j \in page : Cursor(j) = ref.id}
            found == {k \in matches : Cardinality(matches) = 1 /\ Coordinates[k].txHash = ref.txHash}
<1>1. /\ ref.ledger = Coordinates[i].ledger /\ ref.id = Cursor(i)
      /\ ref.txHash = Coordinates[i].txHash
  BY SeenOnChain, SeenFields
<1>2. \A j \in DOMAIN log : Cursor(j) = Cursor(i) => j = i
  BY EventsAre, CursorsDiffer
<1>. HIDE DEF ref
<1>3. page \subseteq DOMAIN log /\ (i \in page <=> Coordinates[i].nth <= ResolveLimit)
  BY <1>1 DEF RpcPage
<1>4. ResolveEventRef(DOMAIN log, ref) = {ParseEvent(k) : k \in found}
  BY Zenon DEF ResolveEventRef
<1>. HIDE DEF page
<1>5. CASE i \in page
  <2>1. matches = {i}
    BY <1>1, <1>2, <1>3, <1>5
  <2>2. Cardinality({i}) = 1
    BY FS_Singleton
  <2>. HIDE DEF matches
  <2>3. found = {i}
    BY <1>1, <2>1, <2>2
  <2>. HIDE DEF found
  <2>4. {ParseEvent(k) : k \in {i}} = {ParseEvent(i)}
    OBVIOUS
  <2>. QED BY <1>3, <1>4, <1>5, <2>3, <2>4 DEF ref
<1>6. CASE i \notin page
  <2>1. matches = {}
    BY <1>1, <1>2, <1>3, <1>6
  <2>. HIDE DEF matches
  <2>2. found = {}
    BY <2>1
  <2>. HIDE DEF found
  <2>3. {ParseEvent(k) : k \in {}} = {}
    OBVIOUS
  <2>. QED BY <1>3, <1>4, <1>6, <2>2, <2>3 DEF ref
<1>. QED BY <1>5, <1>6

\* The page can be read if all of its rows can.
PageRead(page) == \A j \in page : Legible(j, ServedAs[j])

\* The rows a reference matches: its event's, and no other's.
LEMMA ResolvedInRows ==
  ASSUME LogInv, NEW i \in DOMAIN log, NEW served \in SUBSET DOMAIN log, NEW ref,
         ref.ledger = Coordinates[i].ledger, ref.txHash = Coordinates[i].txHash,
         \A j \in DOMAIN log : RowCursor(j, ServedAs[j]) = ref.id <=> j = i
  PROVE  IndexerResolveEventRef(served, ref)
           = IF i \in IndexerPage(served, ref.ledger) /\ PageRead(IndexerPage(served, ref.ledger))
             THEN ParseRow(i, ServedAs[i]) ELSE {}
<1>. DEFINE rows     == IndexerPage(served, ref.ledger)
            matches  == {j \in rows : RowCursor(j, ServedAs[j]) = ref.id}
            first    == {j \in matches : \A k \in matches : Coordinates[j].row <= Coordinates[k].row}
            readable == \A j \in rows : Readings[log[j].type][ServedAs[j]] # {}
            found    == {j \in first : readable /\ Coordinates[j].txHash = ref.txHash}
<1>0. rows \subseteq DOMAIN log
  BY DEF IndexerPage
<1>6. IndexerResolveEventRef(served, ref) = UNION {ParseRow(j, ServedAs[j]) : j \in found}
  BY Zenon DEF IndexerResolveEventRef
<1>. HIDE DEF rows
<1>1. readable <=> PageRead(rows)
  <2>1. ASSUME NEW j \in rows
        PROVE  Readings[log[j].type][ServedAs[j]] # {} <=> Legible(j, ServedAs[j])
    <3>1. j \in DOMAIN log /\ ServedAs[j] \in RowForms
      BY <1>0, EventsAre
    <3>. QED BY <3>1, SeenInRow
  <2>. QED BY <2>1 DEF PageRead
<1>2. matches = IF i \in rows THEN {i} ELSE {}
  <2>1. \A j : j \in matches <=> j \in rows /\ j = i
    BY <1>0
  <2>. HIDE DEF matches
  <2>. QED BY <2>1
<1>3. Coordinates[i].row <= Coordinates[i].row
  <2>1. i \in DOMAIN Coordinates
    BY EventsAre
  <2>. QED BY <2>1, RowsAssumption
<1>. HIDE DEF readable, matches
<1>4. first = IF i \in rows THEN {i} ELSE {}
  BY <1>2, <1>3
<1>. HIDE DEF first
<1>5. found = IF i \in rows /\ PageRead(rows) THEN {i} ELSE {}
  BY <1>1, <1>4
<1>. HIDE DEF found
<1>7. UNION {ParseRow(j, ServedAs[j]) : j \in {i}} = ParseRow(i, ServedAs[i])
  OBVIOUS
<1>8. UNION {ParseRow(j, ServedAs[j]) : j \in {}} = {}
  OBVIOUS
<1>9. CASE i \in rows /\ PageRead(rows)
  BY <1>5, <1>6, <1>7, <1>9 DEF rows
<1>10. CASE ~ (i \in rows /\ PageRead(rows))
  BY <1>5, <1>6, <1>8, <1>10 DEF rows
<1>. QED BY <1>9, <1>10

LEMMA OneTag ==
  ASSUME NEW rec, NEW tag, DOMAIN rec = {tag}
  PROVE  FirstOf(rec, <<tag>>) = {rec[tag]}
<1>. DEFINE tags    == <<tag>>
            present == {n \in DOMAIN tags : tags[n] \in DOMAIN rec}
<1>1. DOMAIN tags = {1} /\ tags[1] = tag
  OBVIOUS
<1>. HIDE DEF tags
<1>2. present = {1}
  BY <1>1
<1>. HIDE DEF present
<1>3. {rec[tags[n]] : n \in {n \in present : \A k \in present : n <= k}} = {rec[tag]}
  <2>1. {n \in present : \A k \in present : n <= k} = {1}
    BY <1>2
  <2>. QED BY <1>1, <2>1
<1>. QED BY <1>3, Zenon DEF FirstOf, present, tags

\* The archive keeps the event whole, and its client reads the very event.
LEMMA ArchiveKeeps ==
  ASSUME LogInv, NEW i \in DOMAIN log
  PROVE  LET ev == ParseEvent(i) IN
         /\ ArchivedEvent(i) = {[name \in DOMAIN ev \ {"at"} |-> ev[name]]}
         /\ \A row \in ToStored(RawEvent(i)) : row.participants = {log[i].from, log[i].to}
<1>. DEFINE c      == Coordinates[i]
            type   == log[i].type
            topics == <<[sym |-> type], [address |-> log[i].from], [address |-> log[i].to]>>
            raw    == [ id |-> PagingToken(c), ledger |-> c.ledger, txHash |-> c.txHash,
                        value |-> log[i].data, topic |-> topics ]
            row    == [ event_name |-> type, ledger_seq |-> c.ledger, tx_hash |-> c.txHash,
                        operation_index |-> c.op, event_index |-> c.event,
                        topics_xdr |-> topics, data_xdr |-> log[i].data,
                        participants |-> {log[i].from, log[i].to} ]
            decoded == [ ledger |-> c.ledger, txHash |-> c.txHash, cursor |-> Cursor(i), type |-> type,
                         from |-> log[i].from, to |-> log[i].to,
                         data |-> [field \in FieldsOf(type) |-> log[i].data[field]] ]
<1>1. type \in Known /\ i \in DOMAIN Coordinates
  BY EventsAre
<1>2. RawEvent(i) = raw
  BY DEF RawEvent
<1>3. /\ DOMAIN topics = 1 .. 3 /\ Len(topics) = 3
      /\ topics[1] = [sym |-> type] /\ topics[2] = [address |-> log[i].from]
      /\ topics[3] = [address |-> log[i].to]
  OBVIOUS
<1>4. RpcEventCoords(raw.id) = [op |-> c.op, event |-> c.event]
  BY <1>1, CoordsSurvive
<1>. HIDE DEF topics, type
<1>5. FirstOf(topics[1], <<"sym">>) = {type}
  <2>1. <<"sym">>[1] = "sym" /\ DOMAIN <<"sym">> = 1 .. 1
    OBVIOUS
  <2>. QED BY <1>3, <2>1, OneTag
<1>6. NameOf(topics) = {type}
  BY <1>1, <1>3, <1>5 DEF NameOf
<1>7. /\ FirstOf(topics[2], <<"address">>) = {log[i].from}
      /\ FirstOf(topics[3], <<"address">>) = {log[i].to}
  BY <1>3, OneTag
<1>8. ParticipantTopics(type) = {1, 2}
  BY <1>1 DEF ParticipantTopics, Known
<1>. DEFINE Address(n) == FirstOf(topics[n + 1], <<"address">>)
            present == {n \in ParticipantTopics(type) : n + 1 \in DOMAIN topics}
<1>9. UNION {Address(n) : n \in present} = {log[i].from, log[i].to}
  <2>1. Address(1) = {log[i].from} /\ Address(2) = {log[i].to}
    BY <1>7
  <2>2. present = {1, 2}
    BY <1>3, <1>8
  <2>. HIDE DEF Address, present
  <2>. QED BY <2>1, <2>2
<1>10. ToStored(raw) = {row}
  <2>. DEFINE Stored(name) ==
         [ event_name |-> name, ledger_seq |-> raw.ledger, tx_hash |-> raw.txHash,
           operation_index |-> RpcEventCoords(raw.id).op, event_index |-> RpcEventCoords(raw.id).event,
           topics_xdr |-> raw.topic, data_xdr |-> raw.value,
           participants |-> UNION {FirstOf(raw.topic[n + 1], <<"address">>) :
                                   n \in {n \in ParticipantTopics(name) : n + 1 \in DOMAIN raw.topic}} ]
  <2>1. ToStored(raw) = {Stored(name) : name \in NameOf(raw.topic)}
    <3>. HIDE DEF raw
    <3>. QED BY Zenon DEF ToStored
  <2>2. /\ raw.ledger = c.ledger /\ raw.txHash = c.txHash /\ raw.topic = topics
        /\ raw.value = log[i].data
    OBVIOUS
  <2>. HIDE DEF raw
  <2>3. UNION {FirstOf(raw.topic[n + 1], <<"address">>) :
               n \in {n \in ParticipantTopics(type) : n + 1 \in DOMAIN raw.topic}}
          = {log[i].from, log[i].to}
    BY <1>9, <2>2, Zenon
  <2>4. Stored(type) = row
    BY <1>4, <2>2, <2>3
  <2>. HIDE DEF Stored, row
  <2>5. {Stored(name) : name \in {type}} = {row}
    BY <2>4
  <2>. QED BY <1>6, <2>1, <2>2, <2>5, Zenon
<1>11. /\ row.participants = {log[i].from, log[i].to} /\ row.ledger_seq = c.ledger
       /\ row.tx_hash = c.txHash /\ row.operation_index = c.op /\ row.event_index = c.event
       /\ row.topics_xdr = topics /\ row.data_xdr = log[i].data
  OBVIOUS
<1>. HIDE DEF row
<1>12. LET s == SerializeEvent(row) IN
       /\ s.ledger_seq = c.ledger /\ s.tx_hash = c.txHash
       /\ s.operation_index = c.op /\ s.event_index = c.event
       /\ s.topics_xdr = topics /\ s.data_xdr = log[i].data
  BY <1>11 DEF SerializeEvent
<1>13. DecodeIndexerRow(SerializeEvent(row)) = {decoded}
  <2>. DEFINE s == SerializeEvent(row)
              Read(name) ==
                [ ledger |-> s.ledger_seq, txHash |-> s.tx_hash,
                  cursor |-> NaturalEventId(s.ledger_seq, s.tx_hash, s.operation_index, s.event_index),
                  type |-> name, from |-> s.topics_xdr[2].address, to |-> s.topics_xdr[3].address,
                  data |-> [field \in FieldsOf(name) |-> s.data_xdr[field]] ]
  <2>. HIDE DEF s
  <2>1. DecodeIndexerRow(s) = {Read(name) : name \in NameOf(s.topics_xdr)}
    BY Zenon DEF DecodeIndexerRow
  <2>2. NaturalEventId(s.ledger_seq, s.tx_hash, s.operation_index, s.event_index) = Cursor(i)
    BY <1>1, <1>12, CursorIs DEF s, NaturalEventId
  <2>3. /\ s.ledger_seq = c.ledger /\ s.tx_hash = c.txHash /\ s.topics_xdr = topics
        /\ s.data_xdr = log[i].data
    BY <1>12 DEF s
  <2>4. [field \in FieldsOf(type) |-> s.data_xdr[field]] = [field \in FieldsOf(type) |-> log[i].data[field]]
    BY <2>3
  <2>5. s.topics_xdr[2].address = log[i].from /\ s.topics_xdr[3].address = log[i].to
    BY <1>3, <2>3
  <2>6. Read(type) = decoded
    BY <2>2, <2>3, <2>4, <2>5, Zenon
  <2>. HIDE DEF Read, decoded
  <2>7. {Read(name) : name \in {type}} = {decoded}
    BY <2>6
  <2>8. NameOf(s.topics_xdr) = {type}
    BY <1>6, <2>3
  <2>. QED BY <2>1, <2>7, <2>8, Zenon DEF s
<1>14. [name \in DOMAIN ParseEvent(i) \ {"at"} |-> ParseEvent(i)[name]] = decoded
  <2>. DEFINE data == [field \in FieldsOf(type) |-> log[i].data[field]]
              ev   == log[i]
  <2>1. ParseEvent(i) = [ at |-> i, ledger |-> c.ledger, txHash |-> c.txHash, cursor |-> Cursor(i),
                          type |-> type, from |-> ev.from, to |-> ev.to, data |-> data ]
    BY Zenon, SeenOnChain DEF Seen, type
  <2>2. decoded = [ ledger |-> c.ledger, txHash |-> c.txHash, cursor |-> Cursor(i), type |-> type,
                    from |-> ev.from, to |-> ev.to, data |-> data ]
    OBVIOUS
  <2>. HIDE DEF data, c, ev, decoded
  <2>3. DOMAIN ParseEvent(i) \ {"at"} = {"ledger", "txHash", "cursor", "type", "from", "to", "data"}
    BY <2>1
  <2>4. /\ DOMAIN decoded = {"ledger", "txHash", "cursor", "type", "from", "to", "data"}
        /\ \A name \in DOMAIN decoded : decoded[name] = ParseEvent(i)[name]
    BY <2>1, <2>2
  <2>5. decoded = [name \in DOMAIN decoded |-> decoded[name]]
    BY <2>2
  <2>. QED BY <2>3, <2>4, <2>5
<1>15. ArchivedEvent(i) = {decoded}
  <2>. DEFINE D(r) == DecodeIndexerRow(SerializeEvent(r))
  <2>1. ArchivedEvent(i) = UNION {D(r) : r \in ToStored(raw)}
    BY <1>2, Zenon DEF ArchivedEvent
  <2>2. D(row) = {decoded}
    BY <1>13
  <2>. HIDE DEF D, decoded, raw
  <2>3. UNION {D(r) : r \in {row}} = {decoded}
    BY <2>2
  <2>. QED BY <1>10, <2>1, <2>3, Zenon
<1>16. \A r \in ToStored(RawEvent(i)) : r.participants = {log[i].from, log[i].to}
  <2>. HIDE DEF raw
  <2>. QED BY <1>2, <1>10, <1>11
<1>. HIDE DEF decoded
<1>. QED BY <1>14, <1>15, <1>16

\* However a row that can be read is written, every source reads the very event, and
\* a reference from one finds it in the other, among as many events of its ledger as a
\* source is asked for, for every set of row forms and any number of events.
THEOREM SourcesAreOne == Spec => []SourcesAgree
<1>1. LogInv => SourcesAgree
  <2>. DEFINE page(i) == {j \in DOMAIN log : /\ Coordinates[j].ledger = Coordinates[i].ledger
                                              /\ Coordinates[j].row <= ResolveLimit}
  <2>. SUFFICES ASSUME LogInv, NEW i \in DOMAIN log
                PROVE  /\ \A form \in RowForms :
                            /\ Legible(i, form) <=> ParseRow(i, form) # {}
                            /\ \A row \in ParseRow(i, form) :
                                 /\ row = [ParseEvent(i) EXCEPT !.cursor = row.cursor]
                                 /\ form.shaped => row = ParseEvent(i)
                                 /\ \A j \in DOMAIN log \ {i} : row.cursor # ParseEvent(j).cursor
                       /\ ArchivedEvent(i) = {[name \in DOMAIN ParseEvent(i) \ {"at"} |-> ParseEvent(i)[name]]}
                       /\ \A row \in ToStored(RawEvent(i)) : row.participants = {log[i].from, log[i].to}
                       /\ ResolveEventRef(DOMAIN log, EventRef(ParseEvent(i)))
                            = IF Coordinates[i].nth <= ResolveLimit THEN {ParseEvent(i)} ELSE {}
                       /\ \A row \in ParseRow(i, ServedAs[i]) :
                            IndexerResolveEventRef(DOMAIN log, EventRef(row))
                              = IF i \in page(i) /\ (\A j \in page(i) : Legible(j, ServedAs[j]))
                                THEN {row} ELSE {}
    BY DEF SourcesAgree
  <2>1. \A j \in DOMAIN log : j \in DOMAIN Coordinates /\ ServedAs[j] \in RowForms
    BY EventsAre
  <2>2. ASSUME NEW form \in RowForms
        PROVE  /\ Legible(i, form) <=> ParseRow(i, form) # {}
               /\ \A row \in ParseRow(i, form) :
                    /\ row = [ParseEvent(i) EXCEPT !.cursor = row.cursor]
                    /\ form.shaped => row = ParseEvent(i)
                    /\ \A j \in DOMAIN log \ {i} : row.cursor # ParseEvent(j).cursor
    <3>1. ParseRow(i, form) = IF Legible(i, form) THEN {Seen(i, RowCursor(i, form))} ELSE {}
      BY SeenInRow
    <3>2. [ParseEvent(i) EXCEPT !.cursor = RowCursor(i, form)] = Seen(i, RowCursor(i, form))
      BY SeenOnChain, SeenFields
    <3>3. Seen(i, RowCursor(i, form)).cursor = RowCursor(i, form)
      BY SeenFields
    <3>4. form.shaped => RowCursor(i, form) = Cursor(i)
      BY <2>1, RowCursorIs
    <3>5. \A j \in DOMAIN log \ {i} : RowCursor(i, form) # ParseEvent(j).cursor
      BY <2>1, CursorsDiffer, SeenOnChain, SeenFields
    <3>6. form.shaped => Seen(i, RowCursor(i, form)) = ParseEvent(i)
      BY <3>4, SeenOnChain
    <3>. QED BY <3>1, <3>2, <3>3, <3>5, <3>6
  <2>3. ASSUME NEW row \in ParseRow(i, ServedAs[i])
        PROVE  IndexerResolveEventRef(DOMAIN log, EventRef(row))
                 = IF i \in page(i) /\ (\A j \in page(i) : Legible(j, ServedAs[j]))
                   THEN {row} ELSE {}
    <3>. DEFINE ref == EventRef(row)
    <3>1. row = Seen(i, RowCursor(i, ServedAs[i])) /\ ParseRow(i, ServedAs[i]) = {row}
      BY <2>1, SeenInRow
    <3>2. /\ ref.ledger = Coordinates[i].ledger /\ ref.txHash = Coordinates[i].txHash
          /\ ref.id = RowCursor(i, ServedAs[i])
      BY <3>1, SeenFields
    <3>3. \A j \in DOMAIN log : RowCursor(j, ServedAs[j]) = ref.id <=> j = i
      BY <2>1, <3>2, CursorsDiffer
    <3>. HIDE DEF ref
    <3>4. IndexerPage(DOMAIN log, ref.ledger) = page(i)
      BY <3>2 DEF IndexerPage
    <3>. HIDE DEF page
    <3>5. IndexerResolveEventRef(DOMAIN log, ref)
            = IF i \in page(i) /\ PageRead(page(i)) THEN ParseRow(i, ServedAs[i]) ELSE {}
      BY <3>2, <3>3, <3>4, ResolvedInRows
    <3>. QED BY <3>1, <3>5 DEF ref, PageRead
  <2>. QED BY <2>2, <2>3, ArchiveKeeps, ResolvedOnChain
<1>. QED BY <1>1, LogInvariance, PTL

-----------------------------------------------------------------------------
(* The bundles. *)

\* The key derivation finds a block, and no other account's derivation finds it.
LEMMA SecretsDiffer ==
  ASSUME NEW a \in Accounts, NEW b \in Accounts, a # b, NEW c \in Contracts
  PROVE  DeriveSkFromRoot(a, c) # DeriveSkFromRoot(b, c)
<1>. DEFINE Usable(x) == {j \in 0 .. MaxRejections : Block(x, c, j) # Unusable}
            First(x)  == CHOOSE j \in Usable(x) : \A i \in Usable(x) : j <= i
<1>1. ASSUME NEW x \in Accounts
      PROVE  /\ First(x) \in 0 .. MaxRejections /\ Block(x, c, First(x)) # Unusable
             /\ DeriveSkFromRoot(x, c) = Block(x, c, First(x))
  <2>1. Usable(x) # {} /\ Usable(x) \in SUBSET Nat
    BY KeysAssumption, MasksAssumption
  <2>2. \E j \in Usable(x) : \A i \in Usable(x) : j <= i
    <3>. HIDE DEF Usable
    <3>. QED BY <2>1, LeastNatural
  <2>3. First(x) \in Usable(x)
    <3>. HIDE DEF Usable
    <3>. QED BY <2>2
  <2>4. DeriveSkFromRoot(x, c) = Block(x, c, First(x))
    BY Zenon DEF DeriveSkFromRoot
  <2>. HIDE DEF First
  <2>. QED BY <2>3, <2>4
<1>. HIDE DEF First
<1>2. Block(a, c, First(a)) # Block(b, c, First(b))
  BY <1>1, KeysAssumption
<1>. QED BY <1>1, <1>2

\* A viewing key, and with it a public one, is one account's.
LEMMA KeysAreOnes ==
  ASSUME NEW a \in Accounts, NEW b \in Accounts, NEW c \in Contracts,
         Keys[a][c].vk.of = Keys[b][c].vk.of
  PROVE  a = b
<1>1. \A x \in Accounts : Keys[x][c].vk.of = <<"VIEWING_KEY", DeriveSkFromRoot(x, c), c>>
  BY DEF Keys, DeriveKeys, VkFromSk, Scalar
<1>2. DeriveSkFromRoot(a, c) = DeriveSkFromRoot(b, c)
  BY <1>1
<1>. QED BY <1>2, SecretsDiffer

LEMMA KeysAre ==
  ASSUME NEW a \in Accounts, NEW c \in Contracts
  PROVE  /\ Keys[a][c].addrF = c /\ IsScalar(Keys[a][c].vk)
         /\ Keys[a][c].PVK = ScalarMul(Keys[a][c].vk)
         /\ Keys[a][c].PVK.pointOf = Keys[a][c].vk.of
BY DEF Keys, DeriveKeys, VkFromSk, Scalar, IsScalar, ScalarMul

\* The references either source gives of an event.
RefsOf(i) ==
  {[ledger |-> Coordinates[i].ledger, id |-> id, txHash |-> Coordinates[i].txHash] :
     id \in {Cursor(i), RowCursor(i, ServedAs[i])}}

\* A proof is of one event, and what the circuit of its role says is so.
Discloses(made, i, e) ==
  LET b    == made.bundle
      pvkB == IF b.circuitId = "disclose_sender" THEN {PVK(e.to)} ELSE {}
  IN
  /\ made.by \in Accounts /\ e.type = "transfer" /\ b.circuitId \in Circuits
  /\ b.refE \in RefsOf(i) /\ DOMAIN b = {"circuitId", "refE", "sealed", "proof"}
  /\ \E contract, v, rDisc, rE :
       LET keys == Keys[made.by][contract] IN
       /\ contract \in Contracts /\ IsScalar(rDisc) /\ b.sealed = Seal(v, rDisc, made.answers)
       /\ b.proof = [ circuitId    |-> b.circuitId,
                      publicInputs |-> PublicInputs(keys.addrF, keys.PVK, e.data, pvkB,
                                                    made.answers, b.sealed) ]
       /\ IF b.circuitId = "disclose_sender"
          THEN /\ SenderCircuit(rE, e.data, PVK(e.to), v)
               /\ rE = DeriveEphemeralRE(keys.vk, e.data.sigma) \/ (rE = e.rEScalar /\ e.from = made.by)
          ELSE RecipientCircuit(keys, e.data, v)

BundlesInv == \A made \in bundles : \E i \in DOMAIN log : Discloses(made, i, log[i])

DisclosureInv == LogInv /\ BundlesInv

\* A step that makes no bundle and forgets no event.
LEMMA BundlesKept ==
  ASSUME BundlesInv, UNCHANGED bundles,
         \A i \in DOMAIN log : i \in DOMAIN log' /\ log'[i] = log[i]
  PROVE  BundlesInv'
BY DEF BundlesInv

LEMMA EmitKeeps ==
  ASSUME LogInv, NEW ev, log' = Append(log, ev)
  PROVE  \A i \in DOMAIN log : i \in DOMAIN log' /\ log'[i] = log[i]
<1>1. PICK S : log \in Seq(S)
  BY DEF LogInv
<1>2. log \in Seq(S \cup {ev})
  BY <1>1, SeqDef
<1>3. log' \in Seq(S \cup {ev}) /\ Len(log') = Len(log) + 1 /\ Len(log) \in Nat
      /\ (\A i \in 1 .. Len(log) : log'[i] = log[i])
  BY <1>2, AppendProperties, LenProperties
<1>4. DOMAIN log = 1 .. Len(log) /\ DOMAIN log' = 1 .. Len(log')
  BY <1>1, <1>3, LenProperties
<1>. QED BY <1>3, <1>4

Proves(b, circuitId, ev, refE, keys, pvkB, v, request) ==
  /\ b.circuitId = circuitId /\ b.refE = refE
  /\ DOMAIN b = {"circuitId", "refE", "sealed", "proof"}
  /\ \E rDisc : IsScalar(rDisc) /\ b.sealed = Seal(v, rDisc, request)
  /\ b.proof = [ circuitId    |-> b.circuitId,
                 publicInputs |-> PublicInputs(keys.addrF, keys.PVK, ev, pvkB, request, b.sealed) ]

LEMMA BundleIs ==
  ASSUME NEW circuitId, NEW ev, NEW refE, NEW keys, NEW pvkB, NEW v, NEW request
  PROVE  Proves(Bundle(circuitId, ev, refE, keys, pvkB, v, request),
                circuitId, ev, refE, keys, pvkB, v, request)
<1>. DEFINE rDisc  == Scalar(<<"r_disc", Cardinality(bundles), request.nu>>)
            sealed == Seal(v, rDisc, request)
<1>1. IsScalar(rDisc)
  BY DEF Scalar, IsScalar
<1>. HIDE DEF sealed
<1>2. Bundle(circuitId, ev, refE, keys, pvkB, v, request) =
        [ circuitId |-> circuitId, refE |-> refE, sealed |-> sealed,
          proof |-> [ circuitId    |-> circuitId,
                      publicInputs |-> PublicInputs(keys.addrF, keys.PVK, ev, pvkB, request, sealed) ] ]
  BY Zenon DEF Bundle, sealed
<1>. HIDE DEF rDisc
<1>. QED BY <1>1, <1>2 DEF sealed, Proves

\* The holder names the event as one of its sources does.
LEMMA RefIsOfEvent ==
  ASSUME LogInv, NEW i \in DOMAIN log, NEW ev \in {ParseEvent(i)} \cup ParseRow(i, ServedAs[i])
  PROVE  EventRef(ev) \in RefsOf(i)
<1>1. ev \in {Seen(i, Cursor(i)), Seen(i, RowCursor(i, ServedAs[i]))}
  BY EventsAre, SeenOnChain, SeenInRow
<1>. QED BY <1>1, SeenFields DEF RefsOf

LEMMA AnswerAdds ==
  ASSUME NEW holder, NEW request, NEW bundle, Answer(holder, request, bundle),
         LogInv, BundlesInv, NEW i \in DOMAIN log,
         Discloses([by |-> holder, answers |-> request, bundle |-> bundle], i, log[i])
  PROVE  BundlesInv'
<1>1. log' = log /\ bundles' = bundles \cup {[by |-> holder, answers |-> request, bundle |-> bundle]}
  BY DEF Answer
<1>. QED BY <1>1 DEF BundlesInv

LEMMA RecipientAdds ==
  ASSUME LogInv, BundlesInv, NEW a \in Accounts, NEW c \in Contracts, NEW i \in DOMAIN log, NEW n,
         NEW refE \in RefsOf(i), log[i].type = "transfer",
         ProveRecipientDisclosure(a, c, i, n, refE)
  PROVE  BundlesInv'
<1>. DEFINE keys   == Keys[a][c]
            ev     == log[i].data
            opened == BuildDiscloseRecipientWitness(keys, ev)
            v      == opened.plain
            b      == Bundle("disclose_recipient", ev, refE, keys, {}, v, requests[n])
            made   == [by |-> a, answers |-> requests[n], bundle |-> b]
<1>1. RecipientCircuit(keys, ev, v) /\ Answer(a, requests[n], b)
  BY Zenon DEF ProveRecipientDisclosure
<1>. HIDE DEF v
<1>2. Proves(b, "disclose_recipient", ev, refE, keys, {}, v, requests[n])
  BY BundleIs
<1>. HIDE DEF b
<1>3. made.by = a /\ made.answers = requests[n] /\ made.bundle = b
  OBVIOUS
<1>. HIDE DEF made
<1>4. Discloses(made, i, log[i])
  BY <1>1, <1>2, <1>3 DEF Discloses, Circuits, Proves
<1>. QED BY <1>1, <1>4, AnswerAdds DEF made

LEMMA SenderAdds ==
  ASSUME LogInv, BundlesInv, NEW a \in Accounts, NEW c \in Contracts, NEW i \in DOMAIN log, NEW n,
         NEW refE \in RefsOf(i), log[i].type = "transfer", NEW kept \in BOOLEAN,
         ProveSenderDisclosure(a, c, i, n, refE, kept)
  PROVE  BundlesInv'
<1>. DEFINE keys   == Keys[a][c]
            ev     == log[i].data
            pvkB   == PVK(log[i].to)
            rE     == IF kept THEN log[i].rEScalar ELSE DeriveEphemeralRE(keys.vk, ev.sigma)
            opened == BuildDiscloseSenderWitness(rE, ev, pvkB)
            v      == opened.plain
            b      == Bundle("disclose_sender", ev, refE, keys, {pvkB}, v, requests[n])
            made   == [by |-> a, answers |-> requests[n], bundle |-> b]
<1>1. /\ SenderCircuit(rE, ev, pvkB, v) /\ Answer(a, requests[n], b)
      /\ kept => log[i].from = a
  BY Zenon DEF ProveSenderDisclosure
<1>0. rE = DeriveEphemeralRE(keys.vk, ev.sigma) \/ (rE = log[i].rEScalar /\ log[i].from = a)
  BY <1>1
<1>. HIDE DEF v, rE
<1>2. Proves(b, "disclose_sender", ev, refE, keys, {pvkB}, v, requests[n])
  BY BundleIs
<1>. HIDE DEF b
<1>3. made.by = a /\ made.answers = requests[n] /\ made.bundle = b
  OBVIOUS
<1>. HIDE DEF made
<1>4. Discloses(made, i, log[i])
  BY <1>0, <1>1, <1>2, <1>3 DEF Discloses, Circuits, Proves
<1>. QED BY <1>1, <1>4, AnswerAdds DEF made

\* Every bundle is a proof of one event, by the circuit of its role.
THEOREM BundlesInvariance == Spec => []DisclosureInv
<1>1. Init => BundlesInv
  BY DEF Init, BundlesInv
<1>2. LogInv /\ BundlesInv /\ [Next]_vars => BundlesInv'
  <2>. SUFFICES ASSUME LogInv, BundlesInv, [Next]_vars PROVE BundlesInv'
    OBVIOUS
  <2>1. ASSUME NEW ev, Emit(ev) PROVE BundlesInv'
    BY <2>1, EmitKeeps, BundlesKept DEF Emit
  <2>2. CASE \E a, b \in Accounts, v \in Amounts, sigma \in Sigmas :
               \E rE \in {DeriveEphemeralRE(Keys[a][Token].vk, sigma)} \cup Ephemerals :
                 Transfer(a, b, v, sigma, rE)
    BY <2>1, <2>2 DEF Transfer
  <2>3. CASE \E a \in Accounts, v \in Amounts, sigma \in Sigmas, rE \in Ephemerals :
               Withdraw(a, v, sigma, rE)
    BY <2>1, <2>3 DEF Withdraw
  <2>4. CASE \E rR \in DeskKeys : NewDisclosureRequest(rR)
    BY <2>4, BundlesKept DEF NewDisclosureRequest
  <2>5. CASE \E a \in Accounts, c \in Contracts, i \in DOMAIN log, n \in DOMAIN requests :
               ProveDisclosure(a, c, i, n)
    <3>1. PICK a \in Accounts, c \in Contracts, i \in DOMAIN log, n \in DOMAIN requests :
            ProveDisclosure(a, c, i, n)
      BY <2>5
    <3>2. PICK ev \in {ParseEvent(i)} \cup ParseRow(i, ServedAs[i]) :
            \/ ProveRecipientDisclosure(a, c, i, n, EventRef(ev))
            \/ \E kept \in BOOLEAN : ProveSenderDisclosure(a, c, i, n, EventRef(ev), kept)
      BY <3>1 DEF ProveDisclosure
    <3>3. log[i].type = "transfer"
      BY <3>1 DEF ProveDisclosure
    <3>4. EventRef(ev) \in RefsOf(i)
      BY RefIsOfEvent
    <3>. QED BY <3>2, <3>3, <3>4, RecipientAdds, SenderAdds
  <2>6. CASE \E made \in bundles, n \in DOMAIN requests, refE \in References, rpc \in {DOMAIN log, {}} :
               Verify(made, n, refE, rpc)
    BY <2>6, BundlesKept DEF Verify
  <2>7. CASE UNCHANGED vars
    BY <2>7, BundlesKept DEF vars
  <2>. QED BY <2>2, <2>3, <2>4, <2>5, <2>6, <2>7 DEF Next
<1>. QED BY <1>1, <1>2, LogInvariance, PTL DEF Spec, DisclosureInv

-----------------------------------------------------------------------------
(* The desk. *)

LEMMA TransferIs ==
  ASSUME LogInv, NEW i \in DOMAIN log, log[i].type = "transfer"
  PROVE  /\ log[i].from \in Accounts /\ log[i].to \in Accounts
         /\ \E rE : \E sigma \in Sigmas :
              /\ IsScalar(rE) /\ log[i].rEScalar = rE
              /\ rE \in {DeriveEphemeralRE(Keys[log[i].from][Token].vk, sigma)} \cup Ephemerals
              /\ log[i].data.rE = ScalarMul(rE) /\ log[i].data.sigma = sigma
              /\ log[i].data.vTilde = EncryptAmount(log[i].amount, Ecdh(rE, PVK(log[i].to)), sigma)
<1>. DEFINE e == log[i]
<1>1. EventExplained(e)
  BY EventsAre DEF LogInv
<1>. HIDE DEF e
<1>2. PICK v, rE : \E sigma \in Sigmas :
        /\ IsScalar(rE) /\ e.left = v - e.amount /\ e.rEScalar = rE
        /\ rE \in {DeriveEphemeralRE(Keys[e.from][Token].vk, sigma)} \cup Ephemerals
        /\ e.data = TransferPayload(v, e.amount, sigma, rE, Keys[e.from][Token].vk, PVK(e.to),
                     ScalarMul(AuditorOf[e.to]), ScalarMul(AuditorOf[e.from]))
  BY <1>1 DEF EventExplained, e
<1>3. PICK sigma \in Sigmas :
        /\ IsScalar(rE) /\ e.left = v - e.amount /\ e.rEScalar = rE
        /\ rE \in {DeriveEphemeralRE(Keys[e.from][Token].vk, sigma)} \cup Ephemerals
        /\ e.data = TransferPayload(v, e.amount, sigma, rE, Keys[e.from][Token].vk, PVK(e.to),
                     ScalarMul(AuditorOf[e.to]), ScalarMul(AuditorOf[e.from]))
  BY <1>2
<1>4. /\ e.data.rE = ScalarMul(rE) /\ e.data.sigma = sigma
      /\ e.data.vTilde = EncryptAmount(e.amount, Ecdh(rE, PVK(e.to)), sigma)
  BY <1>3 DEF TransferPayload
<1>5. e.from \in Accounts /\ e.to \in Accounts
  BY <1>1 DEF EventExplained
<1>. QED BY <1>3, <1>4, <1>5 DEF e

\* What the desk resolves is an event as one of its sources gives it.
LEMMA ResolvedIsSeen ==
  ASSUME LogInv, NEW rpc \in SUBSET DOMAIN log, NEW indexer \in SUBSET DOMAIN log, NEW ref,
         NEW ev \in HybridResolveEventRef(rpc, indexer, ref)
  PROVE  \E j \in DOMAIN log : /\ ref.id \in {Cursor(j), RowCursor(j, ServedAs[j])}
                               /\ ev = Seen(j, ref.id)
<1>1. CASE ev \in ResolveEventRef(rpc, ref)
  <2>1. PICK j \in rpc : Cursor(j) = ref.id /\ ev = ParseEvent(j)
    BY <1>1 DEF ResolveEventRef, RpcPage
  <2>. QED BY <2>1, SeenOnChain
<1>2. CASE ev \in IndexerResolveEventRef(indexer, ref)
  <2>1. PICK j \in indexer : RowCursor(j, ServedAs[j]) = ref.id /\ ev \in ParseRow(j, ServedAs[j])
    BY <1>2 DEF IndexerResolveEventRef, IndexerPage
  <2>2. ParseRow(j, ServedAs[j]) \subseteq {Seen(j, RowCursor(j, ServedAs[j]))}
    BY EventsAre, SeenInRow
  <2>. QED BY <2>1, <2>2
<1>. QED BY <1>1, <1>2 DEF HybridResolveEventRef

\* What acceptance rests on.
Accepted(b, ev, request, rR, passesPvkB, answer) ==
  LET account == IF b.circuitId = "disclose_sender" THEN ev.from ELSE ev.to
      pvkB    == IF passesPvkB THEN {PVK(ev.to)} ELSE {}
      opened  == DecryptDisclosure(rR, b.sealed, request.nu)
  IN
  /\ b.circuitId \in Circuits /\ request.pR = ScalarMul(rR) /\ InRange(opened)
  /\ b.proof = [ circuitId    |-> b.circuitId,
                 publicInputs |-> PublicInputs(Token, PVK(account), ev.data, pvkB, request, b.sealed) ]
  /\ answer = [ stage |-> "accepted", amount |-> opened.plain, event |-> ev.at,
                role |-> b.circuitId, account |-> account, request |-> request ]

LEMMA AcceptedMeans ==
  ASSUME NEW b, NEW ev, NEW request, NEW rR, NEW vkMatches \in BOOLEAN, NEW passesPvkB \in BOOLEAN,
         VerifyDisclosure(b, ev, request, rR, vkMatches, passesPvkB).stage = "accepted"
  PROVE  Accepted(b, ev, request, rR, passesPvkB,
                  VerifyDisclosure(b, ev, request, rR, vkMatches, passesPvkB))
<1>. DEFINE isSender == b.circuitId = "disclose_sender"
            account  == IF isSender THEN ev.from ELSE ev.to
            pvkB     == IF passesPvkB THEN {PVK(ev.to)} ELSE {}
            inputs   == PublicInputs(Token, PVK(account), ev.data, pvkB, request, b.sealed)
            opened   == DecryptDisclosure(rR, b.sealed, request.nu)
            accepted == [ stage |-> "accepted", amount |-> opened.plain, event |-> ev.at,
                          role |-> b.circuitId, account |-> account, request |-> request ]
            asked    == request.pR = ScalarMul(rR)
            proven   == b.proof = [circuitId |-> b.circuitId, publicInputs |-> inputs]
            checked  == IF ~vkMatches THEN Refused("vk-pinning")
                        ELSE IF ~proven THEN Refused("verify-proof")
                        ELSE IF ~InRange(opened) THEN Refused("decrypt") ELSE accepted
            known    == b.circuitId \in Circuits
            answer   == VerifyDisclosure(b, ev, request, rR, vkMatches, passesPvkB)
<1>1. answer = IF ~known THEN Refused("vk-pinning")
               ELSE CASE ~asked -> Refused("decrypt")
                      [] asked /\ isSender /\ ~passesPvkB -> Refused("resolve-account")
                      [] OTHER -> checked
  BY Zenon DEF VerifyDisclosure
<1>2. \A stage \in {"decrypt", "resolve-account", "vk-pinning", "verify-proof"} :
        Refused(stage).stage # "accepted"
  BY DEF Refused
<1>3. answer.stage = "accepted"
  OBVIOUS
<1>. HIDE DEF isSender, accepted, asked, proven, answer, opened, known
<1>4. known /\ asked
  BY <1>1, <1>2, <1>3
<1>5. answer = checked
  BY <1>1, <1>2, <1>3, <1>4
<1>6. proven /\ InRange(opened) /\ answer = accepted
  BY <1>2, <1>3, <1>5
<1>. QED BY <1>4, <1>6, Zenon DEF Accepted, isSender, accepted, asked, proven, answer, opened, known

\* A mask tells what it hides from.
LEMMA AmountMask ==
  ASSUME NEW v, NEW s, NEW sigma
  PROVE  /\ EncryptAmount(v, s, sigma).cipher = v
         /\ EncryptAmount(v, s, sigma).pad = <<"TX_AMOUNT", 0, s, sigma>>
BY DEF EncryptAmount, Mask, PoseidonWithDomain, SpongeSqueeze2

\* A bundle is worth amount: its proof and its seal are of that and nothing else.
IsWorth(made, e, amount, contract, rDisc) ==
  LET b    == made.bundle
      pvkB == IF b.circuitId = "disclose_sender" THEN {PVK(e.to)} ELSE {}
      keys == Keys[made.by][contract]
  IN
  /\ contract \in Contracts /\ IsScalar(rDisc) /\ b.sealed = Seal(amount, rDisc, made.answers)
  /\ b.proof = [ circuitId    |-> b.circuitId,
                 publicInputs |-> PublicInputs(keys.addrF, keys.PVK, e.data, pvkB,
                                               made.answers, b.sealed) ]

\* The circuit of either role fixes the amount.
LEMMA CircuitFixesAmount ==
  ASSUME NEW made, NEW i, NEW e, Discloses(made, i, e), NEW amount, NEW s, NEW sigma,
         e.data.vTilde = EncryptAmount(amount, s, sigma)
  PROVE  \E contract, rDisc : IsWorth(made, e, amount, contract, rDisc)
<1>. DEFINE b    == made.bundle
            pvkB == IF b.circuitId = "disclose_sender" THEN {PVK(e.to)} ELSE {}
<1>1. PICK contract, v, rDisc, rE :
        LET keys == Keys[made.by][contract] IN
        /\ contract \in Contracts /\ IsScalar(rDisc) /\ b.sealed = Seal(v, rDisc, made.answers)
        /\ b.proof = [ circuitId    |-> b.circuitId,
                       publicInputs |-> PublicInputs(keys.addrF, keys.PVK, e.data, pvkB,
                                                     made.answers, b.sealed) ]
        /\ IF b.circuitId = "disclose_sender"
           THEN SenderCircuit(rE, e.data, PVK(e.to), v) ELSE RecipientCircuit(keys, e.data, v)
  BY Zenon DEF Discloses
<1>2. e.data.vTilde.cipher = amount
  BY AmountMask
<1>3. v = amount
  BY <1>1, <1>2, AmountMask DEF SenderCircuit, RecipientCircuit
<1>. HIDE DEF b
<1>4. IsWorth(made, e, amount, contract, rDisc)
  BY <1>1, <1>3 DEF IsWorth, b
<1>. QED BY <1>4

\* The desk that asked opens what was sealed for its request.
LEMMA SealOpens ==
  ASSUME NEW v, NEW rDisc, NEW request, NEW rR, IsScalar(rDisc), IsScalar(rR),
         request.pR = ScalarMul(rR)
  PROVE  DecryptDisclosure(rR, Seal(v, rDisc, request), request.nu) = Plain(v)
<1>. DEFINE sealed == Seal(v, rDisc, request)
            pad(s) == PoseidonWithDomain("DISCLOSURE", s, request.nu)
<1>1. /\ sealed.rDisc = ScalarMul(rDisc)
      /\ sealed.vTildeDisc = Mask(v, pad(Ecdh(rDisc, ScalarMul(rR))))
  BY DEF Seal, EncryptDisclosure
<1>2. Ecdh(rR, ScalarMul(rDisc)) = Ecdh(rDisc, ScalarMul(rR))
  BY EcdhIsOneKeys
<1>. HIDE DEF sealed
<1>3. DecryptDisclosure(rR, sealed, request.nu)
        = Unmask(Mask(v, pad(Ecdh(rDisc, ScalarMul(rR)))), pad(Ecdh(rR, ScalarMul(rDisc))))
  BY <1>1, Zenon DEF DecryptDisclosure, DecryptWithDomain
<1>. HIDE DEF pad
<1>. QED BY <1>2, <1>3, UnmaskOpens DEF sealed

LEMMA SeenData ==
  ASSUME NEW j, NEW cursor, log[j].type = "transfer"
  PROVE  LET data == Seen(j, cursor).data IN
         /\ data.rE = log[j].data.rE /\ data.sigma = log[j].data.sigma
         /\ data.vTilde = log[j].data.vTilde
         /\ Seen(j, cursor).from = log[j].from /\ Seen(j, cursor).to = log[j].to
<1>. DEFINE T == <<"rE", "vTilde", "sigma", "bTilde", "vAudR", "rAudR", "vAudS", "bAudS">>
            e == log[j]
<1>1. {"rE", "vTilde", "sigma"} \subseteq FieldsOf("transfer")
  <2>1. FieldNames("transfer") = T
    BY DEF FieldNames
  <2>2. DOMAIN T = 1 .. 8 /\ T[1] = "rE" /\ T[2] = "vTilde" /\ T[3] = "sigma"
    OBVIOUS
  <2>. HIDE DEF T
  <2>. QED BY <2>1, <2>2 DEF FieldsOf
<1>. HIDE DEF e
<1>2. Seen(j, cursor).data = [name \in FieldsOf("transfer") |-> e.data[name]]
      /\ Seen(j, cursor).from = e.from /\ Seen(j, cursor).to = e.to
  BY DEF Seen, e
<1>3. /\ Seen(j, cursor).data.rE = e.data.rE /\ Seen(j, cursor).data.sigma = e.data.sigma
      /\ Seen(j, cursor).data.vTilde = e.data.vTilde
  BY <1>1, <1>2
<1>. QED BY <1>2, <1>3 DEF e

Truthful(answer, made, j) ==
  /\ answer.event = j /\ answer.amount = log[j].amount
  /\ answer.account = IF answer.role = "disclose_sender" THEN log[j].from ELSE log[j].to
  /\ made.by = answer.account /\ made.answers = answer.request
  /\ made.bundle.circuitId = answer.role

\* What a desk accepts is so, however the bundle was relabelled.
LEMMA AnswersAreTrue ==
  ASSUME DisclosureInv, NEW made \in bundles, NEW request, NEW circuitId,
         NEW j \in DOMAIN log, log[j].type = "transfer", NEW cursor,
         NEW rR \in DeskKeys, NEW vkMatches \in BOOLEAN, NEW passesPvkB \in BOOLEAN, NEW answer,
         answer = VerifyDisclosure([made.bundle EXCEPT !.circuitId = circuitId], Seen(j, cursor),
                                   request, rR, vkMatches, passesPvkB),
         answer.stage = "accepted"
  PROVE  Truthful(answer, made, j)
<1>. DEFINE b       == made.bundle
            relabelled == [b EXCEPT !.circuitId = circuitId]
            ev      == Seen(j, cursor)
            account == IF circuitId = "disclose_sender" THEN log[j].from ELSE log[j].to
            pvkB    == IF passesPvkB THEN {PVK(log[j].to)} ELSE {}
            opened  == DecryptDisclosure(rR, b.sealed, request.nu)
<1>1. PICK i \in DOMAIN log : Discloses(made, i, log[i])
  BY DEF DisclosureInv, BundlesInv
<1>2. DOMAIN b = {"circuitId", "refE", "sealed", "proof"} /\ made.by \in Accounts
      /\ log[i].type = "transfer"
  BY <1>1 DEF Discloses
<1>3. relabelled.circuitId = circuitId /\ relabelled.proof = b.proof /\ relabelled.sealed = b.sealed
  <2>. HIDE DEF b
  <2>. QED BY <1>2 DEF b
<1>. HIDE DEF relabelled, b
<1>4. /\ ev.from = log[j].from /\ ev.to = log[j].to /\ ev.at = j
      /\ ev.data.rE = log[j].data.rE /\ ev.data.sigma = log[j].data.sigma
      /\ ev.data.vTilde = log[j].data.vTilde
  BY SeenData, SeenFields
<1>. HIDE DEF ev
<1>5. answer = VerifyDisclosure(relabelled, ev, request, rR, vkMatches, passesPvkB)
  BY DEF relabelled, ev, b
<1>6. /\ request.pR = ScalarMul(rR) /\ InRange(opened)
      /\ b.proof = [ circuitId    |-> circuitId,
                     publicInputs |-> PublicInputs(Token, PVK(account), ev.data, pvkB, request, b.sealed) ]
      /\ answer = [ stage |-> "accepted", amount |-> opened.plain, event |-> j,
                    role |-> circuitId, account |-> account, request |-> request ]
  <2>1. VerifyDisclosure(relabelled, ev, request, rR, vkMatches, passesPvkB).stage = "accepted"
    BY <1>5
  <2>2. Accepted(relabelled, ev, request, rR, passesPvkB, answer)
    BY <2>1, <1>5, AcceptedMeans
  <2>. QED BY <2>2, <1>3, <1>4 DEF Accepted
<1>7. PICK rE, sigma :
        log[i].data.vTilde = EncryptAmount(log[i].amount, Ecdh(rE, PVK(log[i].to)), sigma)
  BY <1>2, TransferIs DEF DisclosureInv
<1>81. PICK contract, rDisc : IsWorth(made, log[i], log[i].amount, contract, rDisc)
  BY <1>1, <1>7, CircuitFixesAmount
<1>8. LET q    == IF b.circuitId = "disclose_sender" THEN {PVK(log[i].to)} ELSE {}
          keys == Keys[made.by][contract]
      IN
      /\ contract \in Contracts /\ IsScalar(rDisc)
      /\ b.sealed = Seal(log[i].amount, rDisc, made.answers)
      /\ b.proof = [ circuitId    |-> b.circuitId,
                     publicInputs |-> PublicInputs(keys.addrF, keys.PVK, log[i].data, q,
                                                   made.answers, b.sealed) ]
  BY <1>81 DEF IsWorth, b
<1>9. /\ b.circuitId = circuitId /\ Keys[made.by][contract].addrF = Token
      /\ Keys[made.by][contract].PVK = PVK(account) /\ made.answers = request
      /\ log[i].data.vTilde = log[j].data.vTilde
  <2>. DEFINE keys == Keys[made.by][contract]
              q    == IF b.circuitId = "disclose_sender" THEN {PVK(log[i].to)} ELSE {}
              mine == PublicInputs(keys.addrF, keys.PVK, log[i].data, q, made.answers, b.sealed)
              asked == PublicInputs(Token, PVK(account), ev.data, pvkB, request, b.sealed)
  <2>1. b.proof = [circuitId |-> b.circuitId, publicInputs |-> mine]
        /\ b.proof = [circuitId |-> circuitId, publicInputs |-> asked]
    BY <1>6, <1>8
  <2>. HIDE DEF mine, asked
  <2>2. b.circuitId = circuitId /\ mine = asked
    BY <2>1
  <2>. HIDE DEF keys, q, account, pvkB
  <2>3. /\ keys.addrF = Token /\ keys.PVK = PVK(account) /\ made.answers = request
        /\ log[i].data.vTilde = ev.data.vTilde
    BY <2>2 DEF mine, asked, PublicInputs
  <2>. QED BY <1>4, <2>2, <2>3 DEF keys
<1>10. account \in Accounts
  BY TransferIs DEF DisclosureInv
<1>11. made.by = account
  <2>1. contract = Token
    BY <1>2, <1>8, <1>9, KeysAre
  <2>2. made.by \in Accounts /\ Token \in Contracts
    BY <1>2, DisclosureAssumption
  <2>. HIDE DEF account
  <2>3. Keys[made.by][Token].PVK = Keys[account][Token].PVK
    BY <2>1, <1>9 DEF PVK
  <2>4. Keys[made.by][Token].vk.of = Keys[account][Token].vk.of
    <3>1. Keys[made.by][Token].PVK.pointOf = Keys[made.by][Token].vk.of
      BY <2>2, KeysAre
    <3>2. Keys[account][Token].PVK.pointOf = Keys[account][Token].vk.of
      BY <2>2, <1>10, KeysAre
    <3>. QED BY <2>3, <3>1, <3>2
  <2>. QED BY <1>10, <2>2, <2>4, KeysAreOnes
<1>12. log[i].amount = log[j].amount
  <2>1. PICK rE2, sigma2 :
          log[j].data.vTilde = EncryptAmount(log[j].amount, Ecdh(rE2, PVK(log[j].to)), sigma2)
    BY TransferIs DEF DisclosureInv
  <2>2. log[i].data.vTilde.cipher = log[i].amount
    BY <1>7, AmountMask
  <2>3. log[j].data.vTilde.cipher = log[j].amount
    BY <2>1, AmountMask
  <2>. QED BY <1>9, <2>2, <2>3
<1>13. opened = Plain(log[j].amount)
  BY <1>6, <1>8, <1>9, <1>12, SealOpens, DisclosureAssumption
<1>14. opened.plain = log[j].amount
  <2>. HIDE DEF opened
  <2>. QED BY <1>13 DEF Plain
<1>. HIDE DEF account, opened
<1>15. /\ answer.event = j /\ answer.amount = opened.plain /\ answer.role = circuitId
       /\ answer.account = account /\ answer.request = request
  BY <1>6
<1>. QED BY <1>9, <1>11, <1>14, <1>15 DEF account, b, Truthful

LEMMA VerifyIsTrue ==
  ASSUME DisclosureInv, NEW made \in bundles, NEW n, NEW refE, NEW rpc \in {DOMAIN log, {}},
         Verify(made, n, refE, rpc)
  PROVE  AcceptedIsTrue'
<1>. DEFINE indexer  == 1 .. Len(log) - IndexerLag
            resolved == {ev \in HybridResolveEventRef(rpc, indexer, refE) : ev.type = "transfer"}
<1>1. /\ verdict' \in IF resolved = {} THEN {Refused("resolve-event")}
                      ELSE UNION {Answers(made, n, ev) : ev \in resolved}
      /\ log' = log /\ bundles' = bundles
  BY DEF Verify
<1>2. rpc \in SUBSET DOMAIN log /\ indexer \in SUBSET DOMAIN log
  <2>1. DOMAIN log = 1 .. Len(log) /\ Len(log) \in Nat
    BY LenProperties DEF DisclosureInv, LogInv
  <2>. QED BY <2>1, DisclosureAssumption
<1>. HIDE DEF indexer
<1>3. SUFFICES ASSUME verdict'.stage = "accepted"
      PROVE  /\ verdict'.amount = log[verdict'.event].amount
             /\ verdict'.account = IF verdict'.role = "disclose_sender"
                                   THEN log[verdict'.event].from ELSE log[verdict'.event].to
             /\ made.by = verdict'.account /\ made.answers = verdict'.request
             /\ made.bundle.circuitId = verdict'.role
  BY <1>1 DEF AcceptedIsTrue
<1>4. verdict' # Refused("resolve-event")
  BY <1>3 DEF Refused
<1>5. PICK ev \in resolved : verdict' \in Answers(made, n, ev)
  <2>. HIDE DEF resolved
  <2>. QED BY <1>1, <1>4
<1>6. PICK j \in DOMAIN log : ev = Seen(j, refE.id)
  BY <1>2, ResolvedIsSeen DEF DisclosureInv
<1>7. log[j].type = "transfer"
  BY <1>6, SeenFields
<1>8. PICK circuitId \in Circuits \cup {"unknown"}, rR \in DeskKeys, vkMatches \in BOOLEAN, passesPvkB \in BOOLEAN :
        verdict' = VerifyDisclosure([made.bundle EXCEPT !.circuitId = circuitId], ev, requests[n],
                                    rR, vkMatches, passesPvkB)
  <2>. DEFINE V(circuitId, rR, vkMatches, passesPvkB) ==
         VerifyDisclosure([made.bundle EXCEPT !.circuitId = circuitId], ev, requests[n],
                          rR, vkMatches, passesPvkB)
  <2>1. Answers(made, n, ev) = {V(circuitId, rR, vkMatches, passesPvkB) :
          circuitId \in Circuits \cup {"unknown"}, rR \in DeskKeys, vkMatches, passesPvkB \in BOOLEAN}
    BY DEF Answers
  <2>2. \E circuitId \in Circuits \cup {"unknown"}, rR \in DeskKeys, vkMatches \in BOOLEAN,
           passesPvkB \in BOOLEAN :
          verdict' = V(circuitId, rR, vkMatches, passesPvkB)
    <3>. HIDE DEF V
    <3>. QED BY <1>5, <2>1
  <2>. QED BY <2>2
<1>. DEFINE answer == VerifyDisclosure([made.bundle EXCEPT !.circuitId = circuitId], Seen(j, refE.id),
                                       requests[n], rR, vkMatches, passesPvkB)
<1>9. verdict' = answer
  BY <1>6, <1>8, Zenon
<1>10. answer.stage = "accepted"
  <2>. HIDE DEF answer
  <2>. QED BY <1>3, <1>9
<1>11. answer = VerifyDisclosure([made.bundle EXCEPT !.circuitId = circuitId], Seen(j, refE.id),
                                 requests[n], rR, vkMatches, passesPvkB)
  BY Zenon
<1>. HIDE DEF answer
<1>12. Truthful(answer, made, j)
  BY <1>7, <1>10, <1>11, AnswersAreTrue
<1>. QED BY <1>9, <1>12 DEF Truthful

\* Whatever the keys, events and requests, a desk accepts only what is so: no other
\* account, event or request lends its proof.
THEOREM AcceptedIsSo == Spec => []AcceptedIsTrue
<1>1. Init => AcceptedIsTrue
  BY DEF Init, Unread, AcceptedIsTrue
<1>2. DisclosureInv /\ AcceptedIsTrue /\ [Next]_vars => AcceptedIsTrue'
  <2>. SUFFICES ASSUME DisclosureInv, AcceptedIsTrue, [Next]_vars PROVE AcceptedIsTrue'
    OBVIOUS
  <2>1. ASSUME verdict' = Unread PROVE AcceptedIsTrue'
    BY <2>1 DEF Unread, AcceptedIsTrue
  <2>2. CASE \E a, b \in Accounts, v \in Amounts, sigma \in Sigmas :
               \E rE \in {DeriveEphemeralRE(Keys[a][Token].vk, sigma)} \cup Ephemerals :
                 Transfer(a, b, v, sigma, rE)
    BY <2>1, <2>2 DEF Transfer, Emit
  <2>3. CASE \E a \in Accounts, v \in Amounts, sigma \in Sigmas, rE \in Ephemerals :
               Withdraw(a, v, sigma, rE)
    BY <2>1, <2>3 DEF Withdraw, Emit
  <2>4. CASE \E rR \in DeskKeys : NewDisclosureRequest(rR)
    BY <2>1, <2>4 DEF NewDisclosureRequest
  <2>5. CASE \E a \in Accounts, c \in Contracts, i \in DOMAIN log, n \in DOMAIN requests :
               ProveDisclosure(a, c, i, n)
    BY <2>1, <2>5, ProveLeaves
  <2>6. CASE \E made \in bundles, n \in DOMAIN requests, refE \in References, rpc \in {DOMAIN log, {}} :
               Verify(made, n, refE, rpc)
    BY <2>6, VerifyIsTrue
  <2>7. CASE UNCHANGED vars
    BY <2>7 DEF vars, AcceptedIsTrue
  <2>. QED BY <2>2, <2>3, <2>4, <2>5, <2>6, <2>7 DEF Next
<1>. QED BY <1>1, <1>2, BundlesInvariance, PTL DEF Spec

\* The proofs of an account's keys on this token are of its own events: only the
\* recipient's key unmasks, and only the sender's derives the event's scalar.
LEMMA ProverIsParty ==
  ASSUME LogInv, NEW made, NEW i \in DOMAIN log, Discloses(made, i, log[i]),
         made.bundle.proof.publicInputs[1] = Token
  PROVE  made.by = IF made.bundle.circuitId = "disclose_sender" THEN log[i].from ELSE log[i].to
<1>. DEFINE b    == made.bundle
            e    == log[i]
            pvkB == IF b.circuitId = "disclose_sender" THEN {PVK(e.to)} ELSE {}
<1>1. PICK contract, v, rDisc, rS :
        LET keys == Keys[made.by][contract] IN
        /\ contract \in Contracts
        /\ b.proof = [ circuitId    |-> b.circuitId,
                       publicInputs |-> PublicInputs(keys.addrF, keys.PVK, e.data, pvkB,
                                                     made.answers, b.sealed) ]
        /\ IF b.circuitId = "disclose_sender"
           THEN /\ SenderCircuit(rS, e.data, PVK(e.to), v)
                /\ rS = DeriveEphemeralRE(keys.vk, e.data.sigma) \/ (rS = e.rEScalar /\ e.from = made.by)
           ELSE RecipientCircuit(keys, e.data, v)
  BY Zenon DEF Discloses
<1>2. made.by \in Accounts /\ e.type = "transfer"
  BY DEF Discloses
<1>3. b.proof.publicInputs[1] = Keys[made.by][contract].addrF
  BY <1>1 DEF PublicInputs
<1>4. contract = Token /\ Token \in Contracts
  BY <1>1, <1>2, <1>3, KeysAre, DisclosureAssumption
<1>5. e.from \in Accounts /\ e.to \in Accounts
  BY <1>2, TransferIs
<1>6. PICK rE : \E sigma \in Sigmas :
        /\ IsScalar(rE) /\ e.rEScalar = rE
        /\ rE \in {DeriveEphemeralRE(Keys[e.from][Token].vk, sigma)} \cup Ephemerals
        /\ e.data.rE = ScalarMul(rE) /\ e.data.sigma = sigma
        /\ e.data.vTilde = EncryptAmount(e.amount, Ecdh(rE, PVK(e.to)), sigma)
  BY <1>2, TransferIs
<1>7. PICK sigma \in Sigmas :
        /\ IsScalar(rE) /\ e.rEScalar = rE
        /\ rE \in {DeriveEphemeralRE(Keys[e.from][Token].vk, sigma)} \cup Ephemerals
        /\ e.data.rE = ScalarMul(rE) /\ e.data.sigma = sigma
        /\ e.data.vTilde = EncryptAmount(e.amount, Ecdh(rE, PVK(e.to)), sigma)
  BY <1>6
<1>. DEFINE mine == Keys[made.by][Token]
<1>8. /\ IsScalar(mine.vk) /\ IsScalar(Keys[e.to][Token].vk) /\ IsScalar(Keys[e.from][Token].vk)
      /\ PVK(e.to) = ScalarMul(Keys[e.to][Token].vk)
  BY <1>2, <1>4, <1>5, KeysAre DEF PVK
<1>. HIDE DEF e, b
<1>9. CASE b.circuitId = "disclose_sender"
  <2>1. SUFFICES ASSUME rS = DeriveEphemeralRE(mine.vk, sigma) PROVE made.by = e.from
    BY <1>1, <1>4, <1>7, <1>9 DEF e, b
  <2>2. ScalarMul(rS) = ScalarMul(rE)
    BY <1>1, <1>7, <1>9 DEF SenderCircuit
  <2>3. rS = rE
    <3>1. IsScalar(rS)
      BY <2>1 DEF DeriveEphemeralRE, Scalar, IsScalar
    <3>. QED BY <2>2, <3>1, <1>7 DEF ScalarMul, IsScalar
  <2>4. rS \notin Ephemerals
    BY <1>2, <1>4, <2>1, RandomAssumption
  <2>5. DeriveEphemeralRE(mine.vk, sigma) = DeriveEphemeralRE(Keys[e.from][Token].vk, sigma)
    BY <1>7, <2>1, <2>3, <2>4
  <2>6. mine.vk.of = Keys[e.from][Token].vk.of
    BY <2>5 DEF DeriveEphemeralRE, Scalar
  <2>. QED BY <1>2, <1>4, <1>5, <2>6, KeysAreOnes
<1>10. CASE b.circuitId # "disclose_sender"
  <2>1. EncryptAmount(v, Ecdh(mine.vk, ScalarMul(rE)), sigma)
          = EncryptAmount(e.amount, Ecdh(rE, ScalarMul(Keys[e.to][Token].vk)), sigma)
    BY <1>1, <1>4, <1>7, <1>8, <1>10 DEF RecipientCircuit
  <2>2. Ecdh(mine.vk, ScalarMul(rE)) = Ecdh(rE, ScalarMul(Keys[e.to][Token].vk))
    <3>. DEFINE s == Ecdh(mine.vk, ScalarMul(rE))
                t == Ecdh(rE, ScalarMul(Keys[e.to][Token].vk))
    <3>. HIDE DEF s, t
    <3>1. EncryptAmount(v, s, sigma).pad = EncryptAmount(e.amount, t, sigma).pad
      BY <2>1 DEF s, t
    <3>2. <<"TX_AMOUNT", 0, s, sigma>> = <<"TX_AMOUNT", 0, t, sigma>>
      BY <3>1, AmountMask
    <3>3. s = t
      BY <3>2
    <3>. QED BY <3>3 DEF s, t
  <2>3. mine.vk = Keys[e.to][Token].vk
    BY <1>7, <1>8, <2>2, EcdhIsOneKeys
  <2>4. made.by = e.to
    BY <1>2, <1>4, <1>5, <2>3, KeysAreOnes
  <2>. QED BY <1>10, <2>4 DEF e, b
<1>. QED BY <1>9, <1>10 DEF e, b

\* A reference of an event, from either source, resolves to nothing else.
LEMMA RefsResolve ==
  ASSUME LogInv, NEW i \in DOMAIN log, NEW ref \in RefsOf(i), NEW rpc \in SUBSET DOMAIN log,
         NEW ev \in HybridResolveEventRef(rpc, DOMAIN log, ref)
  PROVE  ev = Seen(i, ref.id)
<1>1. PICK j \in DOMAIN log : /\ ref.id \in {Cursor(j), RowCursor(j, ServedAs[j])}
                              /\ ev = Seen(j, ref.id)
  BY ResolvedIsSeen
<1>2. ref.id \in {Cursor(i), RowCursor(i, ServedAs[i])}
  BY DEF RefsOf
<1>3. i = j
  BY <1>1, <1>2, EventsAre, CursorsDiffer
<1>. QED BY <1>1, <1>3

\* In either role, what a holder made with its keys on this token is accepted by the
\* desk that asked, whichever source the reference came from and wherever the event
\* is still found.
THEOREM HonestAccepted == Spec => []HonestIsAccepted
<1>1. DisclosureInv => HonestIsAccepted
  <2>. SUFFICES ASSUME DisclosureInv, NEW made \in bundles, NEW rR \in DeskKeys,
                       NEW rpc \in {DOMAIN log, {}},
                       made.answers.pR = ScalarMul(rR), made.bundle.proof.publicInputs[1] = Token,
                       NEW ev \in HybridResolveEventRef(rpc, DOMAIN log, made.bundle.refE)
                PROVE  LET answer == VerifyDisclosure(made.bundle, ev, made.answers, rR, TRUE,
                                       made.bundle.circuitId = "disclose_sender")
                       IN  answer.stage = "accepted" /\ answer.amount = log[ev.at].amount
    BY Zenon DEF HonestIsAccepted
  <2>. DEFINE b        == made.bundle
              isSender == b.circuitId = "disclose_sender"
              request  == made.answers
              answer   == VerifyDisclosure(b, ev, request, rR, TRUE, isSender)
  <2>1. PICK i \in DOMAIN log : Discloses(made, i, log[i])
    BY DEF DisclosureInv, BundlesInv
  <2>. DEFINE e       == log[i]
              account == IF isSender THEN ev.from ELSE ev.to
              pvkB    == IF isSender THEN {PVK(ev.to)} ELSE {}
              inputs  == PublicInputs(Token, PVK(account), ev.data, pvkB, request, b.sealed)
              opened  == DecryptDisclosure(rR, b.sealed, request.nu)
              accepted == [ stage |-> "accepted", amount |-> opened.plain, event |-> ev.at,
                            role |-> b.circuitId, account |-> account, request |-> request ]
  <2>2. b.refE \in RefsOf(i) /\ e.type = "transfer" /\ made.by \in Accounts
    BY <2>1 DEF Discloses
  <2>3. ev = Seen(i, b.refE.id)
    BY <2>2, RefsResolve DEF DisclosureInv
  <2>4. /\ ev.from = e.from /\ ev.to = e.to /\ ev.at = i
        /\ ev.data.rE = e.data.rE /\ ev.data.sigma = e.data.sigma /\ ev.data.vTilde = e.data.vTilde
    BY <2>2, <2>3, SeenData, SeenFields
  <2>5. made.by = account
    BY <2>1, <2>4, ProverIsParty DEF DisclosureInv
  <2>6. PICK rE, sigma : e.data.vTilde = EncryptAmount(e.amount, Ecdh(rE, PVK(e.to)), sigma)
    BY <2>2, TransferIs DEF DisclosureInv
  <2>71. PICK contract, rDisc : IsWorth(made, e, e.amount, contract, rDisc)
    BY <2>1, <2>6, CircuitFixesAmount
  <2>7. LET q    == IF isSender THEN {PVK(e.to)} ELSE {}
            keys == Keys[made.by][contract]
        IN
        /\ contract \in Contracts /\ IsScalar(rDisc) /\ b.sealed = Seal(e.amount, rDisc, request)
        /\ b.proof = [ circuitId    |-> b.circuitId,
                       publicInputs |-> PublicInputs(keys.addrF, keys.PVK, e.data, q, request, b.sealed) ]
    BY <2>71, Zenon DEF IsWorth
  <2>8. contract = Token
    <3>1. b.proof.publicInputs[1] = Keys[made.by][contract].addrF
      BY <2>7 DEF PublicInputs
    <3>. QED BY <2>2, <2>7, <3>1, KeysAre
  <2>9. b.proof = [circuitId |-> b.circuitId, publicInputs |-> inputs]
    <3>. DEFINE keys == Keys[made.by][Token]
                q    == IF isSender THEN {PVK(e.to)} ELSE {}
    <3>1. keys.addrF = Token /\ keys.PVK = PVK(account) /\ q = pvkB
      BY <2>2, <2>4, <2>5, KeysAre, DisclosureAssumption DEF PVK
    <3>2. b.proof = [ circuitId    |-> b.circuitId,
                      publicInputs |-> PublicInputs(keys.addrF, keys.PVK, e.data, q, request, b.sealed) ]
      BY <2>7, <2>8
    <3>. HIDE DEF keys, q, account, pvkB, b, e, request
    <3>3. PublicInputs(keys.addrF, keys.PVK, e.data, q, request, b.sealed) = inputs
      BY <2>4, <3>1 DEF PublicInputs
    <3>. HIDE DEF inputs
    <3>. QED BY <3>2, <3>3
  <2>10. opened = Plain(e.amount)
    BY <2>7, SealOpens, DisclosureAssumption
  <2>11. InRange(opened) /\ opened.plain = e.amount
    <3>. HIDE DEF opened
    <3>. QED BY <2>10 DEF Plain, InRange
  <2>12. answer = accepted
    <3>. DEFINE checked == IF ~TRUE THEN Refused("vk-pinning")
                           ELSE IF b.proof # [circuitId |-> b.circuitId, publicInputs |-> inputs]
                                THEN Refused("verify-proof")
                           ELSE IF ~InRange(opened) THEN Refused("decrypt") ELSE accepted
                asked   == request.pR = ScalarMul(rR)
                known   == b.circuitId \in Circuits
    <3>1. answer = IF ~known THEN Refused("vk-pinning")
                   ELSE CASE ~asked                          -> Refused("decrypt")
                          [] asked /\ isSender /\ ~isSender  -> Refused("resolve-account")
                          [] OTHER                           -> checked
      BY Zenon DEF VerifyDisclosure
    <3>2. checked = accepted
      <4>. HIDE DEF inputs, opened, accepted, b
      <4>. QED BY <2>9, <2>11
    <3>3. asked /\ known
      BY <2>1 DEF Discloses, Circuits
    <3>. HIDE DEF asked, known, isSender, checked, answer, accepted
    <3>. QED BY <3>1, <3>2, <3>3
  <2>13. accepted.stage = "accepted" /\ accepted.amount = e.amount
    <3>. HIDE DEF account, opened, b, request
    <3>. QED BY <2>11
  <2>. HIDE DEF accepted, answer
  <2>14. answer.stage = "accepted" /\ answer.amount = log[ev.at].amount
    BY <2>4, <2>12, <2>13
  <2>. QED BY <2>14 DEF answer
<1>. QED BY <1>1, BundlesInvariance, PTL
=============================================================================
