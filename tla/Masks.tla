-------------------------------- MODULE Masks --------------------------------
(***************************************************************************)
(* Keys, shared secrets and masks: crypto/grumpkin.ts, poseidon2.ts,       *)
(* keys.ts and sk-derivation.ts, with the Noir library that restates them  *)
(* (circuits/lib), and the auditor's side, auditor/decrypt.ts.             *)
(*                                                                         *)
(* Values are symbolic.  A scalar is a term with a sign, and its point     *)
(* H * scalar has the scalar's name: what nobody can compute is never      *)
(* computed here.  A ciphertext remembers its plaintext and its pad, and   *)
(* opens only with that pad; any other pad leaves a field element that is  *)
(* neither in range nor equal to another one.                              *)
(***************************************************************************)
EXTENDS Naturals, FiniteSets

CONSTANTS
  Root,            \* the root secret of each account, what its wallet signed
  Okm,             \* the j-th derived block, or Unusable: [root, contract, account, j]
  Unusable,        \* a block outside [1, r), or one whose viewing key is zero
  MaxRejections

ASSUME MasksAssumption == MaxRejections \in Nat

-----------------------------------------------------------------------------
(* Scalars and points. *)

Scalar(term)  == [of |-> term, negated |-> FALSE]
IsScalar(k)   == k = [of |-> k.of, negated |-> k.negated] /\ k.negated \in BOOLEAN
Negate(k)     == [k EXCEPT !.negated = ~@]

\* H * k.
ScalarMul(k) == [pointOf |-> k.of, negated |-> k.negated]

\* Mutant: the shared secret is the x coordinate alone (finding L-03).
EcdhXOnly(k, p) == [between |-> {k.of, p.pointOf}, negated |-> FALSE]

\* Both coordinates are absorbed: k and -k share no secret with the same point.
Ecdh(k, p) == [between |-> {k.of, p.pointOf}, negated |-> k.negated # p.negated]

-----------------------------------------------------------------------------
(* Keys. *)

\* The block an account's root secret yields for a contract, at the j-th attempt.
Block(account, contract, j) == Okm[<<Root[account], contract, account, j>>]

\* The first derived block that is a usable secret, of at most MaxRejections + 1.
DeriveSkFromRoot(account, contract) ==
  LET usable == {j \in 0 .. MaxRejections :
                   Block(account, contract, j) # Unusable}
      first  == CHOOSE j \in usable : \A i \in usable : j <= i
  IN  Block(account, contract, first)

\* A viewing key belongs to one secret and one contract.
VkFromSk(sk, contract) == Scalar(<<"VIEWING_KEY", sk, contract>>)

DeriveKeys(account, contract) ==
  LET vk == VkFromSk(DeriveSkFromRoot(account, contract), contract) IN
  [addrF |-> contract, vk |-> vk, PVK |-> ScalarMul(vk)]

\* The default ephemeral scalar of a transfer, recomputable from its event.
DeriveEphemeralRE(vk, sigma) == Scalar(<<"EPHEMERAL_KEY", vk.of, sigma>>)

-----------------------------------------------------------------------------
(* Masks. *)

\* Squeeze 0 of the two-squeeze sponge is what the single digest returns.
SpongeSqueeze2(domain, secret, nonce) ==
  << <<domain, 0, secret, nonce>>, <<domain, 1, secret, nonce>> >>
PoseidonWithDomain(domain, secret, nonce) == SpongeSqueeze2(domain, secret, nonce)[1]

Mask(plain, pad)   == [cipher |-> plain, pad |-> pad]
Plain(v)           == [plain |-> v]
Unmask(masked, pad) ==
  IF masked.pad = pad THEN Plain(masked.cipher) ELSE [masked |-> masked, pad |-> pad]
InRange(opened)    == "plain" \in DOMAIN opened

DeriveTxBlind(s, sigma)     == PoseidonWithDomain("TX_BLINDING", s, sigma)
EncryptAmount(v, s, sigma)  == Mask(v, PoseidonWithDomain("TX_AMOUNT", s, sigma))
EncryptDisclosure(v, s, nu) == Mask(v, PoseidonWithDomain("DISCLOSURE", s, nu))
EncryptBalance(vNew, vk, sigma) ==
  Mask(vNew, PoseidonWithDomain("ENCRYPTED_BALANCE", vk, sigma))
DecryptWithDomain(masked, domain, s, nonce) ==
  Unmask(masked, PoseidonWithDomain(domain, s, nonce))

\* Mutant: the checkpoint is masked with the amount's squeeze (finding N-07).
EncryptCheckpointFirst(vNew, s, sigma) ==
  Mask(vNew, SpongeSqueeze2("AUDITOR_SENDER", s, sigma)[1])

EncryptAuditorSenderBalance(vNew, s, sigma) ==
  Mask(vNew, SpongeSqueeze2("AUDITOR_SENDER", s, sigma)[2])

-----------------------------------------------------------------------------
(* What a transfer and a withdrawal publish. *)

\* vk is the spender's viewing key; kAudR and kAudS are the auditors' public keys.
TransferPayload(v, amount, sigma, rE, vk, pvkB, kAudR, kAudS) ==
  LET s  == Ecdh(rE, pvkB)
      mR == SpongeSqueeze2("AUDITOR_RECIPIENT", Ecdh(rE, kAudR), sigma)
      mS == SpongeSqueeze2("AUDITOR_SENDER", Ecdh(rE, kAudS), sigma)
  IN
  [ rE     |-> ScalarMul(rE),
    sigma  |-> sigma,
    cTx    |-> [v |-> amount, r |-> DeriveTxBlind(s, sigma)],
    vTilde |-> EncryptAmount(amount, s, sigma),
    bTilde |-> EncryptBalance(v - amount, vk, sigma),
    vAudR  |-> Mask(amount, mR[1]),
    rAudR  |-> Mask(DeriveTxBlind(s, sigma), mR[2]),
    vAudS  |-> Mask(amount, mS[1]),
    bAudS  |-> Mask(v - amount, mS[2]) ]

WithdrawPayload(v, amount, sigma, rE, vk, kAudS) ==
  [ amount |-> amount,
    rE     |-> ScalarMul(rE),
    sigma  |-> sigma,
    bTilde |-> EncryptBalance(v - amount, vk, sigma),
    bAudS  |-> EncryptAuditorSenderBalance(v - amount, Ecdh(rE, kAudS), sigma) ]

-----------------------------------------------------------------------------
(* The auditor. *)

AuditTransferSenderChannel(k, ev) ==
  LET m == SpongeSqueeze2("AUDITOR_SENDER", Ecdh(k, ev.rE), ev.sigma) IN
  [amount |-> Unmask(ev.vAudS, m[1]), senderBalance |-> Unmask(ev.bAudS, m[2])]

AuditTransferRecipientChannel(k, ev) ==
  LET m == SpongeSqueeze2("AUDITOR_RECIPIENT", Ecdh(k, ev.rE), ev.sigma) IN
  [amount |-> Unmask(ev.vAudR, m[1]), rTx |-> Unmask(ev.rAudR, m[2])]

AuditTransfer(k, ev) ==
  LET s == AuditTransferSenderChannel(k, ev)
      r == AuditTransferRecipientChannel(k, ev)
  IN
  [ amount        |-> s.amount,
    senderBalance |-> s.senderBalance,
    rTx           |-> r.rTx,
    channelsAgree |-> s.amount = r.amount ]

AuditWithdraw(k, ev) ==
  Unmask(ev.bAudS, SpongeSqueeze2("AUDITOR_SENDER", Ecdh(k, ev.rE), ev.sigma)[2])
=============================================================================
