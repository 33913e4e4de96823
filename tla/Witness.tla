------------------------------ MODULE Witness ------------------------------
(***************************************************************************)
(* What a wallet puts into a confidential transaction, and what it can     *)
(* read back out of the emitted event: crypto/poseidon2.ts, grumpkin.ts    *)
(* (ecdh), witness/transfer.ts and witness/withdraw.ts.                    *)
(*                                                                         *)
(* An account stands for its viewing key vk.  A secret is what Poseidon2   *)
(* absorbs next to sigma: <<a>> is vk of a, and <<b, a, s>> is the ECDH    *)
(* secret between b's viewing key and the ephemeral key a derived from s,  *)
(* which both ends compute.  The auditor channels are not modelled here.   *)
(***************************************************************************)
EXTENDS Field

CONSTANTS
  Accounts,    \* confidential accounts, one viewing key each
  Sigmas,      \* the random nonces sigma a wallet may draw
  MaxValue,    \* the circuits' range check: values lie in 0..MaxValue
  Poseidon     \* the digest of each <<domain, secret, sigma>>

Domain == {"SPEND_RANDOMNESS", "TX_BLINDING", "TX_AMOUNT", "ENCRYPTED_BALANCE"}
Secret == {<<a>> : a \in Accounts} \cup (Accounts \X Accounts \X Sigmas)

ASSUME WitnessAssumption ==
  /\ MaxValue \in Fr
  /\ Poseidon \in [Domain \X Secret \X Sigmas -> Fr]

Digest(domain, secret, sigma) == Poseidon[<<domain, secret, sigma>>]

\* The public ephemeral key R_e = r_e * H, with r_e derived from vk and sigma.
EphemeralRE(a, sigma) == <<a, sigma>>
Ecdh(viewer, rE)      == <<viewer, rE[1], rE[2]>>

DeriveSpendR(a, sigma)         == Digest("SPEND_RANDOMNESS", <<a>>, sigma)
DeriveTxBlind(s, sigma)        == Digest("TX_BLINDING", s, sigma)
EncryptAmount(v, s, sigma)     == FrAdd(v, Digest("TX_AMOUNT", s, sigma))
EncryptBalance(v, a, sigma)    == FrAdd(v, Digest("ENCRYPTED_BALANCE", <<a>>, sigma))

\* Blindings are canonical in the curve group, not in Fr: they are summed there.
Opening     == [v : Int, r : Fp]
ZeroOpening == [v |-> 0, r |-> 0]

\* The builders throw before anything is proved when the amount is negative
\* or exceeds the balance the wallet believes it has.
CanSpend(opening, amount) == amount >= 0 /\ opening.v - amount >= 0

\* inputs are the private circuit inputs, reduced into Fr on the way in.
BuildWithdrawWitness(a, opening, amount, sigma) ==
  LET vNew == opening.v - amount IN
  [ inputs  |-> [v |-> FieldIn(opening.v), r |-> FieldIn(opening.r)],
    payload |-> [ cSpendNew |-> Commit(vNew, DeriveSpendR(a, sigma)),
                  bTilde    |-> EncryptBalance(vNew, a, sigma),
                  sigma     |-> sigma ] ]

\* Mutant: the encrypted balance is the one before the transfer.
BuildTransferOldBalance(a, opening, b, amount, sigma) ==
  LET w == BuildWithdrawWitness(a, opening, amount, sigma)
      s == Ecdh(b, EphemeralRE(a, sigma))
  IN
  [ inputs  |-> w.inputs,
    payload |-> [ cSpendNew |-> w.payload.cSpendNew,
                  cTx       |-> Commit(amount, DeriveTxBlind(s, sigma)),
                  rE        |-> EphemeralRE(a, sigma),
                  vTilde    |-> EncryptAmount(amount, s, sigma),
                  bTilde    |-> EncryptBalance(opening.v, a, sigma),
                  sigma     |-> sigma ] ]

\* r_e is derived, as it is unless the caller passes one; Disclosure!Transfer has both.
BuildTransferWitness(a, opening, b, amount, sigma) ==
  LET vNew == opening.v - amount
      rE   == EphemeralRE(a, sigma)
      s    == Ecdh(b, rE)
  IN
  [ inputs  |-> [v |-> FieldIn(opening.v), r |-> FieldIn(opening.r)],
    payload |-> [ cSpendNew |-> Commit(vNew, DeriveSpendR(a, sigma)),
                  cTx       |-> Commit(amount, DeriveTxBlind(s, sigma)),
                  rE        |-> rE,
                  vTilde    |-> EncryptAmount(amount, s, sigma),
                  bTilde    |-> EncryptBalance(vNew, a, sigma),
                  sigma     |-> sigma ] ]
=============================================================================
