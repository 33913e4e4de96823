------------------------------- MODULE Field -------------------------------
(***************************************************************************)
(* The two prime fields of the protocol and the Pedersen commitments over  *)
(* them (packages/sdk/src/crypto/field.ts, grumpkin.ts).                   *)
(*                                                                         *)
(* Witness values, digests and single blindings live modulo FrModulus.     *)
(* Commitments are curve points, so their scalars live modulo the LARGER   *)
(* group order FpModulus.  Mixing the two moduli is the mistake the        *)
(* project calls "the bug the condominium found".                          *)
(*                                                                         *)
(* A point v*G + r*H is identified with the pair of its scalars modulo the *)
(* group order: commitments are perfectly hiding and nobody knows the      *)
(* logarithm of H, so no program run can equate two different pairs.       *)
(***************************************************************************)
EXTENDS Integers

CONSTANTS
  FrModulus,   \* BN254 scalar field: witness values, digests, blindings
  FpModulus    \* Grumpkin group order: what commitments add up modulo

ASSUME FieldAssumption ==
  /\ FrModulus \in Nat \ {0}
  /\ FpModulus \in Nat \ {0}
  /\ FrModulus < FpModulus

Fr == 0 .. FrModulus - 1
Fp == 0 .. FpModulus - 1

\* TLA+ % already answers in 0..m-1 for a negative dividend: the code's
\* "m < 0n ? m + MODULUS : m" repairs the sign of the JavaScript remainder.
FrMod(x)       == x % FrModulus
FrAdd(a, b)    == FrMod(a + b)

\* Mutant: a sum that is left unreduced.
GroupAddUnreduced(a, b) == a + b

\* Commitment blindings and points add modulo the group order.
GroupAdd(a, b) == (a + b) % FpModulus

\* A Noir circuit input: toHex32 prints frMod(x).
FieldIn(x) == FrMod(x)

Point            == [g : Fp, h : Fp]
\* Mutant: the generators are swapped.
CommitSwapped(v, r) == [g |-> r % FpModulus, h |-> v % FpModulus]

Commit(v, r)     == [g |-> v % FpModulus, h |-> r % FpModulus]
PointAdd(c, d)   == [g |-> GroupAdd(c.g, d.g), h |-> GroupAdd(c.h, d.h)]
=============================================================================
