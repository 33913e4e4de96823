-------------------------- MODULE MCWalletReplay --------------------------
(***************************************************************************)
(* WalletReplay on two accounts, one registered before the log begins.     *)
(* The digests are a fixed table whose blindings add up past FrModulus and *)
(* past FpModulus, so both wraps of the condominium bug occur.             *)
(***************************************************************************)
EXTENDS WalletReplay

Rank(a) == IF a = "alice" THEN 1 ELSE 2

DomainRank(d) ==
  CASE d = "SPEND_RANDOMNESS"  -> 4
    [] d = "TX_BLINDING"       -> 3
    [] d = "TX_AMOUNT"         -> 2
    [] d = "ENCRYPTED_BALANCE" -> 1

SecretRank(s) ==
  IF Len(s) = 1 THEN Rank(s[1]) ELSE Rank(s[1]) + 2 * Rank(s[2]) + s[3]

MCPoseidon ==
  [ k \in Domain \X Secret \X Sigmas |->
      (DomainRank(k[1]) + 2 * SecretRank(k[2]) + 3 * k[3]) % FrModulus ]
=============================================================================
