------------------------------ MODULE MCVerdicts ------------------------------
(***************************************************************************)
(* Verdicts on two accounts with the digests of the wallets' instance.     *)
(***************************************************************************)
EXTENDS Verdicts

\* The second run only has the isolates serve someone else too.
MCKinds == [r \in Runs |-> IF r = 1 THEN Archives \cup {"audit", "sabotage"} ELSE {"lagging"}]

Rank(a) == IF a = Judged THEN 1 ELSE 2

DomainRank(d) ==
  CASE d = "SPEND_RANDOMNESS"  -> 4
    [] d = "TX_BLINDING"       -> 3
    [] d = "TX_AMOUNT"         -> 2
    [] d = "ENCRYPTED_BALANCE" -> 1

SecretRank(s) ==
  IF Len(s) = 1 THEN Rank(s[1]) ELSE Rank(s[1]) + 2 * Rank(s[2]) + s[3]

MCPoseidon ==
  [ k \in Domain \X Secret \X Sigmas |->
      (DomainRank(k[1]) + 2 * SecretRank(k[2]) + 3 * k[3]) % FrModulus ]
=============================================================================
