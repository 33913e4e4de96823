----------------------------- MODULE MCPayScripts -----------------------------
(***************************************************************************)
(* The scripts with one payer and one payee, run again and again.          *)
(***************************************************************************)
EXTENDS PayScripts

MCAccounts == {"payer", "payee"} \X (1 .. MaxRuns + CalmRuns)
MCCallers  == {Me}
=============================================================================
