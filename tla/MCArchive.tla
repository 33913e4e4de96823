------------------------------ MODULE MCArchive ------------------------------
(***************************************************************************)
(* Archive on a short chain whose ledgers are quiet, carry a deposit and a *)
(* merge of two transactions in an order the cursor reverses (a deposit is *)
(* preceded by the asset's own event, so its index is 1), or carry two     *)
(* merges with the same cursor.                                            *)
(***************************************************************************)
EXTENDS Archive

Emission(tx, index, kind) ==
  [tx |-> tx, op |-> 0, index |-> index, kind |-> kind, who |-> {"alice"}]

Quiet     == << >>
Reversed  == <<Emission(1, 1, "deposit"), Emission(2, 0, "merge")>>
Colliding == <<Emission(1, 0, "merge"), Emission(2, 0, "merge")>>

DistinctBlocks == {Quiet, Reversed}
PlainBlocks    == {Quiet, Colliding}
=============================================================================
