------------------------------ MODULE MCPayment -------------------------------
(***************************************************************************)
(* Payment with two visitors, one of whom may retry; they may ask for more *)
(* than the range allows and, together, for more than the guest has.       *)
(***************************************************************************)
EXTENDS Payment

CONSTANTS guest, building, v1, v2

MCAccounts == {guest, building}
MCCallers  == {v1, v2}
MCTries    == [v \in MCCallers |-> IF v = v1 THEN 2 ELSE 1]
=============================================================================
