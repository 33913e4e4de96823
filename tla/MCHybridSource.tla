--------------------------- MODULE MCHybridSource ---------------------------
(***************************************************************************)
(* HybridSource on a chain of quiet ledgers and ledgers with one or two    *)
(* events.                                                                 *)
(***************************************************************************)
EXTENDS HybridSource

Emission(tx, index) == [tx |-> tx, op |-> 0, index |-> index]

Quiet  == << >>
Single == <<Emission(1, 0)>>

\* The coordinates within a ledger do not grow with the position.
Pair == <<Emission(2, 1), Emission(1, 0)>>

MCBlocks     == {Quiet, Single, Pair}
SingleBlocks == {Quiet, Single}
=============================================================================
