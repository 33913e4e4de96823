--------------------------- MODULE MCArchiveReader ---------------------------
(***************************************************************************)
(* ArchiveReader on a chain of quiet and busy ledgers, one event per page. *)
(***************************************************************************)
EXTENDS ArchiveReader

Emission(tx, index, kind) ==
  [tx |-> tx, op |-> 0, index |-> index, kind |-> kind, who |-> {"alice"}]

\* A transaction with two merges, and one whose event shares a cursor with the second.
Colliding == <<Emission(1, 0, "merge"), Emission(1, 1, "merge"), Emission(2, 1, "deposit")>>

\* Two transactions that each end in a merge, the later with the smaller index.
Reversed == <<Emission(1, 1, "merge"), Emission(2, 0, "merge")>>

Quiet == << >>

MCBlocks == {Quiet, Reversed, Colliding}

\* Polls are interchangeable (no liveness is checked here).
PassSymmetry == Permutations(Passes)
=============================================================================
