---------------------------- MODULE MCDisclosure ----------------------------
(***************************************************************************)
(* Disclosure between two accounts and two desks.  Bob's first derived     *)
(* block is unusable, so his secret is the second.  One of the keys tried  *)
(* on an event is the negation of an auditor's.                            *)
(***************************************************************************)
EXTENDS Disclosure, TLC

MCRoot == [a \in Accounts |-> a]

MCOkm ==
  [k \in Accounts \X Contracts \X Accounts \X (0 .. MaxRejections) |->
     IF k[3] = "bob" /\ k[4] = 0 THEN Unusable ELSE <<k[1], k[2], k[3], k[4]>>]

MCUnusable == <<"unusable">>

AliceAuditor == Scalar(<<"auditor", 1>>)
BobAuditor   == Scalar(<<"auditor", 2>>)

MCFunds       == [a \in Accounts |-> IF a = "alice" THEN 3 ELSE 0]
MCAuditorOf   == [a \in Accounts |-> IF a = "alice" THEN AliceAuditor ELSE BobAuditor]
MCAuditorKeys == {AliceAuditor, BobAuditor, Negate(AliceAuditor)}
MCEphemerals  == {Scalar(<<"random", 1>>)}
MCDeskKeys    == {Scalar(<<"desk", 1>>), Scalar(<<"desk", 2>>)}

\* Two events of one transaction: the first and the third of the token in their ledger,
\* which the indexer returns the other way round.
MCCoordinates ==
  [i \in 1 .. 2 |-> [ ledger |-> 7, txIndex |-> 3, txHash |-> "t", op |-> 1, event |-> i - 1,
                      nth |-> 2 * i - 1, row |-> 3 - i ]]

Form(shaped, text, topics, map, tag, as, i128, minimized) ==
  [ shaped |-> shaped, text |-> text, topics |-> topics, map |-> map, tag |-> tag, as |-> as,
    i128 |-> i128, minimized |-> minimized ]

Unshaped == Form(FALSE, TRUE,  "items",  "plain",   "hex",   "hex", "nested", TRUE)
Bare     == Form(TRUE,  FALSE, "plain",  "plain",   "none",  "hex", "plain",  TRUE)
TaggedBy == Form(TRUE,  TRUE,  "tagged", "entries", "bytes", "hex", "tagged", FALSE)

MCRowForms ==
  {Unshaped, Bare, TaggedBy, Form(TRUE, FALSE, "items", "entries", "value", "base64", "parts", FALSE)}

\* The first event's row has its id in another shape and, if it is a withdrawal's, an
\* amount that cannot be read.
MCServedAs == [i \in 1 .. 2 |-> IF i = 1 THEN Unshaped ELSE Bare]

\* The first event under another transaction's hash.
MCStrays == {[ledger |-> 7, id |-> NaturalEventId(7, "t", 1, 0), txHash |-> "u"]}

\* Salts are interchangeable.
SigmaSymmetry == Permutations(Sigmas)
=============================================================================
