------------------------------ MODULE Settlement ------------------------------
(***************************************************************************)
(* What a payment request promises: the visitor is told that it was paid   *)
(* only once it was, and that it was refused only if it never will be.     *)
(* Without an answer both remain possible.                                 *)
(***************************************************************************)
CONSTANT Requests

VARIABLES
  told,    \* what the visitor knows of each request
  paid     \* requests whose transfer landed

settlementVars == <<told, paid>>

Outcomes == {"unasked", "running", "done", "refused", "unanswered"}

SettlementInit ==
  /\ told = [r \in Requests |-> "unasked"]
  /\ paid = {}

Ask(r) ==
  /\ told[r] = "unasked"
  /\ told' = [told EXCEPT ![r] = "running"]
  /\ UNCHANGED paid

\* A request that was refused is never paid, nor one nobody made.
Pay(r) ==
  /\ told[r] \in {"running", "unanswered"}
  /\ r \notin paid
  /\ paid' = paid \cup {r}
  /\ UNCHANGED told

\* An answer is about what happened.
Answer(r, outcome) ==
  /\ told[r] = "running"
  /\ outcome = "done" => r \in paid
  /\ outcome = "refused" => r \notin paid
  /\ told' = [told EXCEPT ![r] = outcome]
  /\ UNCHANGED paid

SettlementNext ==
  \E r \in Requests :
    Ask(r) \/ Pay(r) \/ \E outcome \in {"done", "refused", "unanswered"} : Answer(r, outcome)

Settles == SettlementInit /\ [][SettlementNext]_settlementVars
=============================================================================
