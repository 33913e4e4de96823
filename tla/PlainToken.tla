----------------------------- MODULE PlainToken -----------------------------
(***************************************************************************)
(* The abstract promise of a confidential token: a token with visible      *)
(* balances in two pockets per account.  Value enters by deposits, moves   *)
(* between pockets and accounts, leaves by withdrawals, and nothing else   *)
(* ever changes a balance.                                                 *)
(***************************************************************************)
EXTENDS Integers

CONSTANTS
  Accounts,
  MaxAmount    \* a natural number: no transaction carries more

VARIABLES spendable, receiving

balances == <<spendable, receiving>>

Init ==
  /\ spendable = [a \in Accounts |-> 0]
  /\ receiving = [a \in Accounts |-> 0]

Credit(a, amount) ==
  /\ receiving' = [receiving EXCEPT ![a] = @ + amount]
  /\ UNCHANGED spendable

Collect(a) ==
  /\ spendable' = [spendable EXCEPT ![a] = @ + receiving[a]]
  /\ receiving' = [receiving EXCEPT ![a] = 0]

Debit(a, amount) ==
  /\ amount <= spendable[a]
  /\ spendable' = [spendable EXCEPT ![a] = @ - amount]
  /\ UNCHANGED receiving

Send(a, b, amount) ==
  /\ amount <= spendable[a]
  /\ spendable' = [spendable EXCEPT ![a] = @ - amount]
  /\ receiving' = [receiving EXCEPT ![b] = @ + amount]

Next ==
  \E a \in Accounts :
    \/ Collect(a)
    \/ \E amount \in 0 .. MaxAmount :
         \/ Credit(a, amount)
         \/ Debit(a, amount)
         \/ \E b \in Accounts : Send(a, b, amount)

Spec == Init /\ [][Next]_balances
=============================================================================
