----------------------------- MODULE Induction -----------------------------
(***************************************************************************)
(* Induction over the naturals stated about SETS instead of predicates.    *)
(* The library's induction theorems are parameterised by an operator; the  *)
(* well-foundedness of < and the minimum of a set are not, and they are    *)
(* enough.                                                                 *)
(***************************************************************************)
EXTENDS Integers, WellFoundedInduction, TLAPS

\* Every non-empty set of naturals has a least element.
LEMMA LeastNatural ==
  ASSUME NEW T \in SUBSET Nat, T # {}
  PROVE  \E m \in T : \A k \in T : m <= k
<1>. DEFINE LT == {ss \in Nat \X Nat : ss[1] < ss[2]}
<1>1. IsWellFoundedOn(LT, Nat)
  <2>1. IsWellFoundedOn(OpToRel(<, Nat), Nat)
    BY NatLessThanWellFounded
  <2>2. OpToRel(<, Nat) = LT
    BY DEF OpToRel
  <2>. QED BY <2>1, <2>2, Zenon
<1>2. PICK m \in T : \A k \in T : ~ (<<k, m>> \in LT)
  <2>1. T \subseteq Nat
    OBVIOUS
  <2>. HIDE DEF LT
  <2>. QED BY <2>1, <1>1, WFMin, Zenon
<1>3. ASSUME NEW k \in T PROVE m <= k
  <2>1. ~ (<<k, m>> \in LT)
    BY <1>2
  <2>2. m \in Nat /\ k \in Nat
    OBVIOUS
  <2>3. ~ (k < m)
    BY <2>1, <2>2
  <2>. QED BY <2>2, <2>3
<1>. QED BY <1>3

\* A set that holds 0 and the successor of each of its naturals holds them all.
THEOREM SetInduction ==
  ASSUME NEW G, 0 \in G, \A n \in Nat : n \in G => n + 1 \in G
  PROVE  Nat \subseteq G
<1>. SUFFICES ASSUME Nat \ G # {} PROVE FALSE
  OBVIOUS
<1>1. PICK m \in Nat \ G : \A k \in Nat \ G : m <= k
  BY LeastNatural, Nat \ G \in SUBSET Nat
<1>2. m \in Nat /\ m # 0
  BY <1>1
<1>3. m - 1 \in Nat /\ m - 1 \in G
  BY <1>1, <1>2
<1>4. m - 1 + 1 \in G
  BY <1>3
<1>. QED BY <1>1, <1>2, <1>4

\* Iterating a step of each place over a base gives a sequence of stages: what a
\* loop over 1 .. N computes exists.
Iterates(f, base, Step, N) ==
  f[0] = base /\ \A n \in 1 .. N : f[n] = Step[n][f[n - 1]]

THEOREM Iteration ==
  ASSUME NEW T, NEW base \in T, NEW N \in Nat, NEW Step \in [1 .. N -> [T -> T]]
  PROVE  \E f \in [0 .. N -> T] : Iterates(f, base, Step, N)
<1>. DEFINE Stages(n, f) == f[0] = base /\ \A k \in 1 .. n : f[k] = Step[k][f[k - 1]]
            G == {n \in Nat : n <= N => \E f \in [0 .. n -> T] : Stages(n, f)}
<1>1. 0 \in G
  <2>1. [k \in 0 .. 0 |-> base] \in [0 .. 0 -> T]
    OBVIOUS
  <2>2. Stages(0, [k \in 0 .. 0 |-> base])
    OBVIOUS
  <2>. QED BY <2>1, <2>2
<1>2. ASSUME NEW n \in Nat, n \in G PROVE n + 1 \in G
  <2>. SUFFICES ASSUME n + 1 <= N
                PROVE \E f \in [0 .. n + 1 -> T] : Stages(n + 1, f)
    OBVIOUS
  <2>1. PICK f \in [0 .. n -> T] : Stages(n, f)
    BY <1>2
  <2>2. n + 1 \in 1 .. N /\ n \in 0 .. n
    OBVIOUS
  <2>3. Step[n + 1] \in [T -> T] /\ f[n] \in T
    BY <2>1, <2>2
  <2>4. Step[n + 1][f[n]] \in T
    BY <2>3
  <2>. DEFINE g == [k \in 0 .. n + 1 |-> IF k <= n THEN f[k] ELSE Step[n + 1][f[n]]]
  <2>5. g \in [0 .. n + 1 -> T]
    BY <2>1, <2>4
  <2>6. g[0] = base
    BY <2>1
  <2>7. ASSUME NEW k \in 1 .. n + 1 PROVE g[k] = Step[k][g[k - 1]]
    <3>1. CASE k <= n
      <4>1. g[k] = f[k] /\ g[k - 1] = f[k - 1] /\ k \in 1 .. n
        BY <3>1
      <4>. QED BY <4>1, <2>1
    <3>2. CASE k = n + 1
      <4>1. k - 1 = n /\ g[k - 1] = f[n] /\ g[k] = Step[n + 1][f[n]]
        BY <3>2
      <4>. QED BY <4>1, <3>2
    <3>. QED BY <3>1, <3>2
  <2>. HIDE DEF g
  <2>. QED BY <2>5, <2>6, <2>7
<1>3. Nat \subseteq G
  <2>. HIDE DEF G
  <2>. QED BY <1>1, <1>2, SetInduction
<1>4. N \in G
  BY <1>3
<1>. QED BY <1>4 DEF Iterates
=============================================================================
