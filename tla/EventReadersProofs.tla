-------------------------- MODULE EventReadersProofs --------------------------
(***************************************************************************)
(* Proofs about the two readers of the RPC, for any chain.  The archive    *)
(* and a client that pages through it, any number of overlapping polls and *)
(* any page sizes: it loses and invents nothing in what it claims to have  *)
(* examined, it serves in order, and an accepted answer and a served       *)
(* checkpoint are what they are taken for.  And the hybrid source, however *)
(* often it fails, falls short or resumes: over all syncs the events come  *)
(* in apply order, once, and none is passed over unless for a named        *)
(* reason.                                                                 *)
(***************************************************************************)
EXTENDS ArchiveReader, HybridSource, Induction, FiniteSetTheorems, SequenceTheorems

-----------------------------------------------------------------------------
(* Sequences. *)

\* t is s with x put in at place i.
Inserted(t, s, i, x) ==
  /\ Len(t) = Len(s) + 1
  /\ \A k \in 1 .. Len(s) + 1 :
       t[k] = IF k < i THEN s[k] ELSE IF k = i THEN x ELSE s[k - 1]

LEMMA InsertAtInserts ==
  ASSUME NEW S, NEW s \in Seq(S), NEW x \in S, NEW i \in 1 .. Len(s) + 1
  PROVE  InsertAt(s, i, x) \in Seq(S) /\ Inserted(InsertAt(s, i, x), s, i, x)
<1>. DEFINE front == SubSeq(s, 1, i - 1)
            back  == SubSeq(s, i, Len(s))
            mid   == front \o <<x>>
<1>1. /\ front \in Seq(S) /\ Len(front) = i - 1
      /\ \A k \in 1 .. i - 1 : front[k] = s[k]
  OBVIOUS
<1>2. /\ back \in Seq(S) /\ Len(back) = Len(s) - i + 1
      /\ \A k \in 1 .. Len(s) - i + 1 : back[k] = s[i + k - 1]
  OBVIOUS
<1>. HIDE DEF front, back
<1>3. /\ mid \in Seq(S) /\ Len(mid) = i
      /\ \A k \in 1 .. i - 1 : mid[k] = s[k]
      /\ mid[i] = x
  BY <1>1
<1>. HIDE DEF mid
<1>4. /\ mid \o back \in Seq(S) /\ Len(mid \o back) = Len(s) + 1
      /\ \A k \in 1 .. i : (mid \o back)[k] = mid[k]
      /\ \A k \in i + 1 .. Len(s) + 1 : (mid \o back)[k] = back[k - i]
  <2>1. Len(mid) = i /\ Len(back) = Len(s) - i + 1 /\ mid \in Seq(S) /\ back \in Seq(S)
    BY <1>2, <1>3
  <2>2. mid \o back \in Seq(S) /\ Len(mid \o back) = Len(s) + 1
    BY <2>1
  <2>3. ASSUME NEW k \in 1 .. i PROVE (mid \o back)[k] = mid[k]
    BY <2>1
  <2>4. ASSUME NEW k \in i + 1 .. Len(s) + 1 PROVE (mid \o back)[k] = back[k - i]
    BY <2>1
  <2>. QED BY <2>2, <2>3, <2>4
<1>5. ASSUME NEW k \in i + 1 .. Len(s) + 1 PROVE back[k - i] = s[k - 1]
  <2>1. k - i \in 1 .. Len(s) - i + 1 /\ i + (k - i) - 1 = k - 1
    OBVIOUS
  <2>. QED BY <2>1, <1>2
<1>6. InsertAt(s, i, x) = mid \o back
  BY DEF InsertAt, front, back, mid
<1>7. ASSUME NEW k \in 1 .. Len(s) + 1
      PROVE  (mid \o back)[k] = IF k < i THEN s[k] ELSE IF k = i THEN x ELSE s[k - 1]
  BY <1>3, <1>4, <1>5
<1>. QED BY <1>4, <1>6, <1>7 DEF Inserted

\* What InsertBefore does: x stands in front of everything later, and of nothing
\* but what follows the first later place.
LEMMA InsertBeforeInserts ==
  ASSUME NEW S, NEW s \in Seq(S), NEW x \in S, NEW later \in SUBSET DOMAIN s
  PROVE  /\ InsertBefore(s, x, later) \in Seq(S)
         /\ \E i \in 1 .. Len(s) + 1 :
              /\ Inserted(InsertBefore(s, x, later), s, i, x)
              /\ \A j \in 1 .. i - 1 : j \notin later
              /\ i <= Len(s) => i \in later
<1>. DEFINE places == later \cup {Len(s) + 1}
            i == Min(places)
<1>1. places \in SUBSET Nat /\ places # {}
  OBVIOUS
<1>2. \E m \in places : \A k \in places : m <= k
  BY <1>1, LeastNatural
<1>3. i \in places /\ \A k \in places : i <= k
  BY <1>2 DEF Min
<1>. HIDE DEF i
<1>4. i \in 1 .. Len(s) + 1
  BY <1>1, <1>3
<1>5. \A j \in 1 .. i - 1 : j \notin later
  BY <1>3, <1>4
<1>6. i <= Len(s) => i \in later
  BY <1>3, <1>4
<1>7. InsertBefore(s, x, later) = InsertAt(s, i, x)
  BY DEF InsertBefore, i
<1>. QED BY <1>4, <1>5, <1>6, <1>7, InsertAtInserts

LEMMA InsertedElements ==
  ASSUME NEW S, NEW s \in Seq(S), NEW t \in Seq(S), NEW x \in S,
         NEW i \in 1 .. Len(s) + 1, Inserted(t, s, i, x)
  PROVE  ToSet(t) = ToSet(s) \cup {x}
<1>1. ASSUME NEW k \in DOMAIN t PROVE t[k] \in ToSet(s) \cup {x}
  <2>1. k \in 1 .. Len(s) + 1
    BY DEF Inserted
  <2>2. CASE k < i
    BY <2>1, <2>2 DEF Inserted, ToSet
  <2>3. CASE k = i
    BY <2>1, <2>3 DEF Inserted, ToSet
  <2>4. CASE k > i
    <3>1. k - 1 \in DOMAIN s /\ t[k] = s[k - 1]
      BY <2>1, <2>4 DEF Inserted
    <3>. QED BY <3>1 DEF ToSet
  <2>. QED BY <2>1, <2>2, <2>3, <2>4
<1>2. ASSUME NEW k \in DOMAIN s PROVE s[k] \in ToSet(t)
  <2>1. CASE k < i
    <3>1. k \in DOMAIN t /\ t[k] = s[k]
      BY <2>1 DEF Inserted
    <3>. QED BY <3>1 DEF ToSet
  <2>2. CASE k >= i
    <3>1. k + 1 \in 1 .. Len(s) + 1 /\ ~ (k + 1 < i) /\ k + 1 # i /\ k + 1 - 1 = k
      BY <2>2
    <3>2. k + 1 \in DOMAIN t /\ t[k + 1] = s[k]
      BY <3>1 DEF Inserted
    <3>. QED BY <3>2 DEF ToSet
  <2>. QED BY <2>1, <2>2
<1>3. x \in ToSet(t)
  <2>1. i \in DOMAIN t /\ t[i] = x
    BY DEF Inserted
  <2>. QED BY <2>1 DEF ToSet
<1>. QED BY <1>1, <1>2, <1>3 DEF ToSet

\* t is what is left of the first n elements of s, in their order.
TakenFrom(t, s, n) ==
  \E place \in [1 .. Len(t) -> 1 .. n] :
    \A k \in 1 .. Len(t) :
      t[k] = s[place[k]] /\ \A j \in 1 .. k - 1 : place[j] < place[k]

LEMMA OneMoreElement ==
  ASSUME NEW m \in Nat, NEW u, NEW w, NEW x, DOMAIN u = 1 .. m, DOMAIN w = 1 .. m + 1,
         \A k \in 1 .. m : w[k] = u[k], w[m + 1] = x
  PROVE  ToSet(w) = ToSet(u) \cup {x}
<1>1. ToSet(u) = {u[k] : k \in 1 .. m} /\ ToSet(w) = {w[k] : k \in 1 .. m + 1}
  BY DEF ToSet
<1>2. ASSUME NEW k \in 1 .. m + 1 PROVE w[k] \in ToSet(u) \cup {x}
  <2>1. k \in 1 .. m \/ k = m + 1
    OBVIOUS
  <2>. QED BY <1>1, <2>1
<1>3. ASSUME NEW k \in 1 .. m PROVE u[k] \in ToSet(w)
  <2>1. k \in 1 .. m + 1 /\ w[k] = u[k]
    OBVIOUS
  <2>. QED BY <1>1, <2>1
<1>4. x \in ToSet(w)
  <2>1. m + 1 \in 1 .. m + 1
    OBVIOUS
  <2>. QED BY <1>1, <2>1
<1>. QED BY <1>1, <1>2, <1>3, <1>4

\* The loop that Keep stands for, unrolled.
KeepStages(s, T, f) ==
  /\ f[0] = << >>
  /\ \A n \in 1 .. Len(s) :
       f[n] = IF s[n] \in T THEN Append(f[n - 1], s[n]) ELSE f[n - 1]
  /\ Keep(s, T) = f[Len(s)]

LEMMA KeepUnrolls ==
  ASSUME NEW S, NEW s \in Seq(S), NEW T
  PROVE  \E f \in [0 .. Len(s) -> Seq(S)] : KeepStages(s, T, f)
<1>. DEFINE N == Len(s)
            next(n, u) == IF s[n] \in T THEN Append(u, s[n]) ELSE u
            Step == [n \in 1 .. N |-> [u \in Seq(S) |-> next(n, u)]]
            Loop(f) == f = [n \in 0 .. N |-> IF n = 0 THEN << >>
                              ELSE IF s[n] \in T THEN Append(f[n - 1], s[n]) ELSE f[n - 1]]
            kept == CHOOSE f : Loop(f)
<1>1. N \in Nat /\ << >> \in Seq(S)
  OBVIOUS
<1>2. \A n \in 1 .. N : \A u \in Seq(S) : next(n, u) \in Seq(S)
  OBVIOUS
<1>3. Step \in [1 .. N -> [Seq(S) -> Seq(S)]]
  <2>. HIDE DEF next
  <2>. QED BY <1>2
<1>4. PICK g \in [0 .. N -> Seq(S)] :
        g[0] = << >> /\ \A n \in 1 .. N : g[n] = Step[n][g[n - 1]]
  <2>. DEFINE Q == Seq(S)
              base == << >>
  <2>1. base \in Q
    BY <1>1
  <2>2. N \in Nat
    BY <1>1
  <2>3. Step \in [1 .. N -> [Q -> Q]]
    BY <1>3
  <2>. HIDE DEF Step, N, Q, base
  <2>4. \E g \in [0 .. N -> Q] : Iterates(g, base, Step, N)
    BY <2>1, <2>2, <2>3, Iteration
  <2>. QED BY <2>4 DEF Q, base, Iterates
<1>5. ASSUME NEW n \in 1 .. N PROVE g[n] = next(n, g[n - 1])
  <2>1. n - 1 \in 0 .. N
    OBVIOUS
  <2>2. g[n - 1] \in Seq(S)
    BY <2>1
  <2>3. Step[n][g[n - 1]] = next(n, g[n - 1])
    BY <2>2
  <2>. QED BY <2>3, <1>4
<1>6. Loop(g)
  <2>1. \A n \in 0 .. N : g[n] = IF n = 0 THEN << >>
                               ELSE IF s[n] \in T THEN Append(g[n - 1], s[n]) ELSE g[n - 1]
    <3>. TAKE n \in 0 .. N
    <3>1. CASE n = 0
      BY <3>1, <1>4
    <3>2. CASE n # 0
      <4>1. n \in 1 .. N
        BY <3>2
      <4>2. g[n] = next(n, g[n - 1])
        BY <4>1, <1>5
      <4>. QED BY <3>2, <4>2, Zenon
    <3>. QED BY <3>1, <3>2
  <2>. QED BY <2>1
<1>7. Loop(kept)
  <2>. HIDE DEF Loop
  <2>. QED BY <1>6, Zenon
<1>71. /\ kept[0] = << >>
       /\ \A n \in 1 .. N : kept[n] = IF s[n] \in T THEN Append(kept[n - 1], s[n]) ELSE kept[n - 1]
       /\ kept = [n \in 0 .. N |-> kept[n]]
  <2>. HIDE DEF kept
  <2>1. 0 \in 0 .. N /\ \A n \in 1 .. N : n \in 0 .. N /\ n # 0
    BY <1>1
  <2>2. kept = [n \in 0 .. N |-> IF n = 0 THEN << >>
                  ELSE IF s[n] \in T THEN Append(kept[n - 1], s[n]) ELSE kept[n - 1]]
    BY <1>7, Zenon
  <2>3. \A n \in 0 .. N : kept[n] = IF n = 0 THEN << >>
                  ELSE IF s[n] \in T THEN Append(kept[n - 1], s[n]) ELSE kept[n - 1]
    BY <2>2, Zenon
  <2>. QED BY <2>1, <2>2, <2>3, Zenon
<1>8. Keep(s, T) = kept[N]
  BY DEF Keep
<1>9. kept \in [0 .. N -> Seq(S)]
  <2>. DEFINE G == {n \in Nat : n <= N => kept[n] = g[n]}
  <2>. HIDE DEF kept
  <2>1. 0 \in G
    BY <1>4, <1>71
  <2>2. ASSUME NEW n \in Nat, n \in G PROVE n + 1 \in G
    <3>. SUFFICES ASSUME n + 1 <= N PROVE kept[n + 1] = g[n + 1]
      OBVIOUS
    <3>1. kept[n] = g[n] /\ n + 1 \in 1 .. N /\ n + 1 - 1 = n
      BY <1>1, <2>2
    <3>2. g[n + 1] = next(n + 1, g[n])
      BY <1>5, <3>1
    <3>3. kept[n + 1] = next(n + 1, kept[n])
      <4>1. kept[n + 1] = next(n + 1, kept[n + 1 - 1])
        <5>1. \A i \in 1 .. N : kept[i] = next(i, kept[i - 1])
          BY <1>71
        <5>. HIDE DEF next
        <5>. QED BY <5>1, <3>1
      <4>. QED BY <3>1, <4>1, Zenon
    <3>. QED BY <3>1, <3>2, <3>3
  <2>3. Nat \subseteq G
    <3>. HIDE DEF G
    <3>. QED BY <2>1, <2>2, SetInduction
  <2>4. \A n \in 0 .. N : kept[n] = g[n]
    BY <2>3
  <2>. QED BY <1>71, <2>4
<1>10. KeepStages(s, T, kept)
  <2>. HIDE DEF kept
  <2>. QED BY <1>71, <1>8 DEF KeepStages
<1>. HIDE DEF kept
<1>. QED BY <1>9, <1>10

\* What Keep returns.
Kept(t, s, T) ==
  TakenFrom(t, s, Len(s)) /\ ToSet(t) = ToSet(s) \cap T

LEMMA KeepKeeps ==
  ASSUME NEW S, NEW s \in Seq(S), NEW T
  PROVE  Keep(s, T) \in Seq(S) /\ Kept(Keep(s, T), s, T)
<1>1. PICK f \in [0 .. Len(s) -> Seq(S)] : KeepStages(s, T, f)
  BY KeepUnrolls
<1>. DEFINE Some(n) == ToSet(f[n]) = {s[i] : i \in 1 .. n} \cap T
            G == {n \in Nat : n <= Len(s) => TakenFrom(f[n], s, n) /\ Some(n)}
<1>2. 0 \in G
  <2>1. f[0] = << >>
    BY <1>1 DEF KeepStages
  <2>2. [k \in 1 .. 0 |-> k] \in [1 .. Len(f[0]) -> 1 .. 0]
    BY <2>1
  <2>3. TakenFrom(f[0], s, 0)
    BY <2>1, <2>2 DEF TakenFrom
  <2>4. Some(0)
    BY <2>1 DEF ToSet
  <2>. QED BY <2>3, <2>4
<1>3. ASSUME NEW n \in Nat, n \in G PROVE n + 1 \in G
  <2>. SUFFICES ASSUME n + 1 <= Len(s)
                PROVE  TakenFrom(f[n + 1], s, n + 1) /\ Some(n + 1)
    OBVIOUS
  <2>1. TakenFrom(f[n], s, n) /\ Some(n)
    BY <1>3
  <2>2. n + 1 \in 1 .. Len(s) /\ n \in 0 .. Len(s) /\ n + 1 - 1 = n
    OBVIOUS
  <2>3. f[n] \in Seq(S) /\ s[n + 1] \in S
    BY <2>2
  <2>4. f[n + 1] = IF s[n + 1] \in T THEN Append(f[n], s[n + 1]) ELSE f[n]
    BY <1>1, <2>2 DEF KeepStages
  <2>5. {s[i] : i \in 1 .. n + 1} = {s[i] : i \in 1 .. n} \cup {s[n + 1]}
    <3>1. 1 .. n + 1 = (1 .. n) \cup {n + 1}
      OBVIOUS
    <3>. QED BY <3>1
  <2>6. PICK place \in [1 .. Len(f[n]) -> 1 .. n] :
          \A k \in 1 .. Len(f[n]) :
            f[n][k] = s[place[k]] /\ \A j \in 1 .. k - 1 : place[j] < place[k]
    BY <2>1 DEF TakenFrom
  <2>7. CASE s[n + 1] \notin T
    <3>1. f[n + 1] = f[n]
      BY <2>4, <2>7
    <3>2. place \in [1 .. Len(f[n]) -> 1 .. n + 1]
      OBVIOUS
    <3>3. TakenFrom(f[n + 1], s, n + 1)
      BY <3>1, <3>2, <2>6 DEF TakenFrom
    <3>. QED BY <3>1, <3>3, <2>1, <2>5, <2>7
  <2>8. CASE s[n + 1] \in T
    <3>. DEFINE u == f[n]
                m == Len(u)
                more == [k \in 1 .. m + 1 |-> IF k <= m THEN place[k] ELSE n + 1]
    <3>1. /\ f[n + 1] = Append(u, s[n + 1]) /\ Len(Append(u, s[n + 1])) = m + 1 /\ m \in Nat
          /\ \A k \in 1 .. m : Append(u, s[n + 1])[k] = u[k]
          /\ Append(u, s[n + 1])[m + 1] = s[n + 1]
      BY <2>3, <2>4, <2>8
    <3>2. more \in [1 .. m + 1 -> 1 .. n + 1]
      <4>1. \A k \in 1 .. m : place[k] \in 1 .. n
        BY <2>6
      <4>. QED BY <4>1, <3>1
    <3>3. ASSUME NEW k \in 1 .. m + 1
          PROVE  Append(u, s[n + 1])[k] = s[more[k]] /\ \A j \in 1 .. k - 1 : more[j] < more[k]
      <4>1. \A i \in 1 .. m : place[i] \in 1 .. n
        BY <2>6
      <4>2. CASE k <= m
        <5>1. more[k] = place[k] /\ \A j \in 1 .. k - 1 : more[j] = place[j]
          BY <4>2, <3>1
        <5>2. k \in 1 .. m
          BY <4>2, <3>1
        <5>. QED BY <5>1, <5>2, <3>1, <2>6
      <4>3. CASE k = m + 1
        <5>1. more[k] = n + 1 /\ \A j \in 1 .. k - 1 : more[j] = place[j] /\ place[j] \in 1 .. n
          BY <4>1, <4>3, <3>1
        <5>. QED BY <5>1, <3>1, <4>3
      <4>4. k <= m \/ k = m + 1
        BY <3>1
      <4>. QED BY <4>2, <4>3, <4>4
    <3>4. TakenFrom(f[n + 1], s, n + 1)
      <4>. HIDE DEF more, u, m
      <4>1. Len(f[n + 1]) = m + 1 /\ f[n + 1] = Append(u, s[n + 1])
        BY <3>1
      <4>. QED BY <4>1, <3>2, <3>3 DEF TakenFrom
    <3>5. ToSet(f[n + 1]) = ToSet(f[n]) \cup {s[n + 1]}
      <4>. DEFINE w == f[n + 1]
      <4>1. /\ DOMAIN w = 1 .. m + 1 /\ DOMAIN u = 1 .. m
            /\ \A k \in 1 .. m : w[k] = u[k]
            /\ w[m + 1] = s[n + 1]
        BY <3>1, <2>3
      <4>. HIDE DEF w, u, m
      <4>2. m \in Nat
        BY <3>1
      <4>3. ToSet(w) = ToSet(u) \cup {s[n + 1]}
        <5>. DEFINE x == s[n + 1]
        <5>1. /\ DOMAIN u = 1 .. m /\ DOMAIN w = 1 .. m + 1
              /\ \A k \in 1 .. m : w[k] = u[k]
              /\ w[m + 1] = x
          BY <4>1
        <5>. HIDE DEF x
        <5>2. ToSet(w) = ToSet(u) \cup {x}
          BY <4>2, <5>1, OneMoreElement
        <5>. QED BY <5>2 DEF x
      <4>. QED BY <4>3 DEF w, u
    <3>. QED BY <3>4, <3>5, <2>1, <2>5, <2>8
  <2>. QED BY <2>7, <2>8
<1>4. Nat \subseteq G
  <2>. HIDE DEF G
  <2>. QED BY <1>2, <1>3, SetInduction
<1>5. Len(s) \in Nat /\ Len(s) \in 0 .. Len(s) /\ DOMAIN s = 1 .. Len(s)
  OBVIOUS
<1>6. TakenFrom(f[Len(s)], s, Len(s)) /\ Some(Len(s))
  <2>1. Len(s) \in G
    BY <1>4, <1>5
  <2>. QED BY <2>1, <1>5
<1>7. Keep(s, T) = f[Len(s)]
  BY <1>1 DEF KeepStages
<1>. QED BY <1>5, <1>6, <1>7 DEF Kept, ToSet

-----------------------------------------------------------------------------
(* Events in the order of their cursors. *)

HasCursor(ev) == ev.ledger \in Nat /\ ev.op \in Nat /\ ev.index \in Nat

HaveCursors(E) == \A ev \in E : HasCursor(ev)

NotAfter(a, b) == ~ CursorLess(CursorOf(b), CursorOf(a))

\* In the order of their cursors, each event once.
Sorted(s) ==
  \A i, j \in DOMAIN s : i < j => NotAfter(s[i], s[j]) /\ s[i] # s[j]

LEMMA CursorLessIs ==
  ASSUME NEW a, NEW b, HasCursor(a), HasCursor(b)
  PROVE  CursorLess(CursorOf(a), CursorOf(b)) <=>
           \/ a.ledger < b.ledger
           \/ a.ledger = b.ledger /\ a.op < b.op
           \/ a.ledger = b.ledger /\ a.op = b.op /\ a.index < b.index
<1>. DEFINE c == CursorOf(a)
            d == CursorOf(b)
            LessAt(i) == c[i] < d[i] /\ \A j \in 1 .. i - 1 : c[j] = d[j]
<1>1. /\ c[1] = a.ledger /\ c[2] = a.op /\ c[3] = a.index
      /\ d[1] = b.ledger /\ d[2] = b.op /\ d[3] = b.index
  BY DEF CursorOf
<1>. HIDE DEF c, d
<1>2. CursorLess(c, d) <=> LessAt(1) \/ LessAt(2) \/ LessAt(3)
  <2>1. 1 .. 3 = {1, 2, 3}
    OBVIOUS
  <2>. QED BY <2>1 DEF CursorLess
<1>3. LessAt(1) <=> c[1] < d[1]
  OBVIOUS
<1>4. LessAt(2) <=> c[2] < d[2] /\ c[1] = d[1]
  <2>1. 1 .. 2 - 1 = {1}
    OBVIOUS
  <2>. QED BY <2>1
<1>5. LessAt(3) <=> c[3] < d[3] /\ c[1] = d[1] /\ c[2] = d[2]
  <2>1. 1 .. 3 - 1 = {1, 2}
    OBVIOUS
  <2>. QED BY <2>1
<1>. HIDE DEF LessAt
<1>6. CursorLess(c, d) <=>
           \/ a.ledger < b.ledger
           \/ a.ledger = b.ledger /\ a.op < b.op
           \/ a.ledger = b.ledger /\ a.op = b.op /\ a.index < b.index
  BY <1>1, <1>2, <1>3, <1>4, <1>5
<1>. QED BY <1>6 DEF c, d

\* The cursors order events totally, except that events may share one.
LEMMA CursorOrder ==
  ASSUME NEW a, NEW b, NEW c, HasCursor(a), HasCursor(b), HasCursor(c)
  PROVE  /\ NotAfter(a, b) /\ NotAfter(b, c) => NotAfter(a, c)
         /\ NotAfter(a, b) /\ NotAfter(b, a) => CursorOf(a) = CursorOf(b)
         /\ CursorLess(CursorOf(a), CursorOf(b)) => NotAfter(a, b)
         /\ CursorLess(CursorOf(a), CursorOf(b)) /\ NotAfter(b, c) => CursorLess(CursorOf(a), CursorOf(c))
         /\ NotAfter(a, b) /\ CursorLess(CursorOf(b), CursorOf(c)) => CursorLess(CursorOf(a), CursorOf(c))
         /\ NotAfter(a, b) => a.ledger <= b.ledger
         /\ NotAfter(a, a)
<1>. DEFINE Less(x, y) == CursorLess(CursorOf(x), CursorOf(y))
            Before(x, y) == \/ x.ledger < y.ledger
                            \/ x.ledger = y.ledger /\ x.op < y.op
                            \/ x.ledger = y.ledger /\ x.op = y.op /\ x.index < y.index
<1>1. /\ Less(a, b) <=> Before(a, b)
      /\ Less(b, a) <=> Before(b, a)
      /\ Less(b, c) <=> Before(b, c)
      /\ Less(c, b) <=> Before(c, b)
      /\ Less(a, c) <=> Before(a, c)
      /\ Less(c, a) <=> Before(c, a)
      /\ Less(a, a) <=> Before(a, a)
  <2>. HIDE DEF Less
  <2>. QED BY CursorLessIs DEF Less
<1>2. a.ledger = b.ledger /\ a.op = b.op /\ a.index = b.index => CursorOf(a) = CursorOf(b)
  BY DEF CursorOf
<1>3. /\ ~ Before(b, a) /\ ~ Before(c, b) => ~ Before(c, a)
      /\ ~ Before(b, a) /\ ~ Before(a, b) =>
           a.ledger = b.ledger /\ a.op = b.op /\ a.index = b.index
      /\ Before(a, b) => ~ Before(b, a)
      /\ Before(a, b) /\ ~ Before(c, b) => Before(a, c)
      /\ ~ Before(b, a) /\ Before(b, c) => Before(a, c)
      /\ ~ Before(b, a) => a.ledger <= b.ledger
      /\ ~ Before(a, a)
  BY DEF HasCursor
<1>. HIDE DEF Before
<1>. QED BY <1>1, <1>2, <1>3 DEF NotAfter

LEMMA InsertEventSorts ==
  ASSUME NEW E, HaveCursors(E),
         NEW s \in Seq(E), Sorted(s), NEW x \in E, x \notin ToSet(s)
  PROVE  /\ InsertEvent(s, x) \in Seq(E)
         /\ Sorted(InsertEvent(s, x))
         /\ ToSet(InsertEvent(s, x)) = ToSet(s) \cup {x}
<1>. DEFINE later == {i \in DOMAIN s : CursorLess(CursorOf(x), CursorOf(s[i]))}
            t == InsertEvent(s, x)
<1>1. t = InsertBefore(s, x, later)
  BY DEF InsertEvent
<1>2. later \in SUBSET DOMAIN s
  OBVIOUS
<1>. HIDE DEF t
<1>3. t \in Seq(E)
  BY <1>1, <1>2, InsertBeforeInserts
<1>4. PICK i \in 1 .. Len(s) + 1 :
        /\ Inserted(t, s, i, x)
        /\ \A j \in 1 .. i - 1 : j \notin later
        /\ i <= Len(s) => i \in later
  <2>. HIDE DEF later
  <2>. QED BY <1>1, <1>2, InsertBeforeInserts
<1>5. ToSet(t) = ToSet(s) \cup {x}
  BY <1>3, <1>4, InsertedElements
<1>6. DOMAIN t = 1 .. Len(s) + 1 /\ DOMAIN s = 1 .. Len(s) /\ Len(s) \in Nat
  BY <1>3, <1>4 DEF Inserted
<1>7. HasCursor(x) /\ \A k \in 1 .. Len(s) : s[k] \in E /\ HasCursor(s[k]) /\ s[k] # x
  BY <1>6 DEF ToSet, HaveCursors
<1>8. \A k \in 1 .. Len(s) + 1 :
        t[k] = IF k < i THEN s[k] ELSE IF k = i THEN x ELSE s[k - 1]
  BY <1>4 DEF Inserted
<1>9. \A k, l \in 1 .. Len(s) : k < l => NotAfter(s[k], s[l]) /\ s[k] # s[l]
  BY <1>6 DEF Sorted
<1>10. ASSUME NEW k \in 1 .. Len(s) + 1, NEW l \in 1 .. Len(s) + 1, k < l
       PROVE  NotAfter(t[k], t[l]) /\ t[k] # t[l]
  <2>1. CASE k < i /\ l < i
    <3>1. t[k] = s[k] /\ t[l] = s[l] /\ k \in 1 .. Len(s) /\ l \in 1 .. Len(s)
      BY <1>6, <1>8, <2>1
    <3>. QED BY <1>9, <1>10, <3>1
  <2>2. CASE k < i /\ l = i
    <3>1. t[k] = s[k] /\ t[l] = x /\ k \in 1 .. Len(s) /\ k \in 1 .. i - 1
      BY <1>6, <1>8, <2>2
    <3>2. ~ CursorLess(CursorOf(x), CursorOf(s[k]))
      BY <1>4, <1>6, <3>1
    <3>. QED BY <1>7, <3>1, <3>2 DEF NotAfter
  <2>3. CASE k < i /\ l > i
    <3>1. t[k] = s[k] /\ t[l] = s[l - 1] /\ k \in 1 .. Len(s) /\ l - 1 \in 1 .. Len(s) /\ k < l - 1
      BY <1>6, <1>8, <2>3
    <3>. QED BY <1>9, <3>1
  <2>4. CASE k = i
    <3>1. t[k] = x /\ t[l] = s[l - 1] /\ l - 1 \in 1 .. Len(s) /\ i \in 1 .. Len(s) /\ i <= l - 1
      BY <1>6, <1>8, <1>10, <2>4
    <3>2. CursorLess(CursorOf(x), CursorOf(s[i]))
      BY <1>4, <3>1
    <3>3. i = l - 1 \/ NotAfter(s[i], s[l - 1])
      BY <1>9, <3>1
    <3>4. NotAfter(x, s[l - 1])
      BY <1>7, <3>1, <3>2, <3>3, CursorOrder
    <3>. QED BY <1>7, <3>1, <3>4
  <2>5. CASE k > i
    <3>1. t[k] = s[k - 1] /\ t[l] = s[l - 1] /\ k - 1 \in 1 .. Len(s) /\ l - 1 \in 1 .. Len(s)
          /\ k - 1 < l - 1
      BY <1>6, <1>8, <1>10, <2>5
    <3>. QED BY <1>9, <3>1
  <2>. QED BY <1>10, <2>1, <2>2, <2>3, <2>4, <2>5
<1>11. Sorted(t)
  BY <1>6, <1>10 DEF Sorted
<1>. QED BY <1>3, <1>5, <1>11 DEF t

\* The loop that SortedEvents stands for, unrolled.
SortStages(events, added, f) ==
  /\ f[0] = events
  /\ \A n \in 1 .. Len(added) : f[n] = InsertEvent(f[n - 1], added[n])
  /\ SortedEvents(events, added) = f[Len(added)]

LEMMA SortUnrolls ==
  ASSUME NEW E, NEW events \in Seq(E), NEW added \in Seq(E)
  PROVE  \E f \in [0 .. Len(added) -> Seq(E)] : SortStages(events, added, f)
<1>. DEFINE N == Len(added)
            all == ToSet(events) \cup ToSet(added)
            Q == Seq(all)
            inserted == [ev \in all |-> [s \in Q |-> InsertEvent(s, ev)]]
            Step == [n \in 1 .. N |-> inserted[added[n]]]
            Loop(f) == f = [n \in 0 .. N |-> IF n = 0 THEN events
                              ELSE inserted[added[n]][f[n - 1]]]
            sorted == CHOOSE f : Loop(f)
<1>1. N \in Nat /\ events \in Q /\ \A n \in 1 .. N : added[n] \in all
  <2>1. events \in Seq(ToSet(events)) /\ added \in Seq(ToSet(added))
    BY DEF ToSet
  <2>. QED BY <2>1
<1>. HIDE DEF all
<1>2. ASSUME NEW ev \in all, NEW u \in Q PROVE InsertEvent(u, ev) \in Q
  <2>1. {i \in DOMAIN u : CursorLess(CursorOf(ev), CursorOf(u[i]))} \in SUBSET DOMAIN u
    OBVIOUS
  <2>. QED BY <2>1, InsertBeforeInserts DEF InsertEvent
<1>3. inserted \in [all -> [Q -> Q]]
      /\ \A ev \in all : \A u \in Q : inserted[ev][u] = InsertEvent(u, ev)
  <2>. HIDE DEF Q
  <2>. QED BY <1>2
<1>. HIDE DEF inserted, Q
<1>4. Step \in [1 .. N -> [Q -> Q]]
  BY <1>1, <1>3
<1>5. PICK g \in [0 .. N -> Q] : Iterates(g, events, Step, N)
  <2>. HIDE DEF Step, N
  <2>. QED BY <1>1, <1>4, Iteration
<1>6. Loop(g)
  <2>1. ASSUME NEW n \in 0 .. N
        PROVE  g[n] = IF n = 0 THEN events ELSE inserted[added[n]][g[n - 1]]
    <3>1. CASE n = 0
      BY <3>1, <1>5 DEF Iterates
    <3>2. CASE n # 0
      <4>1. n \in 1 .. N
        BY <3>2
      <4>2. g[n] = Step[n][g[n - 1]] /\ Step[n] = inserted[added[n]]
        BY <4>1, <1>5 DEF Iterates
      <4>. QED BY <3>2, <4>2, Zenon
    <3>. QED BY <3>1, <3>2
  <2>. QED BY <2>1
<1>7. Loop(sorted)
  <2>. HIDE DEF Loop
  <2>. QED BY <1>6, Zenon
<1>8. /\ sorted[0] = events
      /\ \A n \in 1 .. N : sorted[n] = inserted[added[n]][sorted[n - 1]]
      /\ sorted = [n \in 0 .. N |-> sorted[n]]
  <2>. HIDE DEF sorted
  <2>1. 0 \in 0 .. N /\ \A n \in 1 .. N : n \in 0 .. N /\ n # 0
    BY <1>1
  <2>2. sorted = [n \in 0 .. N |-> IF n = 0 THEN events
                    ELSE inserted[added[n]][sorted[n - 1]]]
    BY <1>7, Zenon
  <2>3. \A n \in 0 .. N : sorted[n] = IF n = 0 THEN events
                    ELSE inserted[added[n]][sorted[n - 1]]
    BY <2>2, Zenon
  <2>. QED BY <2>1, <2>2, <2>3, Zenon
<1>9. SortedEvents(events, added) = sorted[N]
  BY Zenon DEF SortedEvents, inserted, Q, all
<1>. HIDE DEF sorted
<1>10. \A n \in 0 .. N : sorted[n] \in Q
  <2>. DEFINE G == {n \in Nat : n <= N => sorted[n] \in Q}
  <2>1. 0 \in G
    BY <1>1, <1>8
  <2>2. ASSUME NEW n \in Nat, n \in G PROVE n + 1 \in G
    <3>. SUFFICES ASSUME n + 1 <= N PROVE sorted[n + 1] \in Q
      OBVIOUS
    <3>1. sorted[n] \in Q /\ n + 1 \in 1 .. N /\ n + 1 - 1 = n
      BY <1>1, <2>2
    <3>2. sorted[n + 1] = inserted[added[n + 1]][sorted[n]]
      <4>1. \A k \in 1 .. N : sorted[k] = inserted[added[k]][sorted[k - 1]]
        BY <1>8
      <4>. HIDE DEF N
      <4>. QED BY <3>1, <4>1
    <3>. QED BY <1>1, <1>3, <3>1, <3>2
  <2>3. Nat \subseteq G
    <3>. HIDE DEF G
    <3>. QED BY <2>1, <2>2, SetInduction
  <2>. QED BY <2>3
<1>11. ASSUME NEW n \in 1 .. N PROVE sorted[n] = InsertEvent(sorted[n - 1], added[n])
  <2>1. n - 1 \in 0 .. N
    BY <1>1
  <2>2. sorted[n] = inserted[added[n]][sorted[n - 1]]
    BY <1>8
  <2>. QED BY <1>1, <1>3, <1>10, <2>1, <2>2
<1>12. sorted \in [0 .. N -> Seq(E)]
  <2>1. all \subseteq E
    BY DEF all, ToSet
  <2>2. Q \subseteq Seq(E)
    BY <2>1 DEF Q
  <2>3. sorted \in [0 .. N -> Q]
    BY <1>8, <1>10
  <2>. QED BY <2>2, <2>3
<1>13. SortStages(events, added, sorted)
  BY <1>8, <1>9, <1>11 DEF SortStages
<1>. QED BY <1>12, <1>13

Distinct(s) == \A i, j \in DOMAIN s : i < j => s[i] # s[j]

LEMMA SortedEventsSort ==
  ASSUME NEW E, HaveCursors(E),
         NEW events \in Seq(E), Sorted(events),
         NEW added \in Seq(E), Distinct(added), ToSet(added) \cap ToSet(events) = {}
  PROVE  /\ SortedEvents(events, added) \in Seq(E)
         /\ Sorted(SortedEvents(events, added))
         /\ ToSet(SortedEvents(events, added)) = ToSet(events) \cup ToSet(added)
<1>1. PICK f \in [0 .. Len(added) -> Seq(E)] : SortStages(events, added, f)
  BY SortUnrolls
<1>. DEFINE N == Len(added)
            first(n) == {added[i] : i \in 1 .. n}
            G == {n \in Nat : n <= N =>
                    Sorted(f[n]) /\ ToSet(f[n]) = ToSet(events) \cup first(n)}
<1>2. N \in Nat /\ DOMAIN added = 1 .. N
  OBVIOUS
<1>3. 0 \in G
  BY <1>1 DEF SortStages
<1>4. ASSUME NEW n \in Nat, n \in G PROVE n + 1 \in G
  <2>. SUFFICES ASSUME n + 1 <= N
                PROVE  Sorted(f[n + 1]) /\ ToSet(f[n + 1]) = ToSet(events) \cup first(n + 1)
    OBVIOUS
  <2>1. n + 1 \in 1 .. N /\ n \in 0 .. N /\ n + 1 - 1 = n
    BY <1>2
  <2>2. Sorted(f[n]) /\ ToSet(f[n]) = ToSet(events) \cup first(n)
    <3>1. n <= N
      BY <2>1
    <3>. QED BY <1>4, <3>1
  <2>3. f[n] \in Seq(E) /\ added[n + 1] \in E
    BY <2>1
  <2>4. f[n + 1] = InsertEvent(f[n], added[n + 1])
    BY <1>1, <2>1 DEF SortStages
  <2>5. added[n + 1] \notin ToSet(events)
    BY <1>2, <2>1 DEF ToSet
  <2>6. added[n + 1] \notin first(n)
    <3>1. \A i \in 1 .. n : i \in DOMAIN added /\ i < n + 1 /\ n + 1 \in DOMAIN added
      BY <1>2, <2>1
    <3>. QED BY <3>1 DEF Distinct
  <2>7. added[n + 1] \notin ToSet(f[n])
    BY <2>2, <2>5, <2>6
  <2>8. first(n + 1) = first(n) \cup {added[n + 1]}
    <3>1. 1 .. n + 1 = (1 .. n) \cup {n + 1}
      OBVIOUS
    <3>. QED BY <3>1
  <2>9. Sorted(InsertEvent(f[n], added[n + 1]))
        /\ ToSet(InsertEvent(f[n], added[n + 1])) = ToSet(f[n]) \cup {added[n + 1]}
    <3>1. Sorted(f[n])
      BY <2>2
    <3>. QED BY <2>3, <2>7, <3>1, InsertEventSorts
  <2>. HIDE DEF first
  <2>. QED BY <2>2, <2>4, <2>8, <2>9
<1>5. Nat \subseteq G
  <2>. HIDE DEF G
  <2>. QED BY <1>3, <1>4, SetInduction
<1>6. N \in G
  BY <1>2, <1>5
<1>7. N <= N /\ N \in 0 .. N
  BY <1>2
<1>8. Sorted(f[N]) /\ ToSet(f[N]) = ToSet(events) \cup first(N)
  BY <1>6, <1>7
<1>9. SortedEvents(events, added) = f[N]
  BY <1>1 DEF SortStages
<1>10. first(N) = ToSet(added)
  BY <1>2 DEF ToSet
<1>11. f[N] \in Seq(E)
  BY <1>7
<1>. QED BY <1>8, <1>9, <1>10, <1>11

-----------------------------------------------------------------------------
(* Examined ranges. *)

RangesUpTo(h) == {r \in (1 .. h) \X (1 .. h) : r[1] <= r[2]}

\* RangesCanonical and Claimed, of any ranges.
Apart(ranges) == \A i \in 1 .. Len(ranges) - 1 : ranges[i][2] + 1 < ranges[i + 1][1]

Ledgers(ranges) == UNION {r[1] .. r[2] : r \in ToSet(ranges)}

\* out has ranges apart, none of which starts after a ledger.
JoinedBelow(out, h, start) ==
  /\ out \in Seq(RangesUpTo(h))
  /\ Apart(out)
  /\ \A i \in DOMAIN out : out[i][1] <= start

LEMMA StartsBefore ==
  ASSUME NEW a \in Nat, NEW b \in Nat, NEW c \in Nat, a <= b, b + 1 < c
  PROVE  a <= c
OBVIOUS

LEMMA LargerOf ==
  ASSUME NEW a \in Int, NEW b \in Int
  PROVE  Max({a, b}) = IF a >= b THEN a ELSE b
BY DEF Max

LEMMA SmallerOf ==
  ASSUME NEW a \in Int, NEW b \in Int
  PROVE  Min({a, b}) = IF a <= b THEN a ELSE b
BY DEF Min

LEMMA JoinRangeJoins ==
  ASSUME NEW h \in Nat, NEW r \in RangesUpTo(h), NEW out, JoinedBelow(out, h, r[1])
  PROVE  /\ JoinedBelow(JoinRange(out, r), h, r[1])
         /\ Ledgers(JoinRange(out, r)) = Ledgers(out) \cup (r[1] .. r[2])
<1>. DEFINE R == RangesUpTo(h)
            n == Len(out)
            from == r[1]
            to == r[2]
            t == JoinRange(out, r)
<1>1. out \in Seq(R) /\ n \in Nat /\ DOMAIN out = 1 .. n
  BY DEF JoinedBelow
<1>2. from \in 1 .. h /\ to \in 1 .. h /\ from <= to /\ r = <<from, to>>
  BY DEF RangesUpTo
<1>3. \A i \in 1 .. n : /\ out[i] \in R /\ out[i][1] \in 1 .. h /\ out[i][2] \in 1 .. h
                        /\ out[i][1] <= out[i][2] /\ out[i][1] <= from
                        /\ out[i] = <<out[i][1], out[i][2]>>
  BY <1>1 DEF JoinedBelow, RangesUpTo
<1>4. \A i \in 1 .. n - 1 : out[i][2] + 1 < out[i + 1][1]
  BY DEF JoinedBelow, Apart
<1>5. CASE n > 0 /\ from <= out[n][2] + 1
  <2>. DEFINE hi == IF out[n][2] >= to THEN out[n][2] ELSE to
  <2>1. n \in 1 .. n
    BY <1>1, <1>5
  <2>2. Max({out[n][2], to}) = hi
    BY <1>2, <1>3, <2>1, LargerOf
  <2>3. t = [out EXCEPT ![n] = [out[n] EXCEPT ![2] = Max({out[n][2], to})]]
    BY <1>5 DEF JoinRange
  <2>4. [out[n] EXCEPT ![2] = Max({out[n][2], to})] = <<out[n][1], hi>>
    <3>. DEFINE lo == out[n][1]
                old == out[n][2]
    <3>1. out[n] = <<lo, old>>
      BY <1>3, <2>1
    <3>. HIDE DEF lo, old, hi
    <3>2. [<<lo, old>> EXCEPT ![2] = hi] = <<lo, hi>>
      OBVIOUS
    <3>. QED BY <2>2, <3>1, <3>2 DEF lo, old
  <2>5. hi \in 1 .. h /\ out[n][1] <= hi /\ out[n][2] <= hi /\ to <= hi
    BY <1>2, <1>3, <2>1
  <2>6. <<out[n][1], hi>> \in R
    <3>. HIDE DEF hi
    <3>. QED BY <1>3, <2>1, <2>5 DEF RangesUpTo
  <2>7. /\ t \in Seq(R) /\ DOMAIN t = 1 .. n /\ Len(t) = n
        /\ t[n] = <<out[n][1], hi>>
        /\ \A i \in 1 .. n - 1 : t[i] = out[i]
    <3>. HIDE DEF t, hi, R
    <3>1. t = [out EXCEPT ![n] = <<out[n][1], hi>>]
      BY <2>3, <2>4, Zenon
    <3>. QED BY <1>1, <2>1, <2>6, <3>1
  <2>. HIDE DEF t
  <2>8. t[n][1] = out[n][1] /\ t[n][2] = hi
    <3>. HIDE DEF hi
    <3>. QED BY <2>7
  <2>9. \A i \in 1 .. n - 1 : t[i][2] = out[i][2] /\ t[i + 1][1] = out[i + 1][1]
    <3>. SUFFICES ASSUME NEW i \in 1 .. n - 1
                  PROVE  t[i][2] = out[i][2] /\ t[i + 1][1] = out[i + 1][1]
      OBVIOUS
    <3>1. t[i] = out[i]
      BY <2>7
    <3>2. i + 1 \in 1 .. n - 1 \/ i + 1 = n
      <4>1. n \in Nat
        BY <1>1
      <4>. HIDE DEF n
      <4>. QED BY <4>1
    <3>. QED BY <2>7, <2>8, <3>1, <3>2
  <2>10. Apart(t)
    BY <1>4, <2>7, <2>9 DEF Apart
  <2>11. ASSUME NEW i \in 1 .. n PROVE t[i][1] <= from
    <3>1. t[i][1] = out[i][1]
      <4>1. n \in Nat
        BY <1>1
      <4>. HIDE DEF n
      <4>2. i \in 1 .. n - 1 \/ i = n
        BY <4>1
      <4>. QED BY <2>7, <2>8, <4>2
    <3>. QED BY <1>3, <3>1
  <2>12. JoinedBelow(t, h, from)
    BY <2>7, <2>10, <2>11 DEF JoinedBelow
  <2>13. out[n][1] .. hi = (out[n][1] .. out[n][2]) \cup (from .. to)
    BY <1>2, <1>3, <1>5, <2>1
  <2>. HIDE DEF hi
  <2>14. Ledgers(t) = Ledgers(out) \cup (from .. to)
    <3>1. ASSUME NEW l PROVE l \in Ledgers(t) <=> l \in Ledgers(out) \cup (from .. to)
      <4>1. l \in Ledgers(t) <=> \E i \in 1 .. n : l \in t[i][1] .. t[i][2]
        BY <2>7 DEF Ledgers, ToSet
      <4>2. l \in Ledgers(out) <=> \E i \in 1 .. n : l \in out[i][1] .. out[i][2]
        BY <1>1 DEF Ledgers, ToSet
      <4>3. \A i \in 1 .. n - 1 : t[i][1] .. t[i][2] = out[i][1] .. out[i][2]
        BY <2>7
      <4>4. l \in t[n][1] .. t[n][2] <=> l \in out[n][1] .. out[n][2] \/ l \in from .. to
        BY <2>8, <2>13
      <4>5. \A i : i \in 1 .. n <=> i \in 1 .. n - 1 \/ i = n
        BY <1>1, <2>1
      <4>. QED BY <4>1, <4>2, <4>3, <4>4, <4>5, Zenon
    <3>. QED BY <3>1
  <2>. QED BY <2>12, <2>14 DEF t
<1>6. CASE ~ (n > 0 /\ from <= out[n][2] + 1)
  <2>1. t = Append(out, r)
    BY <1>6 DEF JoinRange
  <2>2. /\ t \in Seq(R) /\ Len(t) = n + 1 /\ DOMAIN t = 1 .. n + 1
        /\ t[n + 1] = r
        /\ \A i \in 1 .. n : t[i] = out[i]
    BY <1>1, <2>1
  <2>. HIDE DEF t
  <2>3. ASSUME NEW i \in 1 .. n PROVE t[i][2] + 1 < t[i + 1][1]
    <3>1. CASE i = n
      <4>1. n > 0 /\ t[i][2] = out[n][2] /\ t[i + 1][1] = from
        BY <1>1, <2>2, <3>1
      <4>2. n \in 1 .. n
        BY <3>1
      <4>3. out[n][2] \in 1 .. h
        BY <1>3, <4>2
      <4>. QED BY <1>2, <1>6, <4>1, <4>3
    <3>2. CASE i # n
      <4>1. i \in 1 .. n - 1 /\ i + 1 \in 1 .. n
        <5>1. n \in Nat
          BY <1>1
        <5>. HIDE DEF n
        <5>. QED BY <3>2, <5>1
      <4>2. t[i] = out[i] /\ t[i + 1] = out[i + 1]
        BY <2>2, <4>1
      <4>. QED BY <1>4, <4>1, <4>2
    <3>. QED BY <3>1, <3>2
  <2>4. Apart(t)
    BY <2>2, <2>3 DEF Apart
  <2>5. \A i \in 1 .. n + 1 : t[i][1] <= from
    <3>. SUFFICES ASSUME NEW i \in 1 .. n + 1 PROVE t[i][1] <= from
      OBVIOUS
    <3>1. i \in 1 .. n \/ i = n + 1
      BY <1>1
    <3>2. from <= from
      BY <1>2
    <3>. QED BY <1>3, <2>2, <3>1, <3>2
  <2>6. JoinedBelow(t, h, from)
    BY <2>2, <2>4, <2>5 DEF JoinedBelow
  <2>7. Ledgers(t) = Ledgers(out) \cup (from .. to)
    <3>1. ASSUME NEW l PROVE l \in Ledgers(t) <=> l \in Ledgers(out) \cup (from .. to)
      <4>1. l \in Ledgers(t) <=> \E i \in 1 .. n + 1 : l \in t[i][1] .. t[i][2]
        BY <2>2 DEF Ledgers, ToSet
      <4>2. l \in Ledgers(out) <=> \E i \in 1 .. n : l \in out[i][1] .. out[i][2]
        BY <1>1 DEF Ledgers, ToSet
      <4>3. \A i \in 1 .. n : t[i][1] .. t[i][2] = out[i][1] .. out[i][2]
        BY <2>2
      <4>4. t[n + 1][1] .. t[n + 1][2] = from .. to
        BY <2>2
      <4>5. \A i : i \in 1 .. n + 1 <=> i \in 1 .. n \/ i = n + 1
        BY <1>1
      <4>. QED BY <4>1, <4>2, <4>3, <4>4, <4>5, Zenon
    <3>. QED BY <3>1
  <2>. QED BY <2>6, <2>7 DEF t
<1>. QED BY <1>5, <1>6

LEMMA JoinRangeStays ==
  ASSUME NEW h \in Nat, NEW r \in RangesUpTo(h), NEW out \in Seq(RangesUpTo(h))
  PROVE  JoinRange(out, r) \in Seq(RangesUpTo(h))
<1>. DEFINE R == RangesUpTo(h)
            n == Len(out)
            to == r[2]
<1>1. CASE n > 0 /\ r[1] <= out[n][2] + 1
  <2>. DEFINE lo == out[n][1]
              old == out[n][2]
              hi == Max({old, to})
  <2>1. n \in DOMAIN out /\ out[n] \in R
    BY <1>1
  <2>2. out[n] = <<lo, old>> /\ lo \in 1 .. h /\ old \in 1 .. h /\ lo <= old
    BY <2>1 DEF RangesUpTo
  <2>3. to \in 1 .. h
    BY DEF RangesUpTo
  <2>. HIDE DEF to, lo, old
  <2>4. hi = IF old >= to THEN old ELSE to
    BY <2>2, <2>3, LargerOf
  <2>. HIDE DEF hi
  <2>5. [<<lo, old>> EXCEPT ![2] = hi] = <<lo, hi>>
    OBVIOUS
  <2>6. <<lo, hi>> \in R
    BY <2>2, <2>3, <2>4 DEF RangesUpTo
  <2>7. JoinRange(out, r) = [out EXCEPT ![n] = [out[n] EXCEPT ![2] = hi]]
    BY <1>1 DEF JoinRange, hi, old, to
  <2>8. JoinRange(out, r) = [out EXCEPT ![n] = <<lo, hi>>]
    BY <2>2, <2>5, <2>7
  <2>. HIDE DEF R
  <2>9. [out EXCEPT ![n] = <<lo, hi>>] \in Seq(R)
    <3>1. out \in Seq(R)
      BY DEF R
    <3>. QED BY <2>1, <2>6, <3>1
  <2>. QED BY <2>8, <2>9 DEF R
<1>2. CASE ~ (n > 0 /\ r[1] <= out[n][2] + 1)
  BY <1>2 DEF JoinRange
<1>. QED BY <1>1, <1>2

\* The loop that JoinAll stands for, unrolled.
JoinStages(ranges, f) ==
  /\ f[0] = << >>
  /\ \A n \in 1 .. Len(ranges) : f[n] = JoinRange(f[n - 1], ranges[n])
  /\ JoinAll(ranges) = f[Len(ranges)]

LEMMA JoinUnrolls ==
  ASSUME NEW h \in Nat, NEW ranges \in Seq(RangesUpTo(h))
  PROVE  \E f \in [0 .. Len(ranges) -> Seq(RangesUpTo(h))] : JoinStages(ranges, f)
<1>. DEFINE N == Len(ranges)
            Q == Seq(RangesUpTo(h))
            base == << >>
            next(n, u) == JoinRange(u, ranges[n])
            Step == [n \in 1 .. N |-> [u \in Q |-> next(n, u)]]
            Loop(f) == f = [n \in 0 .. N |-> IF n = 0 THEN base
                              ELSE JoinRange(f[n - 1], ranges[n])]
            joined == CHOOSE f : Loop(f)
<1>1. N \in Nat /\ base \in Q
  OBVIOUS
<1>2. ASSUME NEW n \in 1 .. N, NEW u \in Q PROVE next(n, u) \in Q
  <2>1. ranges[n] \in RangesUpTo(h)
    OBVIOUS
  <2>. QED BY <2>1, JoinRangeStays
<1>3. Step \in [1 .. N -> [Q -> Q]]
  <2>. HIDE DEF next, Q
  <2>. QED BY <1>2
<1>4. PICK g \in [0 .. N -> Q] : Iterates(g, base, Step, N)
  <2>. HIDE DEF Step, N, Q, base
  <2>. QED BY <1>1, <1>3, Iteration
<1>5. ASSUME NEW n \in 1 .. N PROVE g[n] = next(n, g[n - 1])
  <2>. HIDE DEF next, Q
  <2>1. n - 1 \in 0 .. N
    OBVIOUS
  <2>2. g[n - 1] \in Q
    BY <2>1
  <2>3. Step[n][g[n - 1]] = next(n, g[n - 1])
    BY <2>2
  <2>. QED BY <2>3, <1>4 DEF Iterates
<1>6. Loop(g)
  <2>1. ASSUME NEW n \in 0 .. N
        PROVE  g[n] = IF n = 0 THEN base ELSE JoinRange(g[n - 1], ranges[n])
    <3>1. CASE n = 0
      BY <3>1, <1>4 DEF Iterates
    <3>2. CASE n # 0
      <4>1. n \in 1 .. N
        BY <3>2
      <4>2. g[n] = next(n, g[n - 1])
        BY <4>1, <1>5
      <4>. QED BY <3>2, <4>2, Zenon
    <3>. QED BY <3>1, <3>2
  <2>. QED BY <2>1
<1>7. Loop(joined)
  <2>. HIDE DEF Loop
  <2>. QED BY <1>6, Zenon
<1>8. /\ joined[0] = base
      /\ \A n \in 1 .. N : joined[n] = JoinRange(joined[n - 1], ranges[n])
      /\ joined = [n \in 0 .. N |-> joined[n]]
  <2>. HIDE DEF joined
  <2>1. 0 \in 0 .. N /\ \A n \in 1 .. N : n \in 0 .. N /\ n # 0
    BY <1>1
  <2>2. joined = [n \in 0 .. N |-> IF n = 0 THEN base
                    ELSE JoinRange(joined[n - 1], ranges[n])]
    BY <1>7, Zenon
  <2>3. \A n \in 0 .. N : joined[n] = IF n = 0 THEN base
                    ELSE JoinRange(joined[n - 1], ranges[n])
    BY <2>2, Zenon
  <2>. QED BY <2>1, <2>2, <2>3, Zenon
<1>9. joined \in [0 .. N -> Q]
  <2>. DEFINE G == {n \in Nat : n <= N => joined[n] \in Q}
  <2>. HIDE DEF joined, Q
  <2>1. 0 \in G
    BY <1>1, <1>8
  <2>2. ASSUME NEW n \in Nat, n \in G PROVE n + 1 \in G
    <3>. SUFFICES ASSUME n + 1 <= N PROVE joined[n + 1] \in Q
      OBVIOUS
    <3>1. joined[n] \in Q /\ n + 1 \in 1 .. N /\ n + 1 - 1 = n
      BY <1>1, <2>2
    <3>2. next(n + 1, joined[n]) \in Q
      <4>. HIDE DEF next
      <4>. QED BY <1>2, <3>1
    <3>3. joined[n + 1] = next(n + 1, joined[n + 1 - 1])
      <4>1. \A i \in 1 .. N : joined[i] = next(i, joined[i - 1])
        BY <1>8
      <4>. HIDE DEF next
      <4>. QED BY <4>1, <3>1
    <3>. HIDE DEF next
    <3>. QED BY <3>1, <3>2, <3>3
  <2>3. Nat \subseteq G
    <3>. HIDE DEF G
    <3>. QED BY <2>1, <2>2, SetInduction
  <2>4. \A n \in 0 .. N : joined[n] \in Q
    BY <2>3
  <2>. QED BY <1>8, <2>4
<1>10. JoinAll(ranges) = joined[N]
  BY DEF JoinAll
<1>11. JoinStages(ranges, joined)
  <2>. HIDE DEF joined
  <2>. QED BY <1>8, <1>10 DEF JoinStages
<1>. HIDE DEF joined
<1>. QED BY <1>9, <1>11

LEMMA JoinAllJoins ==
  ASSUME NEW h \in Nat, NEW ranges \in Seq(RangesUpTo(h)),
         \A i \in 1 .. Len(ranges) - 1 : ranges[i][1] <= ranges[i + 1][1]
  PROVE  /\ JoinAll(ranges) \in Seq(RangesUpTo(h)) /\ Apart(JoinAll(ranges))
         /\ Ledgers(JoinAll(ranges)) = Ledgers(ranges)
<1>. DEFINE N == Len(ranges)
            R == RangesUpTo(h)
            spread(n) == UNION {ranges[i][1] .. ranges[i][2] : i \in 1 .. n}
<1>1. PICK f \in [0 .. N -> Seq(R)] : JoinStages(ranges, f)
  BY JoinUnrolls
<1>. DEFINE G == {n \in Nat : n + 1 <= N =>
                    JoinedBelow(f[n], h, ranges[n + 1][1]) /\ Ledgers(f[n]) = spread(n)}
<1>2. N \in Nat /\ DOMAIN ranges = 1 .. N
  OBVIOUS
<1>3. \A n \in 1 .. N : ranges[n] \in R /\ ranges[n][1] \in Nat
  BY <1>2 DEF RangesUpTo
<1>4. 0 \in G
  <2>1. f[0] = << >>
    BY <1>1 DEF JoinStages
  <2>2. << >> \in Seq(R) /\ DOMAIN << >> = {} /\ ToSet(<< >>) = {} /\ Len(<< >>) = 0
    BY DEF ToSet
  <2>3. Apart(<< >>)
    BY DEF Apart
  <2>4. Ledgers(<< >>) = {}
    BY <2>2 DEF Ledgers
  <2>5. spread(0) = {}
    OBVIOUS
  <2>. HIDE DEF spread
  <2>6. \A start : JoinedBelow(<< >>, h, start)
    BY <2>2, <2>3 DEF JoinedBelow
  <2>. QED BY <2>1, <2>4, <2>5, <2>6
<1>5. ASSUME NEW n \in Nat, n + 1 <= N,
             JoinedBelow(f[n], h, ranges[n + 1][1]) /\ Ledgers(f[n]) = spread(n)
      PROVE  /\ JoinedBelow(f[n + 1], h, ranges[n + 1][1])
             /\ Ledgers(f[n + 1]) = spread(n + 1)
  <2>1. n + 1 \in 1 .. N /\ n + 1 - 1 = n
    BY <1>2, <1>5
  <2>2. f[n + 1] = JoinRange(f[n], ranges[n + 1])
    BY <1>1, <2>1 DEF JoinStages
  <2>3. ranges[n + 1] \in RangesUpTo(h)
    BY <1>3, <2>1
  <2>4. /\ JoinedBelow(JoinRange(f[n], ranges[n + 1]), h, ranges[n + 1][1])
        /\ Ledgers(JoinRange(f[n], ranges[n + 1])) =
             Ledgers(f[n]) \cup (ranges[n + 1][1] .. ranges[n + 1][2])
    BY <1>5, <2>3, JoinRangeJoins
  <2>5. spread(n + 1) = spread(n) \cup (ranges[n + 1][1] .. ranges[n + 1][2])
    <3>1. 1 .. n + 1 = (1 .. n) \cup {n + 1}
      OBVIOUS
    <3>. QED BY <3>1
  <2>. HIDE DEF spread
  <2>. QED BY <1>5, <2>2, <2>4, <2>5
<1>6. ASSUME NEW n \in Nat, n \in G PROVE n + 1 \in G
  <2>. SUFFICES ASSUME n + 1 + 1 <= N
                PROVE  /\ JoinedBelow(f[n + 1], h, ranges[n + 1 + 1][1])
                       /\ Ledgers(f[n + 1]) = spread(n + 1)
    OBVIOUS
  <2>1. n + 1 <= N /\ n + 1 \in 1 .. N - 1 /\ n + 1 + 1 \in 1 .. N
    BY <1>2
  <2>2. JoinedBelow(f[n], h, ranges[n + 1][1]) /\ Ledgers(f[n]) = spread(n)
    BY <1>6, <2>1
  <2>3. /\ JoinedBelow(f[n + 1], h, ranges[n + 1][1])
        /\ Ledgers(f[n + 1]) = spread(n + 1)
    <3>. HIDE DEF spread
    <3>. QED BY <1>5, <2>1, <2>2
  <2>4. ranges[n + 1][1] <= ranges[n + 1 + 1][1]
    BY <2>1
  <2>5. \A i \in DOMAIN f[n + 1] : f[n + 1][i][1] \in Int
    <3>1. f[n + 1] \in Seq(R)
      BY <2>3 DEF JoinedBelow
    <3>2. \A r \in R : r[1] \in Int
      BY DEF RangesUpTo
    <3>. HIDE DEF R
    <3>. QED BY <3>1, <3>2
  <2>6. ranges[n + 1][1] \in Nat /\ ranges[n + 1 + 1][1] \in Nat
    BY <1>2, <1>3, <2>1
  <2>7. JoinedBelow(f[n + 1], h, ranges[n + 1 + 1][1])
    BY <2>3, <2>4, <2>5, <2>6 DEF JoinedBelow
  <2>. QED BY <2>3, <2>7
<1>7. Nat \subseteq G
  <2>. HIDE DEF G
  <2>. QED BY <1>4, <1>6, SetInduction
<1>8. JoinAll(ranges) = f[N]
  BY <1>1 DEF JoinStages
<1>9. spread(N) = Ledgers(ranges)
  BY <1>2 DEF Ledgers, ToSet
<1>10. CASE N = 0
  <2>1. f[N] = << >> /\ ranges = << >>
    BY <1>1, <1>10 DEF JoinStages
  <2>2. << >> \in Seq(R) /\ Len(<< >>) = 0
    OBVIOUS
  <2>3. Apart(<< >>)
    BY DEF Apart
  <2>. QED BY <1>8, <2>1, <2>2, <2>3
<1>11. CASE N # 0
  <2>1. N - 1 \in Nat /\ N - 1 + 1 = N /\ N <= N
    BY <1>2, <1>11
  <2>2. N - 1 \in G
    BY <1>7, <2>1
  <2>3. JoinedBelow(f[N - 1], h, ranges[N][1]) /\ Ledgers(f[N - 1]) = spread(N - 1)
    BY <2>1, <2>2
  <2>4. JoinedBelow(f[N], h, ranges[N][1]) /\ Ledgers(f[N]) = spread(N)
    <3>. DEFINE m == N - 1
    <3>. HIDE DEF spread
    <3>1. m \in Nat /\ m + 1 = N /\ m + 1 <= N
      BY <2>1
    <3>2. JoinedBelow(f[m], h, ranges[m + 1][1]) /\ Ledgers(f[m]) = spread(m)
      BY <2>3, <3>1
    <3>. HIDE DEF m
    <3>3. JoinedBelow(f[m + 1], h, ranges[m + 1][1]) /\ Ledgers(f[m + 1]) = spread(m + 1)
      BY <1>5, <3>1, <3>2
    <3>. QED BY <3>1, <3>3
  <2>. HIDE DEF spread
  <2>. QED BY <1>8, <1>9, <2>4 DEF JoinedBelow
<1>. QED BY <1>10, <1>11

\* What #addRange does to ranges that are kept merged and sorted.
LEMMA AddRangeAdds ==
  ASSUME NEW h \in Nat, NEW ranges \in Seq(RangesUpTo(h)), Apart(ranges),
         NEW from \in 1 .. h, NEW to \in 1 .. h, from <= to
  PROVE  /\ AddRange(ranges, from, to) \in Seq(RangesUpTo(h))
         /\ Apart(AddRange(ranges, from, to))
         /\ Ledgers(AddRange(ranges, from, to)) = Ledgers(ranges) \cup (from .. to)
<1>. DEFINE R == RangesUpTo(h)
            r == <<from, to>>
            later == {i \in DOMAIN ranges : from < ranges[i][1]}
            t == InsertBefore(ranges, r, later)
<1>1. r \in R /\ later \in SUBSET DOMAIN ranges
  BY DEF RangesUpTo
<1>2. AddRange(ranges, from, to) = JoinAll(t)
  <2>1. ~ (to < from)
    OBVIOUS
  <2>. QED BY <2>1 DEF AddRange
<1>3. t \in Seq(R)
  <2>. HIDE DEF r, later
  <2>. QED BY <1>1, InsertBeforeInserts
<1>4. PICK i \in 1 .. Len(ranges) + 1 :
        /\ Inserted(t, ranges, i, r)
        /\ \A j \in 1 .. i - 1 : j \notin later
        /\ i <= Len(ranges) => i \in later
  <2>. HIDE DEF r, later
  <2>. QED BY <1>1, InsertBeforeInserts
<1>. HIDE DEF t
<1>5. ToSet(t) = ToSet(ranges) \cup {r}
  <2>. HIDE DEF r
  <2>. QED BY <1>1, <1>3, <1>4, InsertedElements
<1>6. Ledgers(t) = Ledgers(ranges) \cup (from .. to)
  <2>1. r[1] = from /\ r[2] = to
    OBVIOUS
  <2>. HIDE DEF r
  <2>. QED BY <1>5, <2>1 DEF Ledgers
<1>7. Len(ranges) \in Nat /\ DOMAIN ranges = 1 .. Len(ranges) /\ Len(t) = Len(ranges) + 1
  BY <1>4 DEF Inserted
<1>8. \A k \in 1 .. Len(ranges) :
        ranges[k][1] \in Nat /\ ranges[k][2] \in Nat /\ ranges[k][1] <= ranges[k][2]
  BY <1>7 DEF RangesUpTo
<1>9. \A k \in 1 .. Len(t) :
        t[k] = IF k < i THEN ranges[k] ELSE IF k = i THEN r ELSE ranges[k - 1]
  BY <1>4, <1>7 DEF Inserted
<1>10. ASSUME NEW k \in 1 .. Len(t) - 1 PROVE t[k][1] <= t[k + 1][1]
  <2>. DEFINE n == Len(ranges)
  <2>0. n \in Nat /\ k \in 1 .. n /\ k + 1 \in 1 .. n + 1 /\ k \in 1 .. n + 1 /\ i \in 1 .. n + 1
        /\ Len(t) = n + 1
    BY <1>7
  <2>. HIDE DEF n
  <2>01. r[1] = from
    OBVIOUS
  <2>. HIDE DEF r
  <2>1. CASE k + 1 < i
    <3>1. t[k] = ranges[k] /\ t[k + 1] = ranges[k + 1] /\ k \in 1 .. n - 1 /\ k + 1 \in 1 .. n
      BY <1>9, <2>0, <2>1
    <3>2. ranges[k][2] + 1 < ranges[k + 1][1]
      BY <3>1 DEF Apart, n
    <3>3. ranges[k][1] <= ranges[k][2] /\ ranges[k][1] \in Nat /\ ranges[k][2] \in Nat
          /\ ranges[k + 1][1] \in Nat
      BY <1>8, <2>0, <3>1 DEF n
    <3>4. ranges[k][1] <= ranges[k + 1][1]
      BY <3>2, <3>3, StartsBefore
    <3>. QED BY <3>1, <3>4
  <2>2. CASE k + 1 = i
    <3>1. t[k] = ranges[k] /\ t[k + 1] = r /\ k \in 1 .. i - 1
      BY <1>9, <2>0, <2>2
    <3>2. ~ (from < ranges[k][1]) /\ ranges[k][1] \in Nat
      BY <1>4, <1>7, <1>8, <2>0, <3>1 DEF n
    <3>. QED BY <2>01, <3>1, <3>2
  <2>3. CASE k = i
    <3>1. t[k] = r /\ t[k + 1] = ranges[k] /\ k <= n
      <4>1. ~ (k < i) /\ ~ (k + 1 < i) /\ k + 1 # i /\ k + 1 - 1 = k
        BY <2>0, <2>3
      <4>. QED BY <1>9, <2>0, <2>3, <4>1
    <3>2. from < ranges[k][1] /\ ranges[k][1] \in Nat
      BY <1>4, <1>8, <2>0, <2>3, <3>1 DEF n
    <3>. QED BY <2>01, <3>1, <3>2
  <2>4. CASE k > i
    <3>1. k - 1 \in 1 .. n - 1 /\ k - 1 + 1 = k /\ ~ (k < i) /\ k # i /\ ~ (k + 1 < i) /\ k + 1 # i
          /\ k + 1 - 1 = k /\ k - 1 \in 1 .. n
      BY <2>0, <2>4
    <3>2. t[k] = ranges[k - 1] /\ t[k + 1] = ranges[k]
      BY <1>9, <2>0, <3>1
    <3>3. ranges[k - 1][2] + 1 < ranges[k][1]
      BY <3>1 DEF Apart, n
    <3>4. ranges[k - 1][1] <= ranges[k - 1][2] /\ ranges[k - 1][1] \in Nat
          /\ ranges[k - 1][2] \in Nat /\ ranges[k][1] \in Nat
      BY <1>8, <2>0, <3>1 DEF n
    <3>5. ranges[k - 1][1] <= ranges[k][1]
      BY <3>3, <3>4, StartsBefore
    <3>. QED BY <3>2, <3>5
  <2>. QED BY <2>0, <2>1, <2>2, <2>3, <2>4
<1>11. /\ JoinAll(t) \in Seq(R) /\ Apart(JoinAll(t))
       /\ Ledgers(JoinAll(t)) = Ledgers(t)
  <2>1. \A k \in 1 .. Len(t) - 1 : t[k][1] <= t[k + 1][1]
    BY <1>10
  <2>. QED BY <1>3, <2>1, JoinAllJoins
<1>. QED BY <1>2, <1>6, <1>11

-----------------------------------------------------------------------------
(* The store. *)

\* A store of events from E that has examined ledgers up to h.
StoreOf(st, E, h) ==
  /\ st = [events |-> st.events, ranges |-> st.ranges, latestLedger |-> st.latestLedger]
  /\ st.events \in Seq(E) /\ Sorted(st.events)
  /\ st.ranges \in Seq(RangesUpTo(h)) /\ Apart(st.ranges)
  /\ st.latestLedger \in 0 .. h

\* The events of a batch whose cursor no stored event has.
Unseen(st, events) ==
  {ev \in ToSet(events) : CursorOf(ev) \notin {CursorOf(f) : f \in ToSet(st.events)}}

\* What a batch does to a store.
Ingested(after, st, events, from, to) ==
  /\ ToSet(after.events) = ToSet(st.events) \cup Unseen(st, events)
  /\ Ledgers(after.ranges) = Ledgers(st.ranges) \cup (from .. to)
  /\ st.latestLedger <= after.latestLedger

LEMMA EmptyStoreIs ==
  ASSUME NEW E, NEW h \in Nat
  PROVE  StoreOf(EmptyStore, E, h) /\ EmptyStore.events = << >> /\ Ledgers(EmptyStore.ranges) = {}
<1>1. /\ EmptyStore.events = << >> /\ EmptyStore.ranges = << >> /\ EmptyStore.latestLedger = 0
      /\ EmptyStore = [events |-> EmptyStore.events, ranges |-> EmptyStore.ranges,
                       latestLedger |-> EmptyStore.latestLedger]
  BY DEF EmptyStore
<1>2. Sorted(<< >>) /\ Apart(<< >>) /\ << >> \in Seq(E) /\ << >> \in Seq(RangesUpTo(h))
  BY DEF Sorted, Apart
<1>3. Ledgers(<< >>) = {}
  BY DEF Ledgers, ToSet
<1>. QED BY <1>1, <1>2, <1>3 DEF StoreOf

LEMMA TakenIsSorted ==
  ASSUME NEW E, NEW s \in Seq(E), NEW t \in Seq(E), TakenFrom(t, s, Len(s))
  PROVE  (Sorted(s) => Sorted(t)) /\ (Distinct(s) => Distinct(t))
<1>1. PICK place \in [1 .. Len(t) -> 1 .. Len(s)] :
        \A k \in 1 .. Len(t) :
          t[k] = s[place[k]] /\ \A j \in 1 .. k - 1 : place[j] < place[k]
  BY DEF TakenFrom
<1>2. ASSUME NEW i \in DOMAIN t, NEW j \in DOMAIN t, i < j
      PROVE  /\ t[i] = s[place[i]] /\ t[j] = s[place[j]]
             /\ place[i] \in DOMAIN s /\ place[j] \in DOMAIN s /\ place[i] < place[j]
  <2>1. i \in 1 .. Len(t) /\ j \in 1 .. Len(t) /\ i \in 1 .. j - 1
    BY <1>2
  <2>. QED BY <1>1, <2>1
<1>. QED BY <1>2 DEF Sorted, Distinct

LEMMA IngestBatchIngests ==
  ASSUME NEW E, HaveCursors(E), NEW h \in Nat, NEW st, StoreOf(st, E, h),
         NEW events \in Seq(E), Distinct(events),
         NEW from \in 1 .. h, NEW to \in 1 .. h, from <= to, NEW latest \in 0 .. h
  PROVE  /\ StoreOf(IngestBatch(st, events, from, to, latest), E, h)
         /\ Ingested(IngestBatch(st, events, from, to, latest), st, events, from, to)
<1>. DEFINE T == Unseen(st, events)
            fresh == Keep(events, T)
            new == IngestBatch(st, events, from, to, latest)
<1>1. new = [ events       |-> SortedEvents(st.events, fresh),
              ranges       |-> AddRange(st.ranges, from, to),
              latestLedger |-> Max({st.latestLedger, latest}) ]
  BY DEF IngestBatch, Unseen
<1>2. st.events \in Seq(E) /\ Sorted(st.events) /\ st.ranges \in Seq(RangesUpTo(h))
      /\ Apart(st.ranges) /\ st.latestLedger \in 0 .. h
  BY DEF StoreOf
<1>3. fresh \in Seq(E) /\ TakenFrom(fresh, events, Len(events)) /\ ToSet(fresh) = ToSet(events) \cap T
  <2>. HIDE DEF T
  <2>. QED BY KeepKeeps DEF Kept
<1>4. Distinct(fresh)
  <2>. HIDE DEF fresh
  <2>. QED BY <1>3, TakenIsSorted
<1>5. ToSet(fresh) = T
  <2>1. T \subseteq ToSet(events)
    BY DEF Unseen
  <2>. QED BY <1>3, <2>1
<1>6. ToSet(fresh) \cap ToSet(st.events) = {}
  BY <1>5 DEF Unseen
<1>. HIDE DEF fresh
<1>7. /\ SortedEvents(st.events, fresh) \in Seq(E)
      /\ Sorted(SortedEvents(st.events, fresh))
      /\ ToSet(SortedEvents(st.events, fresh)) = ToSet(st.events) \cup T
  BY <1>2, <1>3, <1>4, <1>5, <1>6, SortedEventsSort
<1>8. /\ AddRange(st.ranges, from, to) \in Seq(RangesUpTo(h))
      /\ Apart(AddRange(st.ranges, from, to))
      /\ Ledgers(AddRange(st.ranges, from, to)) = Ledgers(st.ranges) \cup (from .. to)
  BY <1>2, AddRangeAdds
<1>9. Max({st.latestLedger, latest}) \in 0 .. h /\ st.latestLedger <= Max({st.latestLedger, latest})
  BY <1>2, LargerOf
<1>. HIDE DEF new, T
<1>10. /\ new.events = SortedEvents(st.events, fresh) /\ new.ranges = AddRange(st.ranges, from, to)
       /\ new.latestLedger = Max({st.latestLedger, latest})
       /\ new = [events |-> new.events, ranges |-> new.ranges, latestLedger |-> new.latestLedger]
  BY <1>1
<1>11. StoreOf(new, E, h)
  BY <1>7, <1>8, <1>9, <1>10 DEF StoreOf
<1>12. Ingested(new, st, events, from, to)
  BY <1>7, <1>8, <1>9, <1>10 DEF Ingested, T
<1>. QED BY <1>11, <1>12 DEF new

\* page is a page of the events in M: the first of them, in order, and a cursor if
\* there are more.
PageOf(page, M, E) ==
  /\ page.events \in Seq(E) /\ Sorted(page.events) /\ ToSet(page.events) \subseteq M
  /\ page.cursor = NoCursor => ToSet(page.events) = M
  /\ page.cursor # NoCursor =>
       \E last \in ToSet(page.events) :
         /\ page.cursor = CursorOf(last)
         /\ \A ev \in ToSet(page.events) : NotAfter(ev, last)
         /\ \A ev \in M \ ToSet(page.events) : NotAfter(last, ev)

LEMMA QueryPages ==
  ASSUME NEW E, HaveCursors(E), NEW h \in Nat, NEW st, StoreOf(st, E, h),
         NEW account, NEW from, NEW to, NEW after, NEW limit \in Nat \ {0}
  PROVE  PageOf(Query(st, account, from, to, after, limit),
                Matching(st, account, from, to, after), E)
<1>. DEFINE M == Matching(st, account, from, to, after)
            m == Keep(st.events, M)
            n == Min({limit, Len(m)})
            page == SubSeq(m, 1, n)
            q == Query(st, account, from, to, after, limit)
<1>1. st.events \in Seq(E) /\ Sorted(st.events)
  BY DEF StoreOf
<1>2. m \in Seq(E) /\ TakenFrom(m, st.events, Len(st.events)) /\ ToSet(m) = ToSet(st.events) \cap M
  <2>. HIDE DEF M
  <2>. QED BY <1>1, KeepKeeps DEF Kept
<1>3. ToSet(m) = M
  BY <1>2 DEF Matching
<1>4. /\ q.events = page
      /\ q.cursor = IF Len(m) > Len(page) /\ page # << >> THEN CursorOf(Last(page)) ELSE NoCursor
  BY DEF Query
<1>. HIDE DEF q, M, m
<1>5. Sorted(m)
  BY <1>1, <1>2, TakenIsSorted
<1>6. Len(m) \in Nat /\ DOMAIN m = 1 .. Len(m) /\ limit \in Nat /\ limit # 0
  BY <1>2
<1>7. n = IF limit <= Len(m) THEN limit ELSE Len(m)
  BY <1>6, SmallerOf
<1>. HIDE DEF n
<1>71. n \in Nat /\ n <= Len(m) /\ (Len(m) > n => n = limit) /\ (~ (Len(m) > n) => n = Len(m))
  <2>. DEFINE N == Len(m)
  <2>1. N \in Nat /\ n = (IF limit <= N THEN limit ELSE N) /\ limit \in Nat
    BY <1>6, <1>7, Zenon
  <2>. HIDE DEF N
  <2>4. n \in Nat /\ n <= N /\ (N > n => n = limit) /\ (~ (N > n) => n = N)
    BY <2>1
  <2>. QED BY <2>4 DEF N
<1>8. /\ page \in Seq(E) /\ Len(page) = n /\ DOMAIN page = 1 .. n /\ n \in Nat /\ n <= Len(m)
      /\ \A k \in 1 .. n : page[k] = m[k]
  <2>1. m \in Seq(E) /\ n \in Nat /\ n <= Len(m)
    BY <1>2, <1>71
  <2>2. page \in Seq(E) /\ Len(page) = n
    BY <2>1
  <2>3. \A k \in 1 .. n : page[k] = m[k]
    BY <2>1
  <2>. HIDE DEF page
  <2>. QED BY <2>1, <2>2, <2>3
<1>. HIDE DEF page
<1>9. Sorted(page)
  <2>1. \A k \in 1 .. n : k \in DOMAIN m
    BY <1>6, <1>8
  <2>. QED BY <1>5, <1>8, <2>1 DEF Sorted
<1>10. ToSet(page) \subseteq M
  <2>1. \A k \in 1 .. n : k \in DOMAIN m
    BY <1>6, <1>8
  <2>. QED BY <1>3, <1>8, <2>1 DEF ToSet
<1>11. CASE Len(m) > n
  <2>1. n = limit /\ n \in DOMAIN page /\ n \in DOMAIN m
    <3>1. n = limit /\ n \in 1 .. n
      <4>1. n = limit
        BY <1>71, <1>11
      <4>2. n \in Nat /\ n # 0
        BY <1>6, <4>1
      <4>. QED BY <4>1, <4>2
    <3>. QED BY <1>6, <1>8, <3>1
  <2>2. page # << >> /\ Last(page) = m[n]
    BY <1>8, <2>1 DEF Last
  <2>3. q.cursor = CursorOf(m[n])
    BY <1>4, <1>8, <1>11, <2>2
  <2>4. CursorOf(m[n]) # NoCursor
    BY DEF CursorOf, NoCursor
  <2>5. m[n] \in ToSet(page)
    BY <1>8, <2>1 DEF ToSet
  <2>6. \A k \in DOMAIN m : m[k] \in E /\ HasCursor(m[k])
    BY <1>2 DEF HaveCursors
  <2>7. ASSUME NEW ev \in ToSet(page) PROVE NotAfter(ev, m[n])
    <3>1. PICK k \in 1 .. n : ev = m[k]
      BY <1>8 DEF ToSet
    <3>2. k \in DOMAIN m /\ (k = n \/ k < n)
      BY <1>6, <1>8, <2>1
    <3>3. CASE k = n
      BY <2>1, <2>6, <3>1, <3>3, CursorOrder
    <3>4. CASE k < n
      BY <1>5, <2>1, <3>1, <3>2, <3>4 DEF Sorted
    <3>. QED BY <3>2, <3>3, <3>4
  <2>8. ASSUME NEW ev \in M \ ToSet(page) PROVE NotAfter(m[n], ev)
    <3>1. PICK k \in DOMAIN m : ev = m[k]
      BY <1>3 DEF ToSet
    <3>2. k \notin 1 .. n
      BY <1>8, <3>1 DEF ToSet
    <3>3. n < k
      BY <1>6, <1>8, <3>2
    <3>. QED BY <1>5, <2>1, <3>1, <3>3 DEF Sorted
  <2>. QED BY <1>4, <1>8, <1>9, <1>10, <2>3, <2>4, <2>5, <2>7, <2>8 DEF PageOf, q, M
<1>12. CASE ~ (Len(m) > n)
  <2>1. n = Len(m)
    BY <1>71, <1>12
  <2>2. q.cursor = NoCursor
    BY <1>4, <1>8, <1>12
  <2>3. ToSet(page) = ToSet(m)
    BY <1>6, <1>8, <2>1 DEF ToSet
  <2>. QED BY <1>3, <1>4, <1>8, <1>9, <1>10, <2>2, <2>3 DEF PageOf, q, M
<1>. QED BY <1>11, <1>12

\* The latest of the candidates, if there is one.
LEMMA CheckpointIsOne ==
  ASSUME NEW E, HaveCursors(E), NEW h \in Nat, NEW st, StoreOf(st, E, h),
         NEW account, NEW at,
         NEW ev \in ToSet(st.events), account \in ev.who, ev.kind = "merge", ev.ledger <= at
  PROVE  Checkpoint(st, account, at) \in E /\ NotAfter(ev, Checkpoint(st, account, at))
<1>. DEFINE M == {e \in ToSet(st.events) :
                    account \in e.who /\ e.kind = "merge" /\ e.ledger <= at}
            m == Keep(st.events, M)
<1>1. st.events \in Seq(E) /\ Sorted(st.events)
  BY DEF StoreOf
<1>2. m \in Seq(E) /\ TakenFrom(m, st.events, Len(st.events)) /\ ToSet(m) = ToSet(st.events) \cap M
  <2>. HIDE DEF M
  <2>. QED BY <1>1, KeepKeeps DEF Kept
<1>3. ev \in ToSet(m)
  BY <1>2
<1>4. Checkpoint(st, account, at) = IF m = << >> THEN NoEvent ELSE Last(m)
  BY DEF Checkpoint, Candidates
<1>. HIDE DEF m
<1>5. Sorted(m)
  BY <1>1, <1>2, TakenIsSorted
<1>6. PICK k \in DOMAIN m : ev = m[k]
  BY <1>3 DEF ToSet
<1>7. DOMAIN m = 1 .. Len(m) /\ Len(m) \in Nat
  BY <1>2
<1>8. m # << >> /\ Len(m) \in DOMAIN m /\ (k = Len(m) \/ k < Len(m))
  BY <1>6, <1>7
<1>9. Checkpoint(st, account, at) = m[Len(m)]
  BY <1>4, <1>8 DEF Last
<1>10. m[Len(m)] \in E /\ HasCursor(ev)
  <2>1. ev \in E
    BY <1>2, <1>6
  <2>. QED BY <1>2, <1>8, <2>1 DEF HaveCursors
<1>11. NotAfter(ev, m[Len(m)])
  <2>1. CASE k = Len(m)
    BY <1>6, <1>10, <2>1, CursorOrder
  <2>2. CASE k < Len(m)
    BY <1>5, <1>6, <1>8, <2>2 DEF Sorted
  <2>. QED BY <1>8, <2>1, <2>2
<1>. QED BY <1>9, <1>10, <1>11

-----------------------------------------------------------------------------
(* The inductive invariant. *)

\* The chain lies in the closed ledgers, in their order, and the events of one
\* transaction are in the order of their operations and indices.
Emissions == UNION {ToSet(block) : block \in Blocks}

EmittedEvent == {InLedger(emission, l) : emission \in Emissions, l \in Nat}

InTurn(a, b) ==
  /\ a.ledger <= b.ledger
  /\ a.ledger = b.ledger /\ a.tx = b.tx =>
       a.op < b.op \/ (a.op = b.op /\ a.index < b.index)

ChainOK ==
  /\ head \in Nat /\ oldest \in Nat /\ 1 <= oldest /\ oldest <= head
  /\ chain \in Seq(EmittedEvent)
  /\ \A i \in DOMAIN chain : chain[i].ledger \in 1 .. head
  /\ \A i, j \in DOMAIN chain : i < j => InTurn(chain[i], chain[j])

\* What a scan has collected is a stretch of the chain that ends at its cursor.
ReadSoFar(s) ==
  \/ s.cursor = NoRpcCursor /\ s.collected = << >>
  \/ /\ s.cursor.ledger \in 1 .. head
     /\ s.cursor.upTo <= EventsThrough(s.cursor.ledger)
     /\ \E lo \in 0 .. s.cursor.upTo : s.collected = SubSeq(chain, lo + 1, s.cursor.upTo)

Scan ==
  [ phase : {"scan", "store"}, start : Nat, head : Nat, calls : Nat,
    cursor : [ledger : Nat, upTo : Nat], collected : Seq(ToSet(chain)) ]

PassOK(p) ==
  \/ pass[p] = Idle
  \/ pass[p] \in [phase : {"health"}, from : Nat]
  \/ /\ pass[p] \in Scan
     /\ 1 <= pass[p].start /\ pass[p].start <= pass[p].head /\ pass[p].head <= head
     /\ ReadSoFar(pass[p])

PassesOK == DOMAIN pass = Passes /\ \A p \in Passes : PassOK(p)

ArchiveInv == ChainOK /\ StoreOf(store, ToSet(chain), head) /\ PassesOK /\ CompleteUnlessCut

\* The reader's answer so far is in order, is what was asked for, ends at the cursor,
\* and misses nothing up to the cursor unless a page was incomplete.
Answer ==
  [ phase : {"paging", "accepted", "refused"}, account : Accounts, from : Nat, to : Int,
    cursor : {NoCursor} \cup {CursorOf(ev) : ev \in ToSet(chain)},
    events : Seq(ToSet(chain)), complete : BOOLEAN ]

ReadUpToCursor ==
  reader.phase = "paging" =>
    IF reader.cursor = NoCursor THEN reader.events = << >>
    ELSE \A ev \in ToSet(reader.events) : ~ CursorLess(reader.cursor, CursorOf(ev))

\* What of the answer must be there by now.
DueBy(ev) ==
  \/ reader.phase = "accepted"
  \/ reader.phase = "paging" /\ reader.cursor # NoCursor /\ ~ CursorLess(reader.cursor, CursorOf(ev))

WholeSoFar ==
  reader.to # Unbounded /\ (reader.phase = "paging" => reader.complete) =>
    \A ev \in ToSet(chain) \ cut :
      Wanted(ev) /\ ~ Shadowed(ev, ToSet(chain)) /\ DueBy(ev) => ev \in ToSet(reader.events)

ReaderOK ==
  reader # NotReading =>
    /\ reader \in Answer
    /\ reader.to <= head
    /\ Sorted(reader.events)
    /\ \A ev \in ToSet(reader.events) : Wanted(ev)
    /\ ReadUpToCursor
    /\ WholeSoFar

ReaderInv == ArchiveInv /\ ReaderOK

-----------------------------------------------------------------------------
(* The chain. *)

LEMMA EmittedIs ==
  ASSUME NEW ev \in EmittedEvent
  PROVE  /\ ev.ledger \in Nat /\ ev.tx \in Nat /\ ev.op \in Nat /\ ev.index \in Nat
         /\ "ledger" \in DOMAIN ev
<1>1. PICK e \in Emissions, l \in Nat : ev = InLedger(e, l)
  BY DEF EmittedEvent
<1>2. PICK block \in Blocks : e \in ToSet(block)
  BY <1>1 DEF Emissions
<1>3. /\ "tx" \in DOMAIN e /\ "op" \in DOMAIN e /\ "index" \in DOMAIN e
      /\ e.tx \in Nat /\ e.op \in Nat /\ e.index \in Nat
  BY <1>2, BlocksAssumption
<1>. QED BY <1>1, <1>3 DEF InLedger

LEMMA ChainFacts ==
  ASSUME ChainOK
  PROVE  /\ HaveCursors(ToSet(chain))
         /\ chain \in Seq(ToSet(chain))
         /\ DOMAIN chain = 1 .. Len(chain) /\ Len(chain) \in Nat
         /\ Distinct(chain)
         /\ ToSet(chain) \subseteq EmittedEvent
         /\ \A ev \in ToSet(chain) : ev.ledger \in 1 .. head
<1>1. chain \in Seq(EmittedEvent)
  BY DEF ChainOK
<1>2. DOMAIN chain = 1 .. Len(chain) /\ Len(chain) \in Nat
  BY <1>1
<1>3. chain \in Seq(ToSet(chain))
  BY <1>1, <1>2 DEF ToSet
<1>4. ToSet(chain) \subseteq EmittedEvent
  BY <1>1, <1>2 DEF ToSet
<1>5. HaveCursors(ToSet(chain))
  BY <1>4, EmittedIs DEF HaveCursors, HasCursor
<1>6. Distinct(chain)
  <2>. SUFFICES ASSUME NEW i \in DOMAIN chain, NEW j \in DOMAIN chain, i < j, chain[i] = chain[j]
                PROVE  FALSE
    BY DEF Distinct
  <2>1. InTurn(chain[i], chain[j])
    BY DEF ChainOK
  <2>2. chain[i] \in EmittedEvent
    BY <1>1
  <2>. QED BY <2>1, <2>2, EmittedIs DEF InTurn
<1>7. \A ev \in ToSet(chain) : ev.ledger \in 1 .. head
  BY DEF ChainOK, ToSet
<1>. QED BY <1>2, <1>3, <1>4, <1>5, <1>6, <1>7

\* Events in the order of their cursors are in apply order, or in two transactions
\* of one ledger.
LEMMA CursorsKeepTurn ==
  ASSUME ChainOK, NEW a \in ToSet(chain), NEW b \in ToSet(chain), NotAfter(a, b), a # b
  PROVE  Position(a) < Position(b) \/ (a.ledger = b.ledger /\ a.tx # b.tx)
<1>1. ASSUME NEW ev \in ToSet(chain)
      PROVE  Position(ev) \in DOMAIN chain /\ chain[Position(ev)] = ev
  <2>1. \E i \in DOMAIN chain : chain[i] = ev
    BY DEF ToSet
  <2>. QED BY <2>1 DEF Position
<1>. DEFINE i == Position(a)
            j == Position(b)
<1>2. i \in DOMAIN chain /\ j \in DOMAIN chain /\ chain[i] = a /\ chain[j] = b
  BY <1>1
<1>. HIDE DEF i, j
<1>3. i \in Nat /\ j \in Nat /\ i # j
  BY <1>2, ChainFacts
<1>4. CASE j < i
  <2>1. InTurn(b, a)
    BY <1>2, <1>4 DEF ChainOK
  <2>2. HasCursor(a) /\ HasCursor(b)
    BY ChainFacts DEF HaveCursors
  <2>3. ~ CursorLess(CursorOf(b), CursorOf(a))
    BY DEF NotAfter
  <2>4. ~ (b.ledger < a.ledger) /\ ~ (b.ledger = a.ledger /\ b.op < a.op)
        /\ ~ (b.ledger = a.ledger /\ b.op = a.op /\ b.index < a.index)
    BY <2>2, <2>3, CursorLessIs
  <2>. QED BY <2>1, <2>2, <2>4 DEF InTurn, HasCursor
<1>. QED BY <1>3, <1>4 DEF i, j

\* An unshadowed event is the only one with its cursor.
LEMMA OnlyOne ==
  ASSUME ChainOK, NEW ev \in ToSet(chain), ~ Shadowed(ev, ToSet(chain)),
         NEW f \in ToSet(chain), CursorOf(f) = CursorOf(ev)
  PROVE  f = ev
BY DEF Shadowed

IndicesThrough(l) == {i \in DOMAIN chain : chain[i].ledger <= l}

LEMMA ThroughIs ==
  ASSUME ChainOK, NEW l \in Int
  PROVE  /\ IsFiniteSet(IndicesThrough(l))
         /\ EventsThrough(l) = Cardinality(IndicesThrough(l))
         /\ EventsThrough(l) \in Nat /\ EventsThrough(l) <= Len(chain)
<1>1. DOMAIN chain = 1 .. Len(chain) /\ Len(chain) \in Nat
  BY ChainFacts
<1>2. IsFiniteSet(1 .. Len(chain)) /\ Cardinality(1 .. Len(chain)) = Len(chain)
  <2>. DEFINE N == Len(chain)
  <2>1. N \in Nat /\ 1 \in Int
    BY <1>1
  <2>. HIDE DEF N
  <2>2. IsFiniteSet(1 .. N) /\ Cardinality(1 .. N) = IF 1 > N THEN 0 ELSE N - 1 + 1
    BY <2>1, FS_Interval
  <2>3. IsFiniteSet(1 .. N) /\ Cardinality(1 .. N) = N
    BY <2>1, <2>2
  <2>. QED BY <2>3 DEF N
<1>3. IndicesThrough(l) \in SUBSET (1 .. Len(chain))
  BY <1>1 DEF IndicesThrough
<1>4. IsFiniteSet(IndicesThrough(l)) /\ Cardinality(IndicesThrough(l)) <= Len(chain)
  BY <1>2, <1>3, FS_Subset
<1>5. EventsThrough(l) = Cardinality(IndicesThrough(l))
  BY DEF EventsThrough, IndicesThrough
<1>. QED BY <1>4, <1>5, FS_CardinalityType

LEMMA ThroughGrows ==
  ASSUME ChainOK, NEW k \in Int, NEW l \in Int, k <= l
  PROVE  EventsThrough(k) <= EventsThrough(l)
<1>1. \A i \in DOMAIN chain : chain[i].ledger \in Int
  BY DEF ChainOK
<1>2. IndicesThrough(k) \in SUBSET IndicesThrough(l)
  BY <1>1 DEF IndicesThrough
<1>3. IsFiniteSet(IndicesThrough(l))
  BY ThroughIs
<1>4. Cardinality(IndicesThrough(k)) <= Cardinality(IndicesThrough(l))
  BY <1>2, <1>3, FS_Subset
<1>. QED BY <1>4, ThroughIs

LEMMA ThroughItself ==
  ASSUME ChainOK, NEW n \in DOMAIN chain
  PROVE  n <= EventsThrough(chain[n].ledger)
<1>. DEFINE l == chain[n].ledger
<1>1. DOMAIN chain = 1 .. Len(chain) /\ Len(chain) \in Nat /\ n \in Nat
  BY ChainFacts
<1>2. \A i \in DOMAIN chain : chain[i].ledger \in Int
  BY DEF ChainOK
<1>3. \A i \in 1 .. n : i \in DOMAIN chain /\ chain[i].ledger <= l
  <2>. SUFFICES ASSUME NEW i \in 1 .. n PROVE i \in DOMAIN chain /\ chain[i].ledger <= l
    OBVIOUS
  <2>1. i \in DOMAIN chain /\ (i < n \/ i = n)
    BY <1>1
  <2>2. i < n => InTurn(chain[i], chain[n])
    BY <2>1 DEF ChainOK
  <2>. QED BY <1>2, <2>1, <2>2 DEF InTurn
<1>4. 1 .. n \in SUBSET IndicesThrough(l)
  BY <1>3 DEF IndicesThrough
<1>5. l \in Int
  BY <1>2
<1>6. IsFiniteSet(IndicesThrough(l)) /\ EventsThrough(l) = Cardinality(IndicesThrough(l))
  BY <1>5, ThroughIs
<1>7. Cardinality(1 .. n) <= Cardinality(IndicesThrough(l))
  BY <1>4, <1>6, FS_Subset
<1>8. Cardinality(1 .. n) = n
  <2>1. n >= 1
    BY <1>1
  <2>. QED BY <1>1, <2>1, FS_Interval
<1>. QED BY <1>6, <1>7, <1>8

\* The events up to ledger l are the first EventsThrough(l) of the chain.
LEMMA ThroughSplits ==
  ASSUME ChainOK, NEW l \in Int, NEW i \in DOMAIN chain
  PROVE  chain[i].ledger <= l <=> i <= EventsThrough(l)
<1>. DEFINE N == Len(chain)
            m == chain[i].ledger
<1>0. DOMAIN chain = 1 .. N /\ N \in Nat
  BY ChainFacts
<1>1. i \in Nat /\ 1 <= i /\ i <= N /\ m \in Int
  <2>1. i \in 1 .. N /\ m \in 1 .. head /\ head \in Nat
    BY <1>0 DEF ChainOK
  <2>. HIDE DEF N, m
  <2>. QED BY <1>0, <2>1
<1>2. EventsThrough(l) \in Nat /\ EventsThrough(m) \in Nat
  BY <1>1, ThroughIs
<1>3. ASSUME m <= l PROVE i <= EventsThrough(l)
  <2>1. EventsThrough(m) <= EventsThrough(l)
    BY <1>1, <1>3, ThroughGrows
  <2>2. i <= EventsThrough(m)
    BY ThroughItself
  <2>. HIDE DEF m
  <2>. QED BY <1>1, <1>2, <2>1, <2>2
<1>4. ASSUME ~ (m <= l) PROVE ~ (i <= EventsThrough(l))
  <2>1. ASSUME NEW j \in IndicesThrough(l) PROVE j \in 1 .. i - 1
    <3>1. j \in DOMAIN chain /\ chain[j].ledger <= l
      BY DEF IndicesThrough
    <3>2. j \in 1 .. N /\ j \in Nat
      BY <1>0, <3>1
    <3>3. i < j => m <= chain[j].ledger
      BY <3>1 DEF ChainOK, InTurn
    <3>4. chain[j].ledger \in Int
      BY <3>1 DEF ChainOK
    <3>5. ~ (i < j) /\ i # j
      <4>. HIDE DEF N
      <4>. QED BY <1>1, <1>4, <3>1, <3>3, <3>4
    <3>. HIDE DEF N
    <3>. QED BY <1>1, <3>2, <3>5
  <2>2. IndicesThrough(l) \in SUBSET (1 .. i - 1)
    BY <2>1
  <2>3. i - 1 \in Int /\ i - 1 \in Nat
    BY <1>1
  <2>4. IsFiniteSet(1 .. i - 1) /\ Cardinality(1 .. i - 1) <= i - 1
    <3>. DEFINE k == i - 1
    <3>. HIDE DEF k
    <3>1. k \in Nat
      BY <2>3 DEF k
    <3>2. IsFiniteSet(1 .. k) /\ Cardinality(1 .. k) = IF 1 > k THEN 0 ELSE k - 1 + 1
      BY <3>1, FS_Interval
    <3>3. IsFiniteSet(1 .. k) /\ Cardinality(1 .. k) <= k
      BY <3>1, <3>2
    <3>. QED BY <3>3 DEF k
  <2>5. Cardinality(IndicesThrough(l)) <= Cardinality(1 .. i - 1)
    BY <2>2, <2>4, FS_Subset
  <2>6. EventsThrough(l) = Cardinality(IndicesThrough(l))
    BY ThroughIs
  <2>7. Cardinality(1 .. i - 1) \in Nat
    BY <2>4, FS_CardinalityType
  <2>. QED BY <1>1, <1>2, <2>4, <2>5, <2>6, <2>7
<1>. QED BY <1>3, <1>4

-----------------------------------------------------------------------------
(* Reading pages from the RPC. *)

RpcCursor == [ledger : Nat, upTo : Nat]

\* The last ledger that one call from a ledger examines.
Scanned(l) == Min({head, l + ScanWindow - 1})

\* g is a page of the chain from position n on, with the cursor that resumes after it.
PageFrom(g, n) ==
  /\ g.cursor \in RpcCursor
  /\ n <= g.cursor.upTo /\ g.cursor.upTo <= Len(chain)
  /\ g.events = SubSeq(chain, n + 1, g.cursor.upTo)
  /\ g.cursor.ledger \in 1 .. head
  /\ g.cursor.upTo <= EventsThrough(g.cursor.ledger)
  /\ EventsThrough(g.cursor.ledger - 1) <= g.cursor.upTo

LEMMA GetEventsPages ==
  ASSUME ChainOK, NEW l \in Nat, 1 <= l, NEW n \in Nat, n <= EventsThrough(Scanned(l))
  PROVE  PageFrom(GetEvents(l, n), n)
<1>. DEFINE scanned == Scanned(l)
            upTo == EventsThrough(scanned)
            full == upTo - n >= PageLimit
            last == IF full THEN n + PageLimit ELSE upTo
            ledger == IF full THEN chain[last].ledger ELSE scanned
            g == GetEvents(l, n)
<1>1. /\ PageLimit \in Nat /\ PageLimit # 0 /\ ScanWindow \in Nat /\ ScanWindow # 0
      /\ head \in Nat /\ 1 <= head
  BY RpcAssumption DEF ChainOK
<1>2. scanned \in 1 .. head
  <2>1. l + ScanWindow - 1 \in Int /\ 1 <= l + ScanWindow - 1 /\ head \in Int
    BY <1>1
  <2>2. scanned = IF head <= l + ScanWindow - 1 THEN head ELSE l + ScanWindow - 1
    BY <2>1, SmallerOf DEF Scanned
  <2>. HIDE DEF scanned
  <2>. QED BY <1>1, <2>1, <2>2
<1>. HIDE DEF scanned
<1>3. upTo \in Nat /\ upTo <= Len(chain) /\ n <= upTo /\ Len(chain) \in Nat
  <2>1. scanned \in Int
    BY <1>1, <1>2
  <2>. QED BY <2>1, ThroughIs, ChainFacts DEF scanned
<1>4. /\ g.events = SubSeq(chain, n + 1, last)
      /\ g.cursor = [ledger |-> ledger, upTo |-> last]
  BY DEF GetEvents, scanned, Scanned
<1>. HIDE DEF g, upTo
<1>5. last \in Nat /\ n <= last /\ last <= upTo
  BY <1>1, <1>3
<1>6. /\ ledger \in 1 .. head /\ last <= EventsThrough(ledger)
      /\ EventsThrough(ledger - 1) <= last
  <2>1. CASE full
    <3>1. ledger = chain[last].ledger
      BY <2>1
    <3>2. last \in DOMAIN chain
      <4>1. 1 <= last
        BY <1>1, <1>3, <2>1
      <4>2. DOMAIN chain = 1 .. Len(chain)
        BY ChainFacts
      <4>. HIDE DEF last
      <4>. QED BY <1>3, <1>5, <4>1, <4>2
    <3>. HIDE DEF last, ledger
    <3>3. ledger \in 1 .. head /\ last <= EventsThrough(ledger)
      BY <3>1, <3>2, ThroughItself DEF ChainOK
    <3>4. ledger \in Int /\ ledger - 1 \in Int /\ ~ (ledger <= ledger - 1)
      BY <1>1, <3>3
    <3>5. ~ (last <= EventsThrough(ledger - 1))
      BY <3>1, <3>2, <3>4, ThroughSplits
    <3>6. EventsThrough(ledger - 1) \in Nat
      BY <3>4, ThroughIs
    <3>. QED BY <1>5, <3>3, <3>5, <3>6
  <2>2. CASE ~ full
    <3>1. ledger = scanned /\ last = upTo
      BY <2>2
    <3>. HIDE DEF last, ledger
    <3>2. scanned \in Int /\ scanned - 1 \in Int /\ scanned - 1 <= scanned
      BY <1>1, <1>2
    <3>3. EventsThrough(scanned - 1) <= EventsThrough(scanned)
      BY <3>2, ThroughGrows
    <3>4. EventsThrough(scanned) <= EventsThrough(scanned)
      BY <1>3 DEF upTo
    <3>. QED BY <1>2, <3>1, <3>3, <3>4 DEF upTo
  <2>. QED BY <2>1, <2>2
<1>. HIDE DEF last, ledger
<1>7. g.cursor \in RpcCursor /\ g.cursor.upTo = last /\ g.cursor.ledger = ledger
  BY <1>1, <1>4, <1>5, <1>6 DEF RpcCursor
<1>8. last <= Len(chain)
  BY <1>3, <1>5
<1>. QED BY <1>4, <1>5, <1>6, <1>7, <1>8 DEF PageFrom, g

\* A read goes on where its cursor is.
LEMMA NextReadIs ==
  ASSUME ChainOK, NEW start, NEW c \in RpcCursor,
         c = NoRpcCursor => start \in 1 .. head,
         c # NoRpcCursor => c.ledger \in 1 .. head /\ c.upTo <= EventsThrough(c.ledger)
  PROVE  LET read == NextRead(start, c) IN
         /\ read.ledger \in Nat /\ 1 <= read.ledger
         /\ read.upTo \in Nat /\ read.upTo <= EventsThrough(Scanned(read.ledger))
         /\ c # NoRpcCursor => read.upTo = c.upTo
<1>. DEFINE read == NextRead(start, c)
<1>1. ScanWindow \in Nat /\ ScanWindow # 0 /\ head \in Nat /\ 1 <= head
  BY RpcAssumption DEF ChainOK
<1>2. ASSUME NEW l \in Nat, 1 <= l, NEW k \in Nat, k <= head, k <= l
      PROVE  k <= Scanned(l) /\ Scanned(l) \in Int
  <2>1. l + ScanWindow - 1 \in Int /\ l <= l + ScanWindow - 1
    BY <1>1
  <2>2. Scanned(l) = IF head <= l + ScanWindow - 1 THEN head ELSE l + ScanWindow - 1
    BY <1>1, <2>1, SmallerOf DEF Scanned
  <2>. QED BY <1>1, <1>2, <2>1, <2>2
<1>3. CASE c = NoRpcCursor
  <2>1. read = [ledger |-> start, upTo |-> EventsThrough(start - 1)]
    BY <1>3 DEF NextRead
  <2>0. start \in Nat /\ 1 <= start /\ start <= head
    BY <1>1, <1>3
  <2>2. start - 1 \in Nat /\ start - 1 \in Int /\ start - 1 <= head /\ start - 1 <= start
    BY <1>1, <2>0
  <2>3. EventsThrough(start - 1) \in Nat
    BY <2>2, ThroughIs
  <2>4. start - 1 <= Scanned(start) /\ Scanned(start) \in Int
    BY <1>1, <1>2, <2>0, <2>2
  <2>5. EventsThrough(start - 1) <= EventsThrough(Scanned(start))
    BY <2>2, <2>4, ThroughGrows
  <2>. QED BY <2>0, <1>3, <2>1, <2>3, <2>5
<1>4. CASE c # NoRpcCursor
  <2>1. c.ledger \in 1 .. head /\ c.upTo <= EventsThrough(c.ledger) /\ c.upTo \in Nat
        /\ c = [ledger |-> c.ledger, upTo |-> c.upTo]
    BY <1>4 DEF RpcCursor
  <2>2. c.ledger \in Nat /\ 1 <= c.ledger /\ c.ledger <= head /\ c.ledger \in Int
    BY <1>1, <2>1
  <2>3. read = c \/ read = [c EXCEPT !.ledger = @ + 1]
    BY <1>4 DEF NextRead
  <2>4. read.upTo = c.upTo /\ (read.ledger = c.ledger \/ read.ledger = c.ledger + 1)
    <3>. HIDE DEF read
    <3>. QED BY <2>1, <2>3
  <2>. HIDE DEF read
  <2>5. read.ledger \in Nat /\ 1 <= read.ledger /\ c.ledger <= read.ledger
    BY <2>2, <2>4
  <2>6. c.ledger <= Scanned(read.ledger) /\ Scanned(read.ledger) \in Int
    BY <1>2, <2>2, <2>5
  <2>7. EventsThrough(c.ledger) <= EventsThrough(Scanned(read.ledger))
    BY <2>2, <2>6, ThroughGrows
  <2>8. EventsThrough(c.ledger) \in Nat /\ EventsThrough(Scanned(read.ledger)) \in Nat
    BY <2>2, <2>6, ThroughIs
  <2>9. read.upTo \in Nat /\ read.upTo <= EventsThrough(Scanned(read.ledger))
    BY <2>1, <2>4, <2>7, <2>8
  <2>. QED BY <2>4, <2>5, <2>9 DEF read
<1>. QED BY <1>3, <1>4

\* The next read of a scan goes on where its cursor is.
LEMMA NextReadGoesOn ==
  ASSUME ChainOK, NEW s, s.start \in 1 .. head, s.cursor \in RpcCursor, ReadSoFar(s)
  PROVE  LET read == NextRead(s.start, s.cursor) IN
         /\ read.ledger \in Nat /\ 1 <= read.ledger
         /\ read.upTo \in Nat /\ read.upTo <= EventsThrough(Scanned(read.ledger))
         /\ s.cursor # NoRpcCursor => read.upTo = s.cursor.upTo
<1>. DEFINE c == s.cursor
<1>1. c # NoRpcCursor => c.ledger \in 1 .. head /\ c.upTo <= EventsThrough(c.ledger)
  BY DEF ReadSoFar
<1>. HIDE DEF c
<1>2. c \in RpcCursor
  BY DEF c
<1>3. LET read == NextRead(s.start, c) IN
      /\ read.ledger \in Nat /\ 1 <= read.ledger
      /\ read.upTo \in Nat /\ read.upTo <= EventsThrough(Scanned(read.ledger))
      /\ c # NoRpcCursor => read.upTo = c.upTo
  BY <1>1, <1>2, NextReadIs
<1>. QED BY <1>3 DEF c

-----------------------------------------------------------------------------
(* Stretches of the chain. *)

LEMMA JoinedIs ==
  ASSUME NEW S, NEW a \in Seq(S), NEW b \in Seq(S)
  PROVE  /\ a \o b \in Seq(S) /\ Len(a \o b) = Len(a) + Len(b)
         /\ \A i \in 1 .. Len(a) : (a \o b)[i] = a[i]
         /\ \A i \in 1 .. Len(b) : (a \o b)[Len(a) + i] = b[i]
OBVIOUS

\* What two sequences in a row hold is what either holds.
LEMMA JoinHolds ==
  ASSUME NEW S, NEW s \in Seq(S), NEW t \in Seq(S)
  PROVE  s \o t \in Seq(S) /\ ToSet(s \o t) = ToSet(s) \cup ToSet(t)
<1>. DEFINE N == Len(s)
            M == Len(t)
            st == s \o t
<1>1. /\ st \in Seq(S) /\ Len(st) = N + M /\ N \in Nat /\ M \in Nat
      /\ \A i \in 1 .. N : st[i] = s[i]
      /\ \A i \in 1 .. M : st[N + i] = t[i]
  BY JoinedIs
<1>2. DOMAIN s = 1 .. N /\ DOMAIN t = 1 .. M /\ DOMAIN st = 1 .. N + M
  BY <1>1
<1>. HIDE DEF N, M, st
<1>3. ASSUME NEW x \in ToSet(st) PROVE x \in ToSet(s) \cup ToSet(t)
  <2>1. PICK k \in 1 .. N + M : x = st[k]
    BY <1>2 DEF ToSet
  <2>2. CASE k \in 1 .. N
    BY <1>1, <1>2, <2>1, <2>2 DEF ToSet
  <2>3. CASE k \notin 1 .. N
    <3>. DEFINE n == k - N
    <3>1. n \in 1 .. M /\ N + n = k
      BY <1>1, <2>3
    <3>. HIDE DEF n
    <3>2. x = t[n]
      BY <1>1, <2>1, <3>1
    <3>. QED BY <1>2, <3>1, <3>2 DEF ToSet
  <2>. QED BY <2>2, <2>3
<1>4. ASSUME NEW x \in ToSet(s) PROVE x \in ToSet(st)
  <2>1. PICK k \in 1 .. N : x = s[k]
    BY <1>2 DEF ToSet
  <2>2. k \in 1 .. N + M
    BY <1>1
  <2>3. x = st[k]
    BY <1>1, <2>1
  <2>. QED BY <1>2, <2>2, <2>3 DEF ToSet
<1>5. ASSUME NEW x \in ToSet(t) PROVE x \in ToSet(st)
  <2>1. PICK k \in 1 .. M : x = t[k]
    BY <1>2 DEF ToSet
  <2>. DEFINE n == N + k
  <2>2. n \in 1 .. N + M
    BY <1>1
  <2>3. x = st[n]
    BY <1>1, <2>1
  <2>. HIDE DEF n
  <2>. QED BY <1>2, <2>2, <2>3 DEF ToSet
<1>6. ToSet(st) = ToSet(s) \cup ToSet(t)
  BY <1>3, <1>4, <1>5
<1>. QED BY <1>1, <1>6 DEF st

LEMMA SameSequence ==
  ASSUME NEW S, NEW a \in Seq(S), NEW b \in Seq(S), Len(a) = Len(b),
         \A i \in 1 .. Len(a) : a[i] = b[i]
  PROVE  a = b
OBVIOUS

\* Where a place of a stretch lies.
LEMMA PlaceIn ==
  ASSUME NEW lo \in Nat, NEW n \in Nat, lo <= n, NEW i \in 1 .. n - lo
  PROVE  i \in Nat /\ 1 <= i /\ 1 <= lo + i /\ lo + i <= n /\ lo + i \in Nat
OBVIOUS

LEMMA StretchesJoin ==
  ASSUME NEW S, NEW c \in Seq(S), NEW lo \in Nat, NEW n \in Nat, NEW m \in Nat,
         lo <= n, n <= m, m <= Len(c)
  PROVE  SubSeq(c, lo + 1, n) \o SubSeq(c, n + 1, m) = SubSeq(c, lo + 1, m)
<1>. DEFINE a == SubSeq(c, lo + 1, n)
            b == SubSeq(c, n + 1, m)
            d == SubSeq(c, lo + 1, m)
<1>0. Len(c) \in Nat /\ DOMAIN c = 1 .. Len(c)
  OBVIOUS
<1>1. a \in Seq(S) /\ Len(a) = n - lo /\ \A i \in 1 .. n - lo : a[i] = c[lo + i]
  BY <1>0
<1>2. b \in Seq(S) /\ Len(b) = m - n /\ \A i \in 1 .. m - n : b[i] = c[n + i]
  BY <1>0
<1>3. d \in Seq(S) /\ Len(d) = m - lo /\ \A i \in 1 .. m - lo : d[i] = c[lo + i]
  BY <1>0
<1>. HIDE DEF a, b, d
<1>4. /\ a \o b \in Seq(S) /\ Len(a \o b) = Len(a) + Len(b)
      /\ \A i \in 1 .. Len(a) : (a \o b)[i] = a[i]
      /\ \A i \in 1 .. Len(b) : (a \o b)[Len(a) + i] = b[i]
  <2>1. a \in Seq(S) /\ b \in Seq(S)
    BY <1>1, <1>2
  <2>. QED BY ONLY <2>1, JoinedIs
<1>5. Len(a \o b) = m - lo /\ Len(a) = n - lo /\ Len(b) = m - n
  <2>1. Len(a) = n - lo /\ Len(b) = m - n /\ Len(a \o b) = Len(a) + Len(b)
    BY <1>1, <1>2, <1>4
  <2>. QED BY ONLY <2>1, n \in Nat, m \in Nat, lo \in Nat
<1>6. ASSUME NEW i \in 1 .. m - lo PROVE (a \o b)[i] = d[i]
  <2>1. CASE i <= n - lo
    <3>1. i \in 1 .. n - lo
      BY <2>1
    <3>2. (a \o b)[i] = a[i] /\ a[i] = c[lo + i]
      BY <1>1, <1>4, <1>5, <3>1
    <3>. QED BY <1>3, <3>2
  <2>2. CASE n - lo < i
    <3>. DEFINE k == i - (n - lo)
    <3>1. k \in 1 .. m - n /\ n + k = lo + i /\ (n - lo) + k = i
      BY <2>2
    <3>. HIDE DEF k
    <3>2. (a \o b)[(n - lo) + k] = b[k] /\ b[k] = c[n + k]
      BY <1>2, <1>4, <1>5, <3>1
    <3>. QED BY <1>3, <3>1, <3>2
  <2>3. i <= n - lo \/ n - lo < i
    <3>1. i \in Int /\ n - lo \in Int
      OBVIOUS
    <3>. QED BY ONLY <3>1
  <2>. QED BY <2>1, <2>2, <2>3
<1>7. a \o b = d
  <2>1. Len(a \o b) = Len(d) /\ \A i \in 1 .. Len(a \o b) : (a \o b)[i] = d[i]
    BY <1>3, <1>5, <1>6
  <2>2. a \o b \in Seq(S) /\ d \in Seq(S)
    BY <1>3, <1>4
  <2>. QED BY ONLY <2>1, <2>2, SameSequence
<1>. QED BY <1>7 DEF a, b, d

LEMMA StretchIs ==
  ASSUME ChainOK, NEW lo \in Nat, NEW n \in Nat, lo <= n, n <= Len(chain)
  PROVE  /\ SubSeq(chain, lo + 1, n) \in Seq(ToSet(chain))
         /\ Distinct(SubSeq(chain, lo + 1, n))
<1>. DEFINE a == SubSeq(chain, lo + 1, n)
<1>1. chain \in Seq(ToSet(chain)) /\ DOMAIN chain = 1 .. Len(chain) /\ Len(chain) \in Nat
      /\ Distinct(chain)
  BY ChainFacts
<1>2. a \in Seq(ToSet(chain)) /\ Len(a) = n - lo /\ DOMAIN a = 1 .. n - lo
      /\ \A i \in 1 .. n - lo : a[i] = chain[lo + i]
  BY <1>1
<1>. HIDE DEF a
<1>3. ASSUME NEW i \in DOMAIN a, NEW j \in DOMAIN a, i < j PROVE a[i] # a[j]
  <2>0. i \in 1 .. n - lo /\ j \in 1 .. n - lo
    BY <1>2
  <2>1. lo + i \in DOMAIN chain /\ lo + j \in DOMAIN chain /\ lo + i < lo + j
    <3>1. 1 <= lo + i /\ lo + i <= n /\ lo + i \in Nat /\ i \in Nat
          /\ 1 <= lo + j /\ lo + j <= n /\ lo + j \in Nat /\ j \in Nat
      BY <2>0, PlaceIn
    <3>2. 1 <= lo + i /\ lo + i <= Len(chain) /\ lo + i \in Nat
          /\ 1 <= lo + j /\ lo + j <= Len(chain) /\ lo + j \in Nat /\ lo + i < lo + j
      <4>1. n <= Len(chain) /\ Len(chain) \in Nat /\ lo \in Nat /\ n \in Nat
        BY <1>1
      <4>. QED BY ONLY <3>1, <4>1, i < j
    <3>. QED BY <1>1, <3>2
  <2>2. chain[lo + i] # chain[lo + j]
    BY <1>1, <2>1 DEF Distinct
  <2>. QED BY <1>2, <2>2
<1>. QED BY <1>2, <1>3 DEF Distinct, a

\* What a scan has collected is a stretch of the chain.
LEMMA CollectedIs ==
  ASSUME ChainOK, NEW s, s.cursor \in RpcCursor, ReadSoFar(s)
  PROVE  s.collected \in Seq(ToSet(chain)) /\ Distinct(s.collected)
<1>1. CASE s.collected = << >>
  BY <1>1 DEF Distinct
<1>2. CASE s.cursor # NoRpcCursor \/ s.collected # << >>
  <2>1. s.cursor.ledger \in 1 .. head /\ s.cursor.upTo <= EventsThrough(s.cursor.ledger)
    BY <1>2 DEF ReadSoFar
  <2>2. PICK lo \in 0 .. s.cursor.upTo : s.collected = SubSeq(chain, lo + 1, s.cursor.upTo)
    BY <1>2 DEF ReadSoFar
  <2>3. s.cursor.ledger \in Int /\ s.cursor.upTo \in Nat
    BY DEF RpcCursor
  <2>4. EventsThrough(s.cursor.ledger) \in Nat /\ EventsThrough(s.cursor.ledger) <= Len(chain)
    BY <2>3, ThroughIs
  <2>5. lo \in Nat /\ lo <= s.cursor.upTo /\ s.cursor.upTo <= Len(chain)
    BY <2>1, <2>3, <2>4, ChainFacts
  <2>. QED BY <2>2, <2>3, <2>5, StretchIs
<1>. QED BY <1>1, <1>2

\* The next read starts where the last one ended.
ContinuesAt(s, n) == s.cursor # NoRpcCursor => n = s.cursor.upTo

\* One more page leaves a longer stretch.
LEMMA ReadOn ==
  ASSUME ChainOK, NEW s, s.cursor \in RpcCursor, ReadSoFar(s),
         NEW n \in Nat, ContinuesAt(s, n),
         NEW g, PageFrom(g, n), NEW t, t.cursor = g.cursor, t.collected = s.collected \o g.events
  PROVE  ReadSoFar(t)
<1>. DEFINE m == g.cursor.upTo
<1>1. g.cursor \in RpcCursor /\ n <= m /\ m <= Len(chain) /\ g.events = SubSeq(chain, n + 1, m)
      /\ g.cursor.ledger \in 1 .. head /\ m <= EventsThrough(g.cursor.ledger) /\ m \in Nat
  BY DEF PageFrom, RpcCursor
<1>. HIDE DEF m
<1>2. chain \in Seq(ToSet(chain)) /\ Len(chain) \in Nat
  BY ChainFacts
<1>3. \E lo \in 0 .. m : t.collected = SubSeq(chain, lo + 1, m)
  <2>1. CASE s.cursor = NoRpcCursor /\ s.collected = << >>
    <3>1. g.events \in Seq(ToSet(chain))
      BY <1>1, StretchIs
    <3>2. t.collected = SubSeq(chain, n + 1, m)
      BY <1>1, <2>1, <3>1
    <3>3. n \in 0 .. m
      BY <1>1
    <3>. QED BY <3>2, <3>3
  <2>2. CASE s.cursor # NoRpcCursor \/ s.collected # << >>
    <3>1. PICK lo \in 0 .. s.cursor.upTo : s.collected = SubSeq(chain, lo + 1, s.cursor.upTo)
      BY <2>2 DEF ReadSoFar
    <3>2. s.cursor # NoRpcCursor
      <4>. SUFFICES ASSUME s.cursor = NoRpcCursor PROVE FALSE
        OBVIOUS
      <4>1. s.cursor.ledger \in 1 .. head
        BY <2>2 DEF ReadSoFar
      <4>. QED BY <4>1 DEF NoRpcCursor, ChainOK
    <3>3. n = s.cursor.upTo /\ lo \in Nat /\ lo <= n
      BY <3>1, <3>2 DEF ContinuesAt
    <3>4. t.collected = SubSeq(chain, lo + 1, n) \o SubSeq(chain, n + 1, m)
      BY <1>1, <3>1, <3>3
    <3>5. SubSeq(chain, lo + 1, n) \o SubSeq(chain, n + 1, m) = SubSeq(chain, lo + 1, m)
      <4>1. chain \in Seq(ToSet(chain)) /\ lo \in Nat /\ n \in Nat /\ m \in Nat
            /\ lo <= n /\ n <= m /\ m <= Len(chain)
        BY <1>1, <1>2, <3>3
      <4>. QED BY ONLY <4>1, StretchesJoin
    <3>6. lo \in 0 .. m
      BY <1>1, <3>3
    <3>. QED BY <3>4, <3>5, <3>6
  <2>3. (s.cursor = NoRpcCursor /\ s.collected = << >>) \/ s.cursor # NoRpcCursor \/ s.collected # << >>
    OBVIOUS
  <2>. QED BY <2>1, <2>2, <2>3
<1>. QED BY <1>1, <1>3 DEF ReadSoFar, m

-----------------------------------------------------------------------------
(* The chain grows. *)

\* What the closing of ledger l adds.
BlockOf(new, l) ==
  /\ new \in Seq(EmittedEvent)
  /\ \A i \in DOMAIN new : new[i].ledger = l
  /\ \A i, j \in DOMAIN new : i < j => InTurn(new[i], new[j])

LEMMA BlocksCarryEvents ==
  ASSUME NEW block \in Blocks, NEW l \in Nat
  PROVE  BlockOf([i \in DOMAIN block |-> InLedger(block[i], l)], l)
<1>. DEFINE new == [i \in DOMAIN block |-> InLedger(block[i], l)]
<1>1. block \in Seq(ToSet(block))
  BY BlocksAssumption
<1>2. DOMAIN block = 1 .. Len(block) /\ Len(block) \in Nat
  BY <1>1
<1>3. ASSUME NEW i \in DOMAIN block
      PROVE  /\ new[i] \in EmittedEvent /\ new[i].ledger = l
             /\ new[i].tx = block[i].tx /\ new[i].op = block[i].op
             /\ new[i].index = block[i].index
  <2>. DEFINE e == block[i]
  <2>1. e \in ToSet(block)
    BY DEF ToSet
  <2>. HIDE DEF e
  <2>2. e \in Emissions
    BY <2>1 DEF Emissions
  <2>3. "tx" \in DOMAIN e /\ "op" \in DOMAIN e /\ "index" \in DOMAIN e
    BY <2>1, BlocksAssumption
  <2>4. new[i] = InLedger(e, l)
    BY DEF e
  <2>5. new[i] \in EmittedEvent
    BY <2>2, <2>4 DEF EmittedEvent
  <2>6. /\ InLedger(e, l).ledger = l /\ InLedger(e, l).tx = e.tx
        /\ InLedger(e, l).op = e.op /\ InLedger(e, l).index = e.index
    BY <2>3 DEF InLedger
  <2>. HIDE DEF new
  <2>. QED BY <2>4, <2>5, <2>6 DEF e
<1>4. new \in Seq(EmittedEvent) /\ DOMAIN new = DOMAIN block
  <2>1. new \in [1 .. Len(block) -> EmittedEvent]
    BY <1>2, <1>3
  <2>. HIDE DEF new
  <2>. QED BY <1>2, <2>1
<1>. HIDE DEF new
<1>5. ASSUME NEW i \in DOMAIN new, NEW j \in DOMAIN new, i < j
      PROVE  InTurn(new[i], new[j])
  <2>1. i \in DOMAIN block /\ j \in DOMAIN block
    BY <1>4
  <2>2. block[i].tx = block[j].tx =>
          \/ block[i].op < block[j].op
          \/ block[i].op = block[j].op /\ block[i].index < block[j].index
    BY <1>5, <2>1, BlocksAssumption
  <2>. QED BY <1>3, <2>1, <2>2 DEF InTurn
<1>. QED BY <1>3, <1>4, <1>5 DEF BlockOf, new

\* c with more behind it.
Extends(d, c) ==
  /\ DOMAIN c \subseteq DOMAIN d
  /\ \A i \in DOMAIN c : d[i] = c[i]

LEMMA ChainGrows ==
  ASSUME ChainOK, CloseLedger
  PROVE  /\ ChainOK' /\ head' = head + 1 /\ oldest' = oldest
         /\ Extends(chain', chain) /\ Len(chain) <= Len(chain')
         /\ \A ev \in ToSet(chain') : ev \in ToSet(chain) \/ ev.ledger = head + 1
<1>0. head \in Nat /\ oldest \in Nat /\ 1 <= oldest /\ oldest <= head
  BY DEF ChainOK
<1>1. head' = head + 1 /\ oldest' = oldest
  BY DEF CloseLedger
<1>2. PICK block \in Blocks :
        chain' = chain \o [i \in DOMAIN block |-> InLedger(block[i], head + 1)]
  BY DEF CloseLedger
<1>. DEFINE new == [i \in DOMAIN block |-> InLedger(block[i], head + 1)]
            l == head + 1
<1>3. l \in Nat /\ l = head + 1
  BY <1>0
<1>4. BlockOf(new, l)
  BY <1>3, BlocksCarryEvents
<1>5. chain' = chain \o new
  BY <1>2
<1>. HIDE DEF new, l
<1>6. chain \in Seq(EmittedEvent) /\ new \in Seq(EmittedEvent)
  BY <1>4 DEF ChainOK, BlockOf
<1>7. DOMAIN chain = 1 .. Len(chain) /\ Len(chain) \in Nat
      /\ DOMAIN new = 1 .. Len(new) /\ Len(new) \in Nat
  BY <1>6
<1>8. chain' \in Seq(EmittedEvent) /\ DOMAIN chain' = 1 .. Len(chain) + Len(new)
      /\ Len(chain') = Len(chain) + Len(new)
  BY <1>5, <1>6
<1>9. \A i \in DOMAIN chain : i \in DOMAIN chain' /\ chain'[i] = chain[i]
  BY <1>5, <1>6, <1>7, <1>8
<1>10. ASSUME NEW i \in DOMAIN chain', i \notin DOMAIN chain
       PROVE  i - Len(chain) \in DOMAIN new /\ chain'[i] = new[i - Len(chain)]
  BY <1>5, <1>6, <1>7, <1>8, <1>10
<1>11. \A i \in DOMAIN chain : chain[i].ledger \in 1 .. head
  BY DEF ChainOK
<1>12. \A i \in DOMAIN new : new[i].ledger = l
  BY <1>4 DEF BlockOf
<1>13. \A i \in DOMAIN chain' : chain'[i].ledger \in 1 .. head'
  BY <1>0, <1>1, <1>3, <1>9, <1>10, <1>11, <1>12
<1>14. ASSUME NEW i \in DOMAIN chain', NEW j \in DOMAIN chain', i < j
       PROVE  InTurn(chain'[i], chain'[j])
  <2>1. CASE i \in DOMAIN chain /\ j \in DOMAIN chain
    BY <1>9, <1>14, <2>1 DEF ChainOK
  <2>2. CASE i \in DOMAIN chain /\ j \notin DOMAIN chain
    <3>1. chain'[i].ledger \in 1 .. head /\ chain'[j].ledger = l
      BY <1>9, <1>10, <1>11, <1>12, <2>2
    <3>2. chain'[i].ledger < chain'[j].ledger /\ chain'[i].ledger # chain'[j].ledger
          /\ chain'[i].ledger <= chain'[j].ledger
      BY <1>0, <1>3, <3>1
    <3>. QED BY <3>2 DEF InTurn
  <2>3. CASE i \notin DOMAIN chain /\ j \notin DOMAIN chain
    <3>1. i - Len(chain) \in DOMAIN new /\ j - Len(chain) \in DOMAIN new
          /\ chain'[i] = new[i - Len(chain)] /\ chain'[j] = new[j - Len(chain)]
      BY <1>10, <2>3
    <3>2. i - Len(chain) < j - Len(chain)
      BY <1>7, <1>8, <1>14
    <3>3. InTurn(new[i - Len(chain)], new[j - Len(chain)])
      BY <1>4, <3>1, <3>2 DEF BlockOf
    <3>. QED BY <3>1, <3>3
  <2>4. CASE i \notin DOMAIN chain /\ j \in DOMAIN chain
    BY <1>7, <1>8, <1>14, <2>4
  <2>. QED BY <2>1, <2>2, <2>3, <2>4
<1>15. head' \in Nat /\ oldest' \in Nat /\ 1 <= oldest' /\ oldest' <= head'
  BY <1>0, <1>1
<1>16. ChainOK'
  BY <1>8, <1>13, <1>14, <1>15 DEF ChainOK
<1>17. \A ev \in ToSet(chain') : ev \in ToSet(chain) \/ ev.ledger = head + 1
  BY <1>3, <1>9, <1>10, <1>12 DEF ToSet
<1>. QED BY <1>1, <1>7, <1>8, <1>9, <1>16, <1>17 DEF Extends

\* What is said of a stretch, an extended chain says too.
Through(c, l) == Cardinality({i \in DOMAIN c : c[i].ledger <= l})

ReadIn(s, c, h) ==
  \/ s.cursor = NoRpcCursor /\ s.collected = << >>
  \/ /\ s.cursor.ledger \in 1 .. h
     /\ s.cursor.upTo <= Through(c, s.cursor.ledger)
     /\ \E lo \in 0 .. s.cursor.upTo : s.collected = SubSeq(c, lo + 1, s.cursor.upTo)

LEMMA StretchStays ==
  ASSUME NEW S, NEW c \in Seq(S), NEW d \in Seq(S), Extends(d, c), Len(c) <= Len(d),
         NEW lo \in Nat, NEW n \in Nat, lo <= n, n <= Len(c)
  PROVE  SubSeq(d, lo + 1, n) = SubSeq(c, lo + 1, n)
<1>. DEFINE a == SubSeq(c, lo + 1, n)
            b == SubSeq(d, lo + 1, n)
<1>0. Len(c) \in Nat /\ DOMAIN c = 1 .. Len(c) /\ Len(d) \in Nat /\ DOMAIN d = 1 .. Len(d)
      /\ n <= Len(d)
  OBVIOUS
<1>1. a \in Seq(S) /\ Len(a) = n - lo /\ \A i \in 1 .. n - lo : a[i] = c[lo + i]
  BY <1>0
<1>2. b \in Seq(S) /\ Len(b) = n - lo /\ \A i \in 1 .. n - lo : b[i] = d[lo + i]
  BY <1>0
<1>. HIDE DEF a, b
<1>3. ASSUME NEW i \in 1 .. n - lo PROVE b[i] = a[i]
  <2>1. 1 <= lo + i /\ lo + i <= n /\ lo + i \in Nat
    BY PlaceIn
  <2>2. lo + i \in DOMAIN c
    BY <1>0, <2>1
  <2>3. d[lo + i] = c[lo + i]
    BY <2>2 DEF Extends
  <2>. QED BY <1>1, <1>2, <2>3
<1>4. b = a
  <2>1. Len(b) = Len(a) /\ \A i \in 1 .. Len(b) : b[i] = a[i]
    BY <1>1, <1>2, <1>3
  <2>2. a \in Seq(S) /\ b \in Seq(S)
    BY <1>1, <1>2
  <2>. QED BY ONLY <2>1, <2>2, SameSequence
<1>. QED BY <1>4 DEF a, b

LEMMA ThroughStays ==
  ASSUME NEW c \in Seq(EmittedEvent), NEW d \in Seq(EmittedEvent), Extends(d, c), NEW l \in Int
  PROVE  /\ Through(c, l) \in Nat /\ Through(d, l) \in Nat
         /\ Through(c, l) <= Through(d, l) /\ Through(c, l) <= Len(c)
<1>. DEFINE C == {i \in DOMAIN c : c[i].ledger <= l}
            D == {i \in DOMAIN d : d[i].ledger <= l}
            N == Len(d)
            M == Len(c)
<1>1. N \in Nat /\ DOMAIN d = 1 .. N /\ M \in Nat /\ DOMAIN c = 1 .. M
  OBVIOUS
<1>2. C \in SUBSET D /\ D \in SUBSET (1 .. N) /\ C \in SUBSET (1 .. M)
  <2>. HIDE DEF N, M
  <2>. QED BY <1>1 DEF Extends
<1>. HIDE DEF C, D, N, M
<1>3. IsFiniteSet(1 .. N)
  BY <1>1, FS_Interval
<1>4. IsFiniteSet(D)
  BY <1>2, <1>3, FS_Subset
<1>5. IsFiniteSet(C) /\ Cardinality(C) <= Cardinality(D)
  BY <1>2, <1>4, FS_Subset
<1>6. IsFiniteSet(1 .. M) /\ Cardinality(1 .. M) = M
  <2>1. Cardinality(1 .. M) = IF 1 > M THEN 0 ELSE M - 1 + 1
    BY <1>1, FS_Interval
  <2>. QED BY <1>1, <2>1, FS_Interval
<1>7. Cardinality(C) <= M
  BY <1>2, <1>6, FS_Subset
<1>8. Cardinality(C) \in Nat /\ Cardinality(D) \in Nat
  BY <1>4, <1>5, FS_CardinalityType
<1>. QED BY <1>5, <1>7, <1>8 DEF Through, C, D, M

LEMMA ReadInStays ==
  ASSUME NEW c \in Seq(EmittedEvent), NEW d \in Seq(EmittedEvent), Extends(d, c),
         Len(c) <= Len(d), NEW h \in Nat, NEW k \in Nat, h <= k,
         NEW s, s.cursor \in RpcCursor, ReadIn(s, c, h)
  PROVE  ReadIn(s, d, k)
<1>1. CASE s.cursor = NoRpcCursor /\ s.collected = << >>
  BY <1>1 DEF ReadIn
<1>2. CASE /\ s.cursor.ledger \in 1 .. h
           /\ s.cursor.upTo <= Through(c, s.cursor.ledger)
           /\ \E lo \in 0 .. s.cursor.upTo : s.collected = SubSeq(c, lo + 1, s.cursor.upTo)
  <2>. DEFINE n == s.cursor.upTo
              l == s.cursor.ledger
  <2>1. n \in Nat /\ l \in Nat /\ l \in Int /\ l \in 1 .. k /\ n <= Through(c, l)
    <3>1. n \in Nat /\ l \in Nat /\ l \in 1 .. h /\ n <= Through(c, l)
      BY <1>2 DEF RpcCursor
    <3>. HIDE DEF n, l
    <3>2. l \in 1 .. k
      BY <3>1
    <3>. QED BY <3>1, <3>2
  <2>2. PICK lo \in 0 .. n : s.collected = SubSeq(c, lo + 1, n)
    BY <1>2
  <2>. HIDE DEF n, l
  <2>3. /\ Through(c, l) \in Nat /\ Through(d, l) \in Nat
        /\ Through(c, l) <= Through(d, l) /\ Through(c, l) <= Len(c) /\ Len(c) \in Nat
    BY <2>1, ThroughStays
  <2>4. lo \in Nat /\ lo <= n /\ n <= Len(c) /\ n <= Through(d, l)
    BY <2>1, <2>2, <2>3
  <2>5. SubSeq(d, lo + 1, n) = SubSeq(c, lo + 1, n)
    <3>1. c \in Seq(EmittedEvent) /\ d \in Seq(EmittedEvent) /\ Extends(d, c) /\ Len(c) <= Len(d)
      OBVIOUS
    <3>. QED BY ONLY <2>1, <2>4, <3>1, StretchStays
  <2>. QED BY <2>1, <2>2, <2>4, <2>5 DEF ReadIn, n, l
<1>. QED BY <1>1, <1>2 DEF ReadIn

-----------------------------------------------------------------------------
(* The passes. *)

PassIn(q, c, h) ==
  \/ q = Idle
  \/ q \in [phase : {"health"}, from : Nat]
  \/ /\ q \in [ phase : {"scan", "store"}, start : Nat, head : Nat, calls : Nat,
                cursor : [ledger : Nat, upTo : Nat], collected : Seq(ToSet(c)) ]
     /\ 1 <= q.start /\ q.start <= q.head /\ q.head <= h
     /\ ReadIn(q, c, h)

LEMMA PassInStays ==
  ASSUME NEW c \in Seq(EmittedEvent), NEW d \in Seq(EmittedEvent), Extends(d, c),
         Len(c) <= Len(d), NEW h \in Nat, NEW k \in Nat, h <= k,
         NEW q, PassIn(q, c, h)
  PROVE  PassIn(q, d, k)
<1>1. CASE q = Idle \/ q \in [phase : {"health"}, from : Nat]
  BY <1>1 DEF PassIn
<1>2. CASE /\ q \in [ phase : {"scan", "store"}, start : Nat, head : Nat, calls : Nat,
                      cursor : [ledger : Nat, upTo : Nat], collected : Seq(ToSet(c)) ]
           /\ 1 <= q.start /\ q.start <= q.head /\ q.head <= h
           /\ ReadIn(q, c, h)
  <2>1. q.cursor \in RpcCursor
    BY <1>2 DEF RpcCursor
  <2>2. ReadIn(q, d, k)
    BY <1>2, <2>1, ReadInStays
  <2>3. q.head <= k
    BY <1>2
  <2>4. ToSet(c) \subseteq ToSet(d)
    BY DEF Extends, ToSet
  <2>5. q.collected \in Seq(ToSet(d))
    <3>1. q.collected \in Seq(ToSet(c))
      BY <1>2
    <3>. QED BY ONLY <2>4, <3>1
  <2>6. q \in [ phase : {"scan", "store"}, start : Nat, head : Nat, calls : Nat,
                cursor : [ledger : Nat, upTo : Nat], collected : Seq(ToSet(d)) ]
    BY <1>2, <2>5
  <2>. QED BY <1>2, <2>2, <2>3, <2>6 DEF PassIn
<1>. QED BY <1>1, <1>2 DEF PassIn

LEMMA PassOKIs ==
  ASSUME NEW p \in Passes
  PROVE  /\ PassOK(p) <=> PassIn(pass[p], chain, head)
         /\ PassOK(p)' <=> PassIn(pass'[p], chain', head')
BY DEF PassOK, PassIn, ReadSoFar, ReadIn, Scan, EventsThrough, Through

LEMMA PassesGrow ==
  ASSUME ChainOK, ChainOK', PassesOK, pass' = pass,
         Extends(chain', chain), Len(chain) <= Len(chain'), head <= head'
  PROVE  PassesOK'
<1>1. chain \in Seq(EmittedEvent) /\ chain' \in Seq(EmittedEvent) /\ head \in Nat /\ head' \in Nat
  BY DEF ChainOK
<1>2. ASSUME NEW p \in Passes PROVE PassOK(p)'
  <2>1. PassIn(pass[p], chain, head)
    BY PassOKIs DEF PassesOK
  <2>2. PassIn(pass'[p], chain', head')
    BY <1>1, <2>1, PassInStays
  <2>. QED BY <2>2, PassOKIs
<1>. QED BY <1>2 DEF PassesOK

LEMMA PassesTurn ==
  ASSUME PassesOK, chain' = chain, head' = head, NEW p \in Passes,
         pass' = [pass EXCEPT ![p] = pass'[p]], PassIn(pass'[p], chain, head)
  PROVE  PassesOK'
<1>1. DOMAIN pass = Passes
  BY DEF PassesOK
<1>2. DOMAIN pass' = Passes /\ \A r \in Passes \ {p} : pass'[r] = pass[r]
  <2>. DEFINE q == pass'[p]
  <2>1. pass' = [pass EXCEPT ![p] = q]
    OBVIOUS
  <2>. HIDE DEF q
  <2>. QED BY <1>1, <2>1
<1>3. ASSUME NEW r \in Passes PROVE PassOK(r)'
  <2>1. CASE r = p
    BY <2>1, PassOKIs
  <2>2. CASE r # p
    <3>1. PassIn(pass[r], chain, head)
      BY PassOKIs DEF PassesOK
    <3>2. PassIn(pass'[r], chain', head')
      BY <1>2, <2>2, <3>1
    <3>. QED BY <3>2, PassOKIs
  <2>. QED BY <2>1, <2>2
<1>. QED BY <1>2, <1>3 DEF PassesOK

-----------------------------------------------------------------------------
(* The archive keeps its invariant. *)

LEMMA InitArchive == Init => ArchiveInv
<1>. SUFFICES ASSUME Init PROVE ArchiveInv
  OBVIOUS
<1>. USE DEF Init, RpcInit
<1>1. Retention \in Nat /\ Retention # 0
  BY RpcAssumption
<1>2. chain = << >> /\ ToSet(chain) = {} /\ head = Retention /\ oldest = 1
  BY DEF ToSet
<1>3. ChainOK
  BY <1>1, <1>2 DEF ChainOK
<1>4. StoreOf(store, ToSet(chain), head)
  <2>1. head \in Nat
    BY <1>1, <1>2
  <2>. QED BY <2>1, EmptyStoreIs
<1>5. PassesOK
  BY DEF PassesOK, PassOK
<1>6. CompleteUnlessCut
  BY <1>2 DEF CompleteUnlessCut
<1>. QED BY <1>3, <1>4, <1>5, <1>6 DEF ArchiveInv

\* A store of the chain is one of a longer chain.
LEMMA StoreOfMore ==
  ASSUME NEW E, NEW F, E \subseteq F, NEW h \in Nat, NEW k \in Nat, h <= k,
         NEW st, StoreOf(st, E, h)
  PROVE  StoreOf(st, F, k)
<1>1. st.events \in Seq(F)
  <2>1. st.events \in Seq(E)
    BY DEF StoreOf
  <2>. QED BY ONLY <2>1, E \subseteq F
<1>2. st.ranges \in Seq(RangesUpTo(k))
  <2>1. RangesUpTo(h) \subseteq RangesUpTo(k)
    BY DEF RangesUpTo
  <2>2. st.ranges \in Seq(RangesUpTo(h))
    BY DEF StoreOf
  <2>. QED BY ONLY <2>1, <2>2
<1>3. st.latestLedger \in 0 .. k
  BY DEF StoreOf
<1>. QED BY <1>1, <1>2, <1>3 DEF StoreOf

LEMMA ClaimedIs ==
  ASSUME NEW st, NEW E, NEW h \in Nat, StoreOf(st, E, h)
  PROVE  Claimed(st) = Ledgers(st.ranges) /\ Claimed(st) \subseteq 1 .. h
<1>1. Claimed(st) = Ledgers(st.ranges)
  BY DEF Claimed, Ledgers
<1>2. \A r \in ToSet(st.ranges) : r \in RangesUpTo(h)
  BY DEF StoreOf, ToSet
<1>3. ASSUME NEW r \in RangesUpTo(h) PROVE r[1] .. r[2] \subseteq 1 .. h
  BY <1>3 DEF RangesUpTo
<1>4. Claimed(st) \subseteq 1 .. h
  BY <1>2, <1>3 DEF Claimed
<1>. QED BY <1>1, <1>4

LEMMA CloseLedgerArchive ==
  ASSUME ArchiveInv, CloseLedger, UNCHANGED <<store, pass, cut>>
  PROVE  ArchiveInv'
<1>1. ChainOK /\ StoreOf(store, ToSet(chain), head) /\ PassesOK /\ CompleteUnlessCut
  BY DEF ArchiveInv
<1>2. /\ ChainOK' /\ head' = head + 1
      /\ Extends(chain', chain) /\ Len(chain) <= Len(chain')
      /\ \A ev \in ToSet(chain') : ev \in ToSet(chain) \/ ev.ledger = head + 1
  BY <1>1, ChainGrows
<1>3. head \in Nat /\ head' \in Nat /\ head <= head'
  BY <1>1, <1>2 DEF ChainOK
<1>4. ToSet(chain) \subseteq ToSet(chain')
  BY <1>2 DEF Extends, ToSet
<1>5. StoreOf(store, ToSet(chain'), head')
  BY <1>1, <1>3, <1>4, StoreOfMore
<1>6. PassesOK'
  BY <1>1, <1>2, <1>3, PassesGrow
<1>7. ASSUME NEW ev \in ToSet(chain'), ev.ledger \in Claimed(store)
      PROVE  ev \in ToSet(store.events) \cup cut \/ Shadowed(ev, ToSet(store.events))
  <2>1. Claimed(store) \subseteq 1 .. head
    BY <1>1, <1>3, ClaimedIs
  <2>2. head + 1 \notin 1 .. head
    BY <1>3
  <2>3. ev \in ToSet(chain)
    BY <1>2, <1>7, <2>1, <2>2
  <2>. QED BY <1>1, <1>7, <2>3 DEF CompleteUnlessCut
<1>8. CompleteUnlessCut'
  BY <1>7 DEF CompleteUnlessCut
<1>. QED BY <1>2, <1>5, <1>6, <1>8 DEF ArchiveInv

LEMMA ExpireArchive ==
  ASSUME ArchiveInv, Expire, UNCHANGED <<store, pass, cut>>
  PROVE  ArchiveInv'
<1>1. ChainOK /\ StoreOf(store, ToSet(chain), head) /\ PassesOK /\ CompleteUnlessCut
  BY DEF ArchiveInv
<1>2. oldest + Retention <= head /\ oldest' = oldest + 1 /\ chain' = chain /\ head' = head
  BY DEF Expire
<1>3. ChainOK'
  <2>1. Retention \in Nat /\ Retention # 0
    BY RpcAssumption
  <2>. QED BY <1>1, <1>2, <2>1 DEF ChainOK
<1>4. PassesOK'
  <2>1. Extends(chain', chain) /\ Len(chain) <= Len(chain') /\ head <= head'
    BY <1>1, <1>2 DEF Extends, ChainOK
  <2>. QED BY <1>1, <1>3, <2>1, PassesGrow
<1>5. CompleteUnlessCut'
  BY <1>1, <1>2 DEF CompleteUnlessCut
<1>. QED BY <1>1, <1>2, <1>3, <1>4, <1>5 DEF ArchiveInv

LEMMA RestartArchive ==
  ASSUME ArchiveInv, Restart
  PROVE  ArchiveInv'
<1>1. ChainOK /\ chain' = chain /\ head' = head /\ oldest' = oldest
  BY DEF ArchiveInv, Restart, rpcVars
<1>2. store' = EmptyStore /\ pass' = [p \in Passes |-> Idle]
  BY DEF Restart
<1>3. ChainOK'
  BY <1>1 DEF ChainOK
<1>4. StoreOf(store', ToSet(chain'), head')
  <2>1. head' \in Nat
    BY <1>1 DEF ChainOK
  <2>. QED BY <1>2, <2>1, EmptyStoreIs
<1>5. PassesOK'
  BY <1>2 DEF PassesOK, PassOK
<1>6. CompleteUnlessCut'
  <2>1. Claimed(store') = {}
    BY <1>2 DEF Claimed, EmptyStore, ToSet
  <2>. QED BY <2>1 DEF CompleteUnlessCut
<1>. QED BY <1>3, <1>4, <1>5, <1>6 DEF ArchiveInv

LEMMA PassTurns ==
  ASSUME ArchiveInv, PassesOK', UNCHANGED <<rpcVars, store, cut>>
  PROVE  ArchiveInv'
<1>1. ChainOK /\ StoreOf(store, ToSet(chain), head) /\ CompleteUnlessCut
      /\ chain' = chain /\ head' = head /\ oldest' = oldest /\ store' = store /\ cut' = cut
  BY DEF ArchiveInv, rpcVars
<1>2. ChainOK' /\ CompleteUnlessCut'
  BY <1>1 DEF ChainOK, CompleteUnlessCut
<1>. QED BY <1>1, <1>2 DEF ArchiveInv

LEMMA FirstRangeIs ==
  ASSUME NEW E, NEW h \in Nat, NEW st, StoreOf(st, E, h)
  PROVE  IngestedFrom(st) \in 0 .. h /\ IngestedThrough(st) \in 0 .. h
<1>1. CASE st.ranges = << >>
  BY <1>1 DEF IngestedFrom, IngestedThrough
<1>2. CASE st.ranges # << >>
  <2>1. st.ranges[1] \in RangesUpTo(h)
    <3>1. st.ranges \in Seq(RangesUpTo(h))
      BY DEF StoreOf
    <3>. QED BY ONLY <1>2, <3>1
  <2>. QED BY <1>2, <2>1 DEF RangesUpTo, IngestedFrom, IngestedThrough
<1>. QED BY <1>1, <1>2

LEMMA StartPassArchive ==
  ASSUME ArchiveInv, NEW p \in Passes, StartPass(p)
  PROVE  ArchiveInv'
<1>. DEFINE through == IngestedThrough(store)
            from == IF through # 0 THEN through + 1 ELSE FromLedger
            q == [phase |-> "health", from |-> from]
<1>1. ChainOK /\ StoreOf(store, ToSet(chain), head) /\ PassesOK /\ head \in Nat
  BY DEF ArchiveInv, ChainOK
<1>2. pass' = [pass EXCEPT ![p] = q] /\ UNCHANGED <<rpcVars, store, errors, restarts, cut>>
  BY DEF StartPass
<1>3. from \in Nat
  <2>1. through \in 0 .. head /\ FromLedger \in Nat
    BY <1>1, FirstRangeIs, ArchiveAssumption
  <2>. HIDE DEF through
  <2>. QED BY <1>1, <2>1
<1>. HIDE DEF from
<1>4. q \in [phase : {"health"}, from : Nat]
  BY <1>3
<1>. HIDE DEF q
<1>5. pass'[p] = q /\ pass' = [pass EXCEPT ![p] = pass'[p]]
  <2>1. DOMAIN pass = Passes
    BY <1>1 DEF PassesOK
  <2>. QED BY <1>2, <2>1
<1>6. PassIn(pass'[p], chain, head)
  BY <1>4, <1>5 DEF PassIn
<1>7. chain' = chain /\ head' = head
  BY <1>2 DEF rpcVars
<1>8. PassesOK'
  BY <1>1, <1>5, <1>6, <1>7, PassesTurn
<1>. QED BY <1>2, <1>8, PassTurns

\* A pass in its scan, or about to store.
LEMMA ScanIs ==
  ASSUME PassesOK, NEW p \in Passes, pass[p].phase \in {"scan", "store"}
  PROVE  /\ pass[p] \in Scan
         /\ 1 <= pass[p].start /\ pass[p].start <= pass[p].head /\ pass[p].head <= head
         /\ ReadSoFar(pass[p])
<1>1. PassOK(p)
  BY DEF PassesOK
<1>2. pass[p] # Idle
  BY DEF Idle
<1>. QED BY <1>1, <1>2 DEF PassOK

LEMMA HealthArchive ==
  ASSUME ArchiveInv, NEW p \in Passes, Health(p)
  PROVE  ArchiveInv'
<1>. DEFINE start == Max({pass[p].from, oldest})
            scan == [ phase |-> "scan", start |-> start, head |-> head, calls |-> 0,
                      cursor |-> NoRpcCursor, collected |-> << >> ]
            q == IF start > head THEN Idle ELSE scan
<1>1. ChainOK /\ PassesOK /\ head \in Nat /\ oldest \in Nat /\ 1 <= oldest
  BY DEF ArchiveInv, ChainOK
<1>2. pass[p].phase = "health" /\ pass' = [pass EXCEPT ![p] = q]
      /\ UNCHANGED <<rpcVars, store, errors, restarts, cut>>
  BY DEF Health
<1>3. pass[p].from \in Nat
  <2>1. PassOK(p)
    BY <1>1 DEF PassesOK
  <2>. QED BY <1>2, <2>1 DEF PassOK, Idle, Scan
<1>4. start \in Nat /\ 1 <= start
  <2>1. start = IF pass[p].from <= oldest THEN oldest ELSE pass[p].from
    BY <1>1, <1>3, LargerOf
  <2>. HIDE DEF start
  <2>. QED BY <1>1, <1>3, <2>1
<1>. HIDE DEF start
<1>5. PassIn(q, chain, head)
  <2>1. CASE start > head
    BY <2>1 DEF PassIn
  <2>2. CASE ~ (start > head)
    <3>1. q = scan
      BY <2>2
    <3>2. << >> \in Seq(ToSet(chain)) /\ NoRpcCursor \in [ledger : Nat, upTo : Nat]
      BY DEF NoRpcCursor
    <3>3. scan \in [ phase : {"scan", "store"}, start : Nat, head : Nat, calls : Nat,
                     cursor : [ledger : Nat, upTo : Nat], collected : Seq(ToSet(chain)) ]
      BY <1>1, <1>4, <3>2
    <3>4. 1 <= scan.start /\ scan.start <= scan.head /\ scan.head <= head
      BY <1>1, <1>4, <2>2
    <3>5. ReadIn(scan, chain, head)
      BY DEF ReadIn
    <3>. HIDE DEF scan, q
    <3>. QED BY <3>1, <3>3, <3>4, <3>5 DEF PassIn
  <2>. QED BY <2>1, <2>2
<1>. HIDE DEF q
<1>6. pass'[p] = q /\ pass' = [pass EXCEPT ![p] = pass'[p]]
  <2>1. DOMAIN pass = Passes
    BY <1>1 DEF PassesOK
  <2>. QED BY <1>2, <2>1
<1>7. chain' = chain /\ head' = head
  BY <1>2 DEF rpcVars
<1>8. PassesOK'
  BY <1>1, <1>5, <1>6, <1>7, PassesTurn
<1>. QED BY <1>2, <1>8, PassTurns

LEMMA EndPassArchive ==
  ASSUME ArchiveInv, NEW p \in Passes, ScanExpired(p) \/ RpcError(p)
  PROVE  ArchiveInv'
<1>1. PassesOK
  BY DEF ArchiveInv
<1>2. pass' = [pass EXCEPT ![p] = Idle] /\ UNCHANGED <<rpcVars, store, cut>>
  BY DEF ScanExpired, RpcError
<1>3. pass'[p] = Idle /\ pass' = [pass EXCEPT ![p] = pass'[p]]
  <2>1. DOMAIN pass = Passes
    BY <1>1 DEF PassesOK
  <2>. QED BY <1>2, <2>1
<1>4. PassIn(pass'[p], chain, head)
  BY <1>3 DEF PassIn
<1>5. chain' = chain /\ head' = head
  BY <1>2 DEF rpcVars
<1>6. PassesOK'
  BY <1>1, <1>3, <1>4, <1>5, PassesTurn
<1>. QED BY <1>2, <1>6, PassTurns

\* What a scan holds after one more page.
LEMMA NextPageIs ==
  ASSUME ChainOK, NEW s \in Scan, 1 <= s.start, s.start <= head, ReadSoFar(s),
         NEW page, page = GetEvents(NextRead(s.start, s.cursor).ledger,
                                    NextRead(s.start, s.cursor).upTo),
         NEW t, t.cursor = page.cursor, t.collected = s.collected \o page.events
  PROVE  /\ t.cursor \in RpcCursor /\ t.collected \in Seq(ToSet(chain))
         /\ ReadSoFar(t)
<1>. DEFINE read == NextRead(s.start, s.cursor)
<1>1. s.cursor \in RpcCursor /\ s.start \in 1 .. head
  BY DEF Scan, RpcCursor, ChainOK
<1>2. /\ read.ledger \in Nat /\ 1 <= read.ledger
      /\ read.upTo \in Nat /\ read.upTo <= EventsThrough(Scanned(read.ledger))
      /\ s.cursor # NoRpcCursor => read.upTo = s.cursor.upTo
  BY <1>1, NextReadGoesOn
<1>3. page = GetEvents(read.ledger, read.upTo)
  OBVIOUS
<1>. DEFINE l == read.ledger
            n == read.upTo
<1>. HIDE DEF read
<1>4. PageFrom(page, n)
  <2>1. l \in Nat /\ 1 <= l /\ n \in Nat /\ n <= EventsThrough(Scanned(l))
    BY <1>2
  <2>. HIDE DEF l, n
  <2>2. PageFrom(GetEvents(l, n), n)
    BY <2>1, GetEventsPages
  <2>. QED BY <1>3, <2>2 DEF l, n
<1>5. n \in Nat /\ ContinuesAt(s, n)
  BY <1>2 DEF ContinuesAt
<1>. HIDE DEF n
<1>6. ReadSoFar(t)
  BY <1>1, <1>4, <1>5, ReadOn
<1>7. t.cursor \in RpcCursor
  BY ONLY <1>4, t.cursor = page.cursor DEF PageFrom
<1>. QED BY <1>6, <1>7, CollectedIs

ScanAfter(s, a, b, c, d) ==
  [s EXCEPT !.phase = a, !.calls = b, !.cursor = c, !.collected = d]

LEMMA ScanWith ==
  ASSUME NEW ph, NEW st, NEW hd, NEW ca, NEW cu, NEW co, NEW a, NEW b, NEW c, NEW d, NEW s,
         s = [ phase |-> ph, start |-> st, head |-> hd, calls |-> ca, cursor |-> cu,
               collected |-> co ]
  PROVE  ScanAfter(s, a, b, c, d) =
           [ phase |-> a, start |-> st, head |-> hd, calls |-> b, cursor |-> c,
             collected |-> d ]
<1>. DEFINE t == [s EXCEPT !.phase = a]
            u == [t EXCEPT !.calls = b]
            v == [u EXCEPT !.cursor = c]
            w == [v EXCEPT !.collected = d]
<1>1. t = [ phase |-> a, start |-> st, head |-> hd, calls |-> ca, cursor |-> cu, collected |-> co ]
  OBVIOUS
<1>. HIDE DEF t
<1>2. u = [ phase |-> a, start |-> st, head |-> hd, calls |-> b, cursor |-> cu, collected |-> co ]
  BY ONLY <1>1
<1>. HIDE DEF u
<1>3. v = [ phase |-> a, start |-> st, head |-> hd, calls |-> b, cursor |-> c, collected |-> co ]
  BY ONLY <1>2
<1>. HIDE DEF v
<1>4. w = [ phase |-> a, start |-> st, head |-> hd, calls |-> b, cursor |-> c, collected |-> d ]
  BY ONLY <1>3
<1>. QED BY <1>4 DEF ScanAfter, t, u, v

LEMMA ScanPageArchive ==
  ASSUME ArchiveInv, NEW p \in Passes, ScanPage(p)
  PROVE  ArchiveInv'
<1>1. ChainOK /\ PassesOK /\ head \in Nat
  BY DEF ArchiveInv, ChainOK
<1>2. PICK s : s = pass[p]
  OBVIOUS
<1>3. PICK page : page = GetEvents(NextRead(s.start, s.cursor).ledger,
                                   NextRead(s.start, s.cursor).upTo)
  OBVIOUS
<1>. DEFINE done == \/ page.cursor.ledger >= page.latest
                    \/ page.cursor = s.cursor
                    \/ s.calls + 1 = MaxScanCalls
            q == [ s EXCEPT !.phase = IF done THEN "store" ELSE "scan",
                            !.calls = @ + 1,
                            !.cursor = page.cursor,
                            !.collected = @ \o page.events ]
<1>4. pass[p].phase = "scan" /\ UNCHANGED <<rpcVars, store, errors, restarts, cut>>
  BY DEF ScanPage
<1>5. pass' = [pass EXCEPT ![p] = q]
  BY <1>2, <1>3 DEF ScanPage
<1>. HIDE DEF done
<1>6. s \in Scan /\ 1 <= s.start /\ s.start <= s.head /\ s.head <= head /\ ReadSoFar(s)
  BY <1>1, <1>2, <1>4, ScanIs
<1>7. /\ q.cursor = page.cursor /\ q.collected = s.collected \o page.events
      /\ q.start = s.start /\ q.head = s.head /\ q.calls = s.calls + 1
      /\ q.phase \in {"scan", "store"}
      /\ q = [ phase |-> q.phase, start |-> q.start, head |-> q.head, calls |-> q.calls,
               cursor |-> q.cursor, collected |-> q.collected ]
  <2>1. PICK st, hd, ca, cu, co, ph :
          s = [ phase |-> ph, start |-> st, head |-> hd, calls |-> ca, cursor |-> cu,
                collected |-> co ]
    BY <1>6 DEF Scan
  <2>. DEFINE a == IF done THEN "store" ELSE "scan"
              b == s.calls + 1
              c == page.cursor
              d == s.collected \o page.events
  <2>2. q = ScanAfter(s, a, b, c, d)
    BY DEF ScanAfter
  <2>3. a \in {"scan", "store"}
    OBVIOUS
  <2>. HIDE DEF a, b, c, d, q
  <2>4. q = [ phase |-> a, start |-> st, head |-> hd, calls |-> b, cursor |-> c,
              collected |-> d ]
    BY ONLY <2>1, <2>2, ScanWith
  <2>5. /\ q.cursor = c /\ q.collected = d /\ q.start = s.start /\ q.head = s.head
        /\ q.calls = b /\ q.phase = a
        /\ q = [ phase |-> q.phase, start |-> q.start, head |-> q.head, calls |-> q.calls,
                 cursor |-> q.cursor, collected |-> q.collected ]
    BY ONLY <2>1, <2>4
  <2>. QED BY <2>3, <2>5 DEF b, c, d
<1>. HIDE DEF q
<1>8. s.start \in Nat /\ s.head \in Nat /\ s.calls \in Nat /\ s.start <= head
  BY <1>1, <1>6 DEF Scan
<1>9. q.cursor \in RpcCursor /\ q.collected \in Seq(ToSet(chain)) /\ ReadSoFar(q)
  BY <1>1, <1>3, <1>6, <1>7, <1>8, NextPageIs
<1>10. q \in [ phase : {"scan", "store"}, start : Nat, head : Nat, calls : Nat,
               cursor : [ledger : Nat, upTo : Nat], collected : Seq(ToSet(chain)) ]
  <2>1. q.start \in Nat /\ q.head \in Nat /\ q.calls \in Nat
    BY <1>7, <1>8
  <2>2. q.cursor \in [ledger : Nat, upTo : Nat]
    BY <1>9 DEF RpcCursor
  <2>. QED BY <1>7, <1>9, <2>1, <2>2
<1>11. ReadIn(q, chain, head)
  BY <1>9 DEF ReadSoFar, ReadIn, EventsThrough, Through
<1>12. PassIn(q, chain, head)
  BY <1>6, <1>7, <1>10, <1>11 DEF PassIn
<1>13. pass'[p] = q /\ pass' = [pass EXCEPT ![p] = pass'[p]]
  <2>1. DOMAIN pass = Passes
    BY <1>1 DEF PassesOK
  <2>. QED BY <1>5, <2>1
<1>14. chain' = chain /\ head' = head
  BY <1>4 DEF rpcVars
<1>15. PassesOK'
  BY <1>1, <1>12, <1>13, <1>14, PassesTurn
<1>. QED BY <1>4, <1>15, PassTurns

LEMMA FinishPassArchive ==
  ASSUME ArchiveInv, NEW p \in Passes, FinishPass(p)
  PROVE  /\ ArchiveInv'
         /\ ToSet(store.events) \subseteq ToSet(store'.events)
         /\ Claimed(store) \subseteq Claimed(store')
         /\ store.latestLedger <= store'.latestLedger
<1>1. ChainOK /\ PassesOK /\ head \in Nat /\ StoreOf(store, ToSet(chain), head) /\ CompleteUnlessCut
  BY DEF ArchiveInv, ChainOK
<1>2. PICK s : s = pass[p]
  OBVIOUS
<1>. DEFINE E == ToSet(chain)
            after == IngestBatch(store, s.collected, s.start, s.head, s.head)
            missed == {ev \in E : ev.ledger \in s.start .. s.head /\ ev \notin ToSet(s.collected)}
<1>3. /\ pass[p].phase = "store" /\ pass' = [pass EXCEPT ![p] = Idle]
      /\ store' = after /\ cut' = cut \cup missed
      /\ chain' = chain /\ head' = head /\ oldest' = oldest
  BY <1>2 DEF FinishPass, rpcVars
<1>. HIDE DEF missed
<1>4. s \in Scan /\ 1 <= s.start /\ s.start <= s.head /\ s.head <= head /\ ReadSoFar(s)
  BY <1>1, <1>2, <1>3, ScanIs
<1>5. s.start \in 1 .. head /\ s.head \in 1 .. head /\ s.head \in 0 .. head /\ s.cursor \in RpcCursor
  BY <1>1, <1>4 DEF Scan, RpcCursor
<1>6. s.collected \in Seq(E) /\ Distinct(s.collected)
  BY <1>1, <1>4, <1>5, CollectedIs
<1>7. HaveCursors(E)
  BY <1>1, ChainFacts
<1>8. StoreOf(after, E, head) /\ Ingested(after, store, s.collected, s.start, s.head)
  <2>. HIDE DEF E
  <2>1. StoreOf(store, E, head)
    BY <1>1 DEF E
  <2>. QED BY <1>1, <1>4, <1>5, <1>6, <1>7, <2>1, IngestBatchIngests
<1>. HIDE DEF after
<1>9. /\ ToSet(after.events) = ToSet(store.events) \cup Unseen(store, s.collected)
      /\ Claimed(after) = Claimed(store) \cup (s.start .. s.head)
      /\ store.latestLedger <= after.latestLedger
  <2>1. Claimed(after) = Ledgers(after.ranges)
    BY <1>1, <1>8, ClaimedIs
  <2>2. Claimed(store) = Ledgers(store.ranges)
    BY <1>1, ClaimedIs
  <2>. QED BY <1>8, <2>1, <2>2 DEF Ingested
<1>10. PassesOK'
  <2>1. pass'[p] = Idle /\ pass' = [pass EXCEPT ![p] = pass'[p]]
    <3>1. DOMAIN pass = Passes
      BY <1>1 DEF PassesOK
    <3>. QED BY <1>3, <3>1
  <2>2. PassIn(pass'[p], chain, head)
    BY <2>1 DEF PassIn
  <2>. QED BY <1>1, <1>3, <2>1, <2>2, PassesTurn
<1>11. ASSUME NEW ev \in E, ev.ledger \in Claimed(after)
       PROVE  ev \in ToSet(after.events) \cup cut' \/ Shadowed(ev, ToSet(after.events))
  <2>1. CASE ev.ledger \in Claimed(store)
    <3>1. ev \in ToSet(store.events) \cup cut \/ Shadowed(ev, ToSet(store.events))
      BY <1>1, <2>1 DEF CompleteUnlessCut
    <3>. QED BY <1>3, <1>9, <3>1 DEF Shadowed
  <2>2. CASE ev.ledger \in s.start .. s.head
    <3>1. CASE ev \notin ToSet(s.collected)
      BY <1>3, <2>2, <3>1 DEF missed
    <3>2. CASE ev \in Unseen(store, s.collected)
      BY <1>9, <3>2
    <3>3. CASE ev \in ToSet(s.collected) /\ ev \notin Unseen(store, s.collected)
      <4>1. PICK f \in ToSet(store.events) : CursorOf(f) = CursorOf(ev)
        BY <3>3 DEF Unseen
      <4>2. f = ev \/ Shadowed(ev, ToSet(after.events))
        BY <1>9, <4>1 DEF Shadowed
      <4>. QED BY <1>9, <4>1, <4>2
    <3>. QED BY <3>1, <3>2, <3>3
  <2>. QED BY <1>9, <1>11, <2>1, <2>2
<1>12. CompleteUnlessCut'
  BY <1>3, <1>11 DEF CompleteUnlessCut
<1>13. ChainOK'
  BY <1>1, <1>3 DEF ChainOK
<1>14. ArchiveInv'
  BY <1>3, <1>8, <1>10, <1>12, <1>13 DEF ArchiveInv
<1>. QED BY <1>3, <1>9, <1>14

\* What a step of the archive leaves to a reader, and to the store unless it restarts.
WorldGrew ==
  /\ head <= head'
  /\ ToSet(chain) \subseteq ToSet(chain')
  /\ \A ev \in ToSet(chain') : ev \in ToSet(chain) \/ ev.ledger = head + 1
  /\ cut \subseteq cut'

StoreGrew ==
  /\ ToSet(store.events) \subseteq ToSet(store'.events)
  /\ Claimed(store) \subseteq Claimed(store')
  /\ store.latestLedger <= store'.latestLedger

LEMMA NextArchive ==
  ASSUME ArchiveInv, Next
  PROVE  ArchiveInv' /\ WorldGrew /\ (Restart \/ StoreGrew)
<1>0. /\ ChainOK /\ head \in Nat /\ store.latestLedger \in 0 .. head
      /\ store.latestLedger <= store.latestLedger /\ head <= head
  BY DEF ArchiveInv, ChainOK, StoreOf
<1>1. ASSUME rpcVars' = rpcVars, cut \subseteq cut' PROVE WorldGrew
  BY <1>0, <1>1 DEF WorldGrew, rpcVars
<1>2. ASSUME store' = store PROVE StoreGrew
  BY <1>0, <1>2 DEF StoreGrew
<1>3. CASE CloseLedger /\ UNCHANGED <<serviceVars, errors, restarts, cut>>
  <2>1. UNCHANGED <<store, pass, cut>>
    BY <1>3 DEF serviceVars
  <2>2. ArchiveInv'
    BY <1>3, <2>1, CloseLedgerArchive
  <2>3. /\ head' = head + 1 /\ Extends(chain', chain)
        /\ \A ev \in ToSet(chain') : ev \in ToSet(chain) \/ ev.ledger = head + 1
    BY <1>0, <1>3, ChainGrows
  <2>4. ToSet(chain) \subseteq ToSet(chain') /\ head <= head'
    BY <1>0, <2>3 DEF Extends, ToSet
  <2>. QED BY <1>2, <2>1, <2>2, <2>3, <2>4 DEF WorldGrew
<1>4. CASE Expire /\ UNCHANGED <<serviceVars, errors, restarts, cut>>
  <2>1. UNCHANGED <<store, pass, cut>>
    BY <1>4 DEF serviceVars
  <2>2. ArchiveInv'
    BY <1>4, <2>1, ExpireArchive
  <2>3. WorldGrew
    BY <1>0, <1>4, <2>1 DEF Expire, WorldGrew
  <2>. QED BY <1>2, <2>1, <2>2, <2>3
<1>5. CASE Restart
  <2>1. rpcVars' = rpcVars /\ cut \subseteq cut'
    BY <1>5 DEF Restart
  <2>. QED BY <1>1, <1>5, <2>1, RestartArchive
<1>6. ASSUME NEW p \in Passes, PassStep(p) \/ RpcError(p)
      PROVE  ArchiveInv' /\ WorldGrew /\ StoreGrew
  <2>1. CASE StartPass(p)
    <3>1. rpcVars' = rpcVars /\ cut \subseteq cut' /\ store' = store
      BY <2>1 DEF StartPass
    <3>. QED BY <1>1, <1>2, <2>1, <3>1, StartPassArchive
  <2>2. CASE Health(p)
    <3>1. rpcVars' = rpcVars /\ cut \subseteq cut' /\ store' = store
      BY <2>2 DEF Health
    <3>. QED BY <1>1, <1>2, <2>2, <3>1, HealthArchive
  <2>3. CASE ScanPage(p)
    <3>1. rpcVars' = rpcVars /\ cut \subseteq cut' /\ store' = store
      BY <2>3 DEF ScanPage
    <3>. QED BY <1>1, <1>2, <2>3, <3>1, ScanPageArchive
  <2>4. CASE ScanExpired(p) \/ RpcError(p)
    <3>1. rpcVars' = rpcVars /\ cut \subseteq cut' /\ store' = store
      BY <2>4 DEF ScanExpired, RpcError
    <3>. QED BY <1>1, <1>2, <2>4, <3>1, EndPassArchive
  <2>5. CASE FinishPass(p)
    <3>1. rpcVars' = rpcVars /\ cut \subseteq cut'
      BY <2>5 DEF FinishPass
    <3>. QED BY <1>1, <2>5, <3>1, FinishPassArchive DEF StoreGrew
  <2>. QED BY <1>6, <2>1, <2>2, <2>3, <2>4, <2>5 DEF PassStep
<1>. QED BY <1>3, <1>4, <1>5, <1>6 DEF Next

-----------------------------------------------------------------------------
(* The reader keeps its invariant. *)

\* What happens to the archive leaves a reader's answer as it is.
LEMMA ReaderStays ==
  ASSUME ArchiveInv, ArchiveInv', ReaderOK, WorldGrew, reader' = reader
  PROVE  ReaderOK'
<1>1. CASE reader = NotReading
  BY <1>1 DEF ReaderOK
<1>2. CASE reader # NotReading
  <2>0. head \in Nat /\ head' >= head /\ ToSet(chain) \subseteq ToSet(chain') /\ cut \subseteq cut'
        /\ \A ev \in ToSet(chain') : ev \in ToSet(chain) \/ ev.ledger = head + 1
    BY DEF ArchiveInv, ChainOK, WorldGrew
  <2>1. /\ reader \in Answer /\ reader.to <= head /\ Sorted(reader.events)
        /\ \A ev \in ToSet(reader.events) : Wanted(ev)
        /\ ReadUpToCursor /\ WholeSoFar
    BY <1>2 DEF ReaderOK
  <2>2. reader' \in Answer'
    <3>1. reader.events \in Seq(ToSet(chain'))
      <4>1. reader.events \in Seq(ToSet(chain))
        BY <2>1 DEF Answer
      <4>2. ToSet(chain) \subseteq ToSet(chain')
        BY <2>0
      <4>. QED BY ONLY <4>1, <4>2
    <3>2. reader.cursor \in {NoCursor} \cup {CursorOf(ev) : ev \in ToSet(chain')}
      BY <2>0, <2>1 DEF Answer
    <3>3. reader \in [ phase : {"paging", "accepted", "refused"}, account : Accounts, from : Nat,
            to : Int, cursor : {NoCursor} \cup {CursorOf(ev) : ev \in ToSet(chain')},
            events : Seq(ToSet(chain')), complete : BOOLEAN ]
      BY <2>1, <3>1, <3>2 DEF Answer
    <3>. QED BY <3>3 DEF Answer
  <2>3. reader'.to <= head'
    <3>1. reader.to \in Int
      BY <2>1 DEF Answer
    <3>2. head' \in Nat
      BY DEF ArchiveInv, ChainOK
    <3>. QED BY <2>0, <2>1, <3>1, <3>2
  <2>4. /\ Sorted(reader'.events) /\ ReadUpToCursor'
        /\ (\A ev \in ToSet(reader.events) : Wanted(ev))'
    BY <2>1 DEF Wanted, ReadUpToCursor
  <2>5. WholeSoFar'
    <3>. SUFFICES ASSUME reader.to # Unbounded, reader.phase = "paging" => reader.complete,
                         NEW ev \in ToSet(chain') \ cut', Wanted(ev),
                         ~ Shadowed(ev, ToSet(chain')), DueBy(ev)
                  PROVE  ev \in ToSet(reader.events)
      BY DEF WholeSoFar, Wanted, DueBy
    <3>1. ev.ledger <= reader.to /\ reader.to \in Int
      BY <2>1 DEF Wanted, Answer
    <3>2. ev \in ToSet(chain)
      <4>1. ev.ledger # head + 1
        BY <2>0, <2>1, <3>1
      <4>. QED BY <2>0, <4>1
    <3>3. ev \notin cut /\ ~ Shadowed(ev, ToSet(chain))
      BY <2>0 DEF Shadowed
    <3>. QED BY <2>1, <3>2, <3>3 DEF WholeSoFar
  <2>. QED BY <2>2, <2>3, <2>4, <2>5 DEF ReaderOK
<1>. QED BY <1>1, <1>2

LEMMA AskReader ==
  ASSUME ArchiveInv, NEW account \in Accounts, AskVouched(account) \/ AskOpenEnded(account)
  PROVE  ReaderOK'
<1>1. ChainOK /\ StoreOf(store, ToSet(chain), head) /\ head \in Nat
  BY DEF ArchiveInv, ChainOK
<1>2. PICK from \in 0 .. head, to \in Int :
        /\ to <= head
        /\ Ask(account, from, to)
  <2>1. CASE AskVouched(account)
    <3>1. IngestedFrom(store) \in 0 .. head /\ IngestedThrough(store) \in 0 .. head
      BY <1>1, FirstRangeIs
    <3>2. Ask(account, IngestedFrom(store), IngestedThrough(store))
      BY <2>1 DEF AskVouched, ServeHealth
    <3>3. IngestedThrough(store) \in Int /\ IngestedThrough(store) <= head
      BY <1>1, <3>1
    <3>. QED BY <3>1, <3>2, <3>3
  <2>2. CASE AskOpenEnded(account)
    <3>1. PICK from \in 0 .. head : Ask(account, from, Unbounded)
      BY <2>2 DEF AskOpenEnded
    <3>2. Unbounded \in Int /\ Unbounded <= head
      BY <1>1 DEF Unbounded
    <3>. QED BY <3>1, <3>2
  <2>. QED BY <2>1, <2>2
<1>3. reader' = [ phase |-> "paging", account |-> account, from |-> from, to |-> to,
                  cursor |-> NoCursor, events |-> << >>, complete |-> TRUE ]
      /\ vars' = vars
  BY <1>2 DEF Ask
<1>4. chain' = chain /\ head' = head
  BY <1>3 DEF vars, rpcVars
<1>5. reader' \in Answer'
  <2>1. from \in Nat /\ << >> \in Seq(ToSet(chain))
    BY <1>1
  <2>. QED BY <1>3, <1>4, <2>1 DEF Answer
<1>6. /\ reader'.to <= head' /\ reader'.events = << >> /\ reader'.cursor = NoCursor
      /\ reader'.phase = "paging"
  BY <1>2, <1>3, <1>4
<1>7. Sorted(reader'.events) /\ ToSet(reader'.events) = {}
  BY <1>6 DEF Sorted, ToSet
<1>8. ReadUpToCursor' /\ WholeSoFar' /\ (\A ev \in ToSet(reader.events) : Wanted(ev))'
  BY <1>6, <1>7 DEF ReadUpToCursor, WholeSoFar, DueBy
<1>. QED BY <1>5, <1>6, <1>7, <1>8 DEF ReaderOK

\* What a request at the reader's cursor is answered from.
Rest == {ev \in ToSet(store.events) : Wanted(ev) /\ AfterCursor(ev, reader.cursor)}

LEMMA ServedPageIs ==
  ASSUME ArchiveInv, reader \in Answer, NEW page,
         page = Serve(reader.account, reader.from, reader.to, reader.cursor)
  PROVE  /\ PageOf(page, Rest, ToSet(chain))
         /\ page.complete \in BOOLEAN
         /\ page.complete /\ reader.to # Unbounded =>
              \A ev \in ToSet(chain) : Wanted(ev) => ev.ledger \in Claimed(store)
<1>. DEFINE E == ToSet(chain)
            from == Max({reader.from, FirstLedger})
            query == Query(store, reader.account, from, reader.to, reader.cursor, ClientLimit)
            matching == Matching(store, reader.account, from, reader.to, reader.cursor)
<1>1. ChainOK /\ StoreOf(store, ToSet(chain), head) /\ head \in Nat /\ HaveCursors(ToSet(chain))
  BY ChainFacts DEF ArchiveInv, ChainOK
<1>2. reader.from \in Nat /\ reader.to \in Int
  BY DEF Answer
<1>3. from = IF reader.from >= 1 THEN reader.from ELSE 1
  BY <1>2, LargerOf DEF FirstLedger
<1>4. page = [ events |-> query.events, cursor |-> query.cursor,
               complete |-> IsComplete(store, from,
                 IF reader.to = Unbounded THEN IngestedThrough(store) ELSE reader.to) ]
  BY DEF Serve
<1>. HIDE DEF from
<1>5. ASSUME NEW ev \in E PROVE ev.ledger \in Nat /\ (ev.ledger >= from <=> ev.ledger >= reader.from)
  <2>1. ev.ledger \in 1 .. head
    BY <1>1, ChainFacts
  <2>. QED BY <1>1, <1>2, <1>3, <2>1
<1>6. matching = Rest
  <2>1. \A ev \in ToSet(store.events) : ev \in E
    <3>1. store.events \in Seq(E)
      BY <1>1 DEF StoreOf
    <3>. QED BY <3>1 DEF ToSet
  <2>. QED BY <1>5, <2>1 DEF Matching, Rest, Wanted
<1>7. PageOf(query, Rest, E)
  <2>1. ClientLimit \in Nat \ {0}
    BY ReaderAssumption
  <2>2. PageOf(query, matching, E)
    <3>. HIDE DEF E
    <3>1. StoreOf(store, E, head) /\ HaveCursors(E)
      BY <1>1 DEF E
    <3>. QED BY <1>1, <2>1, <3>1, QueryPages
  <2>. HIDE DEF query, matching
  <2>. QED BY <1>6, <2>2
<1>. HIDE DEF query
<1>8. PageOf(page, Rest, E)
  <2>1. page.events = query.events /\ page.cursor = query.cursor
    BY <1>4
  <2>. QED BY <1>7, <2>1 DEF PageOf
<1>9. page.complete \in BOOLEAN
  <2>1. IsComplete(store, from, IF reader.to = Unbounded THEN IngestedThrough(store) ELSE reader.to) \in BOOLEAN
    BY DEF IsComplete
  <2>. QED BY <1>4, <2>1
<1>10. ASSUME page.complete, reader.to # Unbounded, NEW ev \in E, Wanted(ev)
       PROVE  ev.ledger \in Claimed(store)
  <2>1. IsComplete(store, from, reader.to)
    BY <1>4, <1>10
  <2>2. ev.ledger >= from /\ ev.ledger <= reader.to /\ ev.ledger \in Nat
    BY <1>5, <1>10 DEF Wanted
  <2>3. from \in Nat
    BY <1>2, <1>3
  <2>4. ~ (reader.to < from)
    BY <1>2, <2>2, <2>3
  <2>5. PICK r \in ToSet(store.ranges) : r[1] <= from /\ r[2] >= reader.to
    BY <2>1, <2>4 DEF IsComplete
  <2>6. r \in RangesUpTo(head)
    BY <1>1 DEF StoreOf, ToSet
  <2>7. r[1] \in Nat /\ r[2] \in Nat
    BY <2>6 DEF RangesUpTo
  <2>8. ev.ledger \in r[1] .. r[2]
    <3>. DEFINE a == r[1]
                b == r[2]
    <3>1. a \in Nat /\ b \in Nat /\ a <= from /\ b >= reader.to
      BY <2>5, <2>7
    <3>. HIDE DEF a, b
    <3>2. ev.ledger \in a .. b
      BY <1>2, <2>2, <2>3, <3>1
    <3>. QED BY <3>2 DEF a, b
  <2>. QED BY <2>8 DEF Claimed
<1>. QED BY <1>8, <1>9, <1>10

AllBefore(a, b) == \A x \in ToSet(a), y \in ToSet(b) : CursorLess(CursorOf(x), CursorOf(y))

LEMMA PagesSort ==
  ASSUME NEW E, HaveCursors(E), NEW a \in Seq(E), NEW b \in Seq(E),
         Sorted(a), Sorted(b), AllBefore(a, b)
  PROVE  /\ a \o b \in Seq(E) /\ Sorted(a \o b)
         /\ ToSet(a \o b) = ToSet(a) \cup ToSet(b)
<1>. DEFINE t == a \o b
            N == Len(a)
            M == Len(b)
<1>1. N \in Nat /\ M \in Nat /\ DOMAIN a = 1 .. N /\ DOMAIN b = 1 .. M
  OBVIOUS
<1>2. /\ t \in Seq(E) /\ Len(t) = N + M
      /\ \A i \in 1 .. N : t[i] = a[i]
      /\ \A i \in 1 .. M : t[N + i] = b[i]
  BY JoinedIs
<1>3. DOMAIN t = 1 .. N + M
  BY <1>2
<1>. HIDE DEF t, N, M
<1>4. ASSUME NEW k \in DOMAIN t
      PROVE  \/ k \in DOMAIN a /\ t[k] = a[k]
             \/ k \notin DOMAIN a /\ k - N \in DOMAIN b /\ t[k] = b[k - N]
  <2>1. CASE k \in 1 .. N
    BY <1>1, <1>2, <2>1
  <2>2. CASE k \notin 1 .. N
    <3>1. k - N \in 1 .. M /\ N + (k - N) = k
      BY <1>1, <1>3, <2>2
    <3>2. t[N + (k - N)] = b[k - N]
      BY <1>2, <3>1
    <3>. QED BY <1>1, <2>2, <3>1, <3>2
  <2>. QED BY <2>1, <2>2
<1>5. ToSet(t) = ToSet(a) \cup ToSet(b)
  <2>1. \A k \in DOMAIN t : t[k] \in ToSet(a) \cup ToSet(b)
    BY <1>4 DEF ToSet
  <2>2. \A k \in DOMAIN a : k \in DOMAIN t /\ t[k] = a[k]
    BY <1>1, <1>2, <1>3
  <2>3. \A k \in DOMAIN b : N + k \in DOMAIN t /\ t[N + k] = b[k]
    BY <1>1, <1>2, <1>3
  <2>. QED BY <2>1, <2>2, <2>3 DEF ToSet
<1>6. \A x \in E : HasCursor(x)
  BY DEF HaveCursors
<1>7. ASSUME NEW x \in E, NEW y \in E, CursorLess(CursorOf(x), CursorOf(y))
      PROVE  NotAfter(x, y) /\ x # y
  <2>1. HasCursor(x) /\ HasCursor(y)
    BY <1>6
  <2>2. NotAfter(x, y) /\ NotAfter(x, x)
    BY <1>7, <2>1, CursorOrder
  <2>. QED BY <1>7, <2>2 DEF NotAfter
<1>8. ASSUME NEW i \in DOMAIN t, NEW j \in DOMAIN t, i < j
      PROVE  NotAfter(t[i], t[j]) /\ t[i] # t[j]
  <2>1. CASE i \in DOMAIN a /\ j \in DOMAIN a
    <3>1. t[i] = a[i] /\ t[j] = a[j]
      BY <1>4, <2>1
    <3>. QED BY <1>8, <2>1, <3>1 DEF Sorted
  <2>2. CASE i \in DOMAIN a /\ j \notin DOMAIN a
    <3>1. t[i] = a[i] /\ j - N \in DOMAIN b /\ t[j] = b[j - N]
      BY <1>4, <2>2
    <3>2. t[i] \in ToSet(a) /\ t[j] \in ToSet(b)
      BY <2>2, <3>1 DEF ToSet
    <3>3. CursorLess(CursorOf(t[i]), CursorOf(t[j]))
      BY <3>2 DEF AllBefore
    <3>4. t[i] \in E /\ t[j] \in E
      BY <2>2, <3>1
    <3>. QED BY <1>7, <3>3, <3>4
  <2>3. CASE i \notin DOMAIN a /\ j \notin DOMAIN a
    <3>1. i - N \in DOMAIN b /\ j - N \in DOMAIN b /\ t[i] = b[i - N] /\ t[j] = b[j - N]
      BY <1>4, <2>3
    <3>2. i - N < j - N
      BY <1>1, <1>3, <1>8
    <3>. QED BY <3>1, <3>2 DEF Sorted
  <2>4. CASE i \notin DOMAIN a /\ j \in DOMAIN a
    BY <1>1, <1>3, <1>8, <2>4
  <2>. QED BY <2>1, <2>2, <2>3, <2>4
<1>9. Sorted(t)
  BY <1>8 DEF Sorted
<1>. QED BY <1>2, <1>5, <1>9 DEF t

AnswerAfter(r, a, b, c, d) ==
  [r EXCEPT !.events = a, !.complete = b, !.cursor = c, !.phase = d]

LEMMA AnswerWith ==
  ASSUME NEW ph, NEW ac, NEW fr, NEW to, NEW cu, NEW ev, NEW co,
         NEW a, NEW b, NEW c, NEW d, NEW r,
         r = [ phase |-> ph, account |-> ac, from |-> fr, to |-> to, cursor |-> cu,
               events |-> ev, complete |-> co ]
  PROVE  AnswerAfter(r, a, b, c, d) =
           [ phase |-> d, account |-> ac, from |-> fr, to |-> to, cursor |-> c,
             events |-> a, complete |-> b ]
<1>. DEFINE t == [r EXCEPT !.events = a]
            u == [t EXCEPT !.complete = b]
            v == [u EXCEPT !.cursor = c]
            w == [v EXCEPT !.phase = d]
<1>1. t = [ phase |-> ph, account |-> ac, from |-> fr, to |-> to, cursor |-> cu,
            events |-> a, complete |-> co ]
  OBVIOUS
<1>. HIDE DEF t
<1>2. u = [ phase |-> ph, account |-> ac, from |-> fr, to |-> to, cursor |-> cu,
            events |-> a, complete |-> b ]
  BY ONLY <1>1
<1>. HIDE DEF u
<1>3. v = [ phase |-> ph, account |-> ac, from |-> fr, to |-> to, cursor |-> c,
            events |-> a, complete |-> b ]
  BY ONLY <1>2
<1>. HIDE DEF v
<1>4. w = [ phase |-> d, account |-> ac, from |-> fr, to |-> to, cursor |-> c,
            events |-> a, complete |-> b ]
  BY ONLY <1>3
<1>. QED BY <1>4 DEF AnswerAfter, t, u, v

\* What one turn of fetchEvents does with the page it was served.
LEMMA FetchPageIs ==
  ASSUME reader \in Answer, FetchPage, NEW page,
         page = Serve(reader.account, reader.from, reader.to, reader.cursor)
  PROVE  /\ reader.phase = "paging" /\ vars' = vars
         /\ \E phase \in {"paging", "accepted", "refused"} :
              /\ reader' = [ phase |-> phase, account |-> reader.account, from |-> reader.from,
                             to |-> reader.to, cursor |-> page.cursor,
                             events |-> reader.events \o page.events,
                             complete |-> reader.complete /\ page.complete ]
              /\ phase = "paging" => page.cursor \notin {NoCursor, reader.cursor}
              /\ phase = "accepted" => /\ page.cursor \in {NoCursor, reader.cursor}
                                       /\ reader.complete /\ page.complete
<1>. DEFINE complete == reader.complete /\ page.complete
            last == page.cursor \in {NoCursor, reader.cursor}
            phase == CASE ~ last            -> "paging"
                       [] last /\ complete  -> "accepted"
                       [] last /\ ~complete -> "refused"
            events == reader.events \o page.events
            at == page.cursor
<1>1. reader.phase = "paging" /\ vars' = vars
  BY DEF FetchPage
<1>2. reader' = AnswerAfter(reader, events, complete, at, phase)
  BY DEF FetchPage, AnswerAfter
<1>3. /\ phase \in {"paging", "accepted", "refused"}
      /\ phase = "paging" => ~ last
      /\ phase = "accepted" => last /\ complete
  <2>. HIDE DEF last, complete
  <2>1. CASE ~ last
    BY <2>1
  <2>2. CASE last /\ complete
    BY <2>2
  <2>3. CASE last /\ ~ complete
    BY <2>3
  <2>. QED BY <2>1, <2>2, <2>3
<1>. HIDE DEF phase, complete, events, at
<1>4. PICK ph, ac, fr, to, cu, ev, co :
        reader = [ phase |-> ph, account |-> ac, from |-> fr, to |-> to, cursor |-> cu,
                   events |-> ev, complete |-> co ]
  BY DEF Answer
<1>5. reader' = [ phase |-> phase, account |-> ac, from |-> fr, to |-> to, cursor |-> at,
                  events |-> events, complete |-> complete ]
  BY ONLY <1>2, <1>4, AnswerWith
<1>6. ac = reader.account /\ fr = reader.from /\ to = reader.to
  BY ONLY <1>4
<1>7. reader' = [ phase |-> phase, account |-> reader.account, from |-> reader.from,
                  to |-> reader.to, cursor |-> at, events |-> events, complete |-> complete ]
  BY ONLY <1>5, <1>6
<1>. QED BY <1>1, <1>3, <1>7 DEF complete, events, at

LEMMA FetchPageReader ==
  ASSUME ArchiveInv, ReaderOK, FetchPage
  PROVE  ReaderOK'
<1>. DEFINE E == ToSet(chain)
<1>1. PICK page : page = Serve(reader.account, reader.from, reader.to, reader.cursor)
  OBVIOUS
<1>2. reader.phase = "paging" /\ reader # NotReading
  BY DEF FetchPage, NotReading
<1>3. /\ reader \in Answer /\ reader.to <= head /\ Sorted(reader.events)
      /\ \A ev \in ToSet(reader.events) : Wanted(ev)
      /\ ReadUpToCursor /\ WholeSoFar
  BY <1>2 DEF ReaderOK
<1>4. /\ PageOf(page, Rest, E) /\ page.complete \in BOOLEAN
      /\ page.complete /\ reader.to # Unbounded =>
           \A ev \in E : Wanted(ev) => ev.ledger \in Claimed(store)
  BY <1>1, <1>3, ServedPageIs
<1>5. PICK phase \in {"paging", "accepted", "refused"} :
        /\ reader' = [ phase |-> phase, account |-> reader.account, from |-> reader.from,
                       to |-> reader.to, cursor |-> page.cursor,
                       events |-> reader.events \o page.events,
                       complete |-> reader.complete /\ page.complete ]
        /\ phase = "paging" => page.cursor \notin {NoCursor, reader.cursor}
        /\ phase = "accepted" => /\ page.cursor \in {NoCursor, reader.cursor}
                                 /\ reader.complete /\ page.complete
  BY <1>1, <1>3, FetchPageIs
<1>6. vars' = vars /\ chain' = chain /\ head' = head /\ cut' = cut
  BY <1>1, <1>3, FetchPageIs DEF vars, rpcVars
<1>7. /\ HaveCursors(E) /\ CompleteUnlessCut
      /\ \A ev \in ToSet(store.events) : ev \in E
  <2>1. ChainOK /\ store.events \in Seq(E) /\ CompleteUnlessCut
    BY DEF ArchiveInv, StoreOf
  <2>. QED BY <2>1, ChainFacts DEF ToSet
<1>8. /\ reader.events \in Seq(E) /\ reader.cursor \in {NoCursor} \cup {CursorOf(ev) : ev \in E}
      /\ reader.complete \in BOOLEAN /\ reader.account \in Accounts /\ reader.from \in Nat
      /\ reader.to \in Int
  BY <1>3 DEF Answer
<1>9. /\ page.events \in Seq(E) /\ Sorted(page.events)
      /\ \A ev \in ToSet(page.events) :
           /\ ev \in Rest /\ ev \in E /\ HasCursor(ev)
           /\ Wanted(ev) /\ AfterCursor(ev, reader.cursor)
      /\ page.cursor = NoCursor => ToSet(page.events) = Rest
  BY <1>4, <1>7 DEF PageOf, Rest, HaveCursors
<1>10. ASSUME page.cursor # NoCursor
       PROVE  \E last \in ToSet(page.events) :
                /\ page.cursor = CursorOf(last)
                /\ \A ev \in ToSet(page.events) : NotAfter(ev, last)
                /\ \A ev \in Rest \ ToSet(page.events) : NotAfter(last, ev)
  BY <1>4, <1>10 DEF PageOf
<1>11. ASSUME NEW x \in ToSet(reader.events)
       PROVE  x \in E /\ HasCursor(x) /\ Wanted(x) /\ reader.cursor # NoCursor
              /\ ~ CursorLess(reader.cursor, CursorOf(x))
  <2>1. x \in E
    BY <1>8 DEF ToSet
  <2>2. reader.cursor # NoCursor
    <3>1. reader.events # << >>
      BY DEF ToSet
    <3>. QED BY <1>2, <1>3, <3>1 DEF ReadUpToCursor
  <2>. QED BY <1>2, <1>3, <1>7, <2>1, <2>2 DEF ReadUpToCursor, HaveCursors
<1>12. AllBefore(reader.events, page.events)
  <2>. SUFFICES ASSUME NEW x \in ToSet(reader.events), NEW y \in ToSet(page.events)
                PROVE  CursorLess(CursorOf(x), CursorOf(y))
    BY DEF AllBefore
  <2>1. reader.cursor # NoCursor /\ ~ CursorLess(reader.cursor, CursorOf(x)) /\ HasCursor(x)
    BY <1>11
  <2>2. CursorLess(reader.cursor, CursorOf(y)) /\ HasCursor(y)
    BY <1>9, <2>1 DEF AfterCursor
  <2>3. PICK f \in E : reader.cursor = CursorOf(f)
    BY <1>8, <2>1
  <2>4. HasCursor(f)
    BY <1>7 DEF HaveCursors
  <2>5. NotAfter(x, f)
    BY <2>1, <2>3 DEF NotAfter
  <2>. QED BY <2>1, <2>2, <2>3, <2>4, <2>5, CursorOrder
<1>. DEFINE joined == reader.events \o page.events
<1>13. /\ joined \in Seq(E) /\ Sorted(joined)
       /\ ToSet(joined) = ToSet(reader.events) \cup ToSet(page.events)
  <2>. HIDE DEF E
  <2>. QED BY <1>3, <1>7, <1>8, <1>9, <1>12, PagesSort
<1>. HIDE DEF joined
<1>14. /\ reader'.phase = phase /\ reader'.account = reader.account /\ reader'.from = reader.from
       /\ reader'.to = reader.to /\ reader'.cursor = page.cursor /\ reader'.events = joined
       /\ reader'.complete = (reader.complete /\ page.complete)
  BY <1>5 DEF joined
<1>15. reader' \in Answer'
  <2>1. page.cursor \in {NoCursor} \cup {CursorOf(ev) : ev \in E}
    BY <1>9, <1>10
  <2>2. reader' \in [ phase : {"paging", "accepted", "refused"}, account : Accounts, from : Nat,
          to : Int, cursor : {NoCursor} \cup {CursorOf(ev) : ev \in E},
          events : Seq(E), complete : BOOLEAN ]
    <3>1. (reader.complete /\ page.complete) \in BOOLEAN
      OBVIOUS
    <3>2. joined = reader.events \o page.events
      BY DEF joined
    <3>. HIDE DEF E
    <3>. QED BY <1>5, <1>8, <1>13, <2>1, <3>1, <3>2
  <2>. QED BY <1>6, <2>2 DEF Answer
<1>16. reader'.to <= head'
  BY <1>3, <1>6, <1>14
<1>17. (\A ev \in ToSet(reader.events) : Wanted(ev))'
  <2>1. \A ev \in ToSet(joined) : Wanted(ev)
    BY <1>3, <1>9, <1>13
  <2>. QED BY <1>14, <2>1 DEF Wanted
<1>18. ReadUpToCursor'
  <2>. SUFFICES ASSUME phase = "paging"
                PROVE  \A ev \in ToSet(joined) : ~ CursorLess(page.cursor, CursorOf(ev))
    BY <1>5, <1>14 DEF ReadUpToCursor
  <2>1. page.cursor # NoCursor
    BY <1>5
  <2>2. PICK last \in ToSet(page.events) :
          page.cursor = CursorOf(last) /\ \A ev \in ToSet(page.events) : NotAfter(ev, last)
    BY <1>10, <2>1
  <2>3. ASSUME NEW x \in ToSet(reader.events) PROVE NotAfter(x, last)
    <3>1. CursorLess(CursorOf(x), CursorOf(last))
      BY <1>12, <2>2 DEF AllBefore
    <3>. QED BY <1>9, <1>11, <2>2, <3>1, CursorOrder
  <2>. QED BY <1>13, <2>2, <2>3 DEF NotAfter
<1>19. WholeSoFar'
  <2>. SUFFICES ASSUME reader.to # Unbounded, phase = "paging" => reader.complete /\ page.complete,
                       NEW ev \in E \ cut, Wanted(ev), ~ Shadowed(ev, E),
                       \/ phase = "accepted"
                       \/ phase = "paging" /\ page.cursor # NoCursor
                          /\ ~ CursorLess(page.cursor, CursorOf(ev))
                PROVE  ev \in ToSet(joined)
    BY <1>6, <1>14 DEF WholeSoFar, Wanted, DueBy
  <2>1. reader.complete /\ page.complete
    BY <1>5
  <2>2. ev \in ToSet(store.events)
    <3>1. ev.ledger \in Claimed(store)
      BY <1>4, <2>1
    <3>2. ~ Shadowed(ev, ToSet(store.events))
      BY <1>7 DEF Shadowed
    <3>. QED BY <1>7, <3>1, <3>2 DEF CompleteUnlessCut
  <2>3. CASE ~ AfterCursor(ev, reader.cursor)
    <3>1. DueBy(ev)
      BY <1>2, <2>3 DEF AfterCursor, DueBy
    <3>2. ev \in ToSet(reader.events)
      BY <1>3, <2>1, <3>1 DEF WholeSoFar
    <3>. QED BY <1>13, <3>2
  <2>4. CASE AfterCursor(ev, reader.cursor)
    <3>1. ev \in Rest
      BY <2>2, <2>4 DEF Rest
    <3>2. CASE page.cursor = NoCursor
      BY <1>9, <1>13, <3>1, <3>2
    <3>3. CASE page.cursor # NoCursor
      <4>1. PICK last \in ToSet(page.events) :
              /\ page.cursor = CursorOf(last)
              /\ \A f \in Rest \ ToSet(page.events) : NotAfter(last, f)
        BY <1>10, <3>3
      <4>2. HasCursor(last) /\ HasCursor(ev) /\ last \in E
        BY <1>7, <1>9, <4>1 DEF HaveCursors
      <4>3. page.cursor # reader.cursor
        <5>. SUFFICES ASSUME page.cursor = reader.cursor PROVE FALSE
          OBVIOUS
        <5>1. CursorLess(CursorOf(last), CursorOf(last))
          BY <1>9, <3>3, <4>1 DEF AfterCursor
        <5>2. NotAfter(last, last)
          BY <4>2, CursorOrder
        <5>. QED BY <5>1, <5>2 DEF NotAfter
      <4>4. ~ CursorLess(CursorOf(last), CursorOf(ev))
        BY <1>5, <3>3, <4>1, <4>3
      <4>5. NotAfter(ev, last)
        BY <4>4 DEF NotAfter
      <4>6. CASE ev \in ToSet(page.events)
        BY <1>13, <4>6
      <4>7. CASE ev \notin ToSet(page.events)
        <5>1. NotAfter(last, ev)
          BY <3>1, <4>1, <4>7
        <5>2. CursorOf(last) = CursorOf(ev)
          BY <4>2, <4>5, <5>1, CursorOrder
        <5>3. last = ev
          BY <4>2, <5>2 DEF Shadowed
        <5>. QED BY <1>13, <4>1, <5>3
      <4>. QED BY <4>6, <4>7
    <3>. QED BY <3>2, <3>3
  <2>. QED BY <2>3, <2>4
<1>. QED BY <1>13, <1>14, <1>15, <1>16, <1>17, <1>18, <1>19 DEF ReaderOK

-----------------------------------------------------------------------------
(* The theorems. *)

LEMMA SameArchive ==
  ASSUME ArchiveInv, vars' = vars
  PROVE  ArchiveInv'
<1>1. UNCHANGED <<rpcVars, store, cut>> /\ pass' = pass /\ chain' = chain /\ head' = head
      /\ oldest' = oldest
  BY DEF vars, serviceVars, rpcVars
<1>2. ChainOK /\ PassesOK /\ head \in Nat /\ Len(chain) \in Nat
  BY ChainFacts DEF ArchiveInv, ChainOK
<1>3. ChainOK' /\ Extends(chain', chain) /\ Len(chain) <= Len(chain') /\ head <= head'
  BY <1>1, <1>2 DEF ChainOK, Extends
<1>4. PassesOK'
  BY <1>1, <1>2, <1>3, PassesGrow
<1>. QED BY <1>1, <1>4, PassTurns

LEMMA ReaderStep ==
  ASSUME ReaderInv, ReaderNext
  PROVE  ReaderInv'
<1>1. ArchiveInv /\ ReaderOK
  BY DEF ReaderInv
<1>2. CASE Next /\ UNCHANGED reader
  <2>1. ArchiveInv' /\ WorldGrew
    BY <1>1, <1>2, NextArchive
  <2>. QED BY <1>1, <1>2, <2>1, ReaderStays DEF ReaderInv
<1>3. ASSUME NEW account \in Accounts, AskVouched(account) \/ AskOpenEnded(account)
      PROVE  ReaderInv'
  <2>1. vars' = vars
    BY <1>3 DEF AskVouched, AskOpenEnded, Ask
  <2>. QED BY <1>1, <1>3, <2>1, AskReader, SameArchive DEF ReaderInv
<1>4. CASE FetchPage
  <2>1. vars' = vars
    BY <1>4 DEF FetchPage
  <2>. QED BY <1>1, <1>4, <2>1, FetchPageReader, SameArchive DEF ReaderInv
<1>5. CASE RequestFails
  <2>1. vars' = vars /\ reader' = NotReading
    BY <1>5 DEF RequestFails
  <2>2. ReaderOK'
    BY <2>1 DEF ReaderOK
  <2>. QED BY <1>1, <2>1, <2>2, SameArchive DEF ReaderInv
<1>. QED BY <1>2, <1>3, <1>4, <1>5 DEF ReaderNext

LEMMA ReaderStutter ==
  ASSUME ReaderInv, UNCHANGED readerVars
  PROVE  ReaderInv'
<1>1. ArchiveInv /\ ReaderOK /\ vars' = vars /\ reader' = reader
  BY DEF ReaderInv, readerVars
<1>2. ArchiveInv'
  BY <1>1, SameArchive
<1>3. chain' = chain /\ head' = head /\ cut' = cut /\ head \in Nat /\ head <= head
  BY <1>1 DEF vars, rpcVars, ArchiveInv, ChainOK
<1>4. WorldGrew
  BY <1>3 DEF WorldGrew
<1>. QED BY <1>1, <1>2, <1>4, ReaderStays DEF ReaderInv

\* The archive and a reader of it keep their invariant: the store is sorted, its ranges
\* are apart, what a scan collected is a stretch of the chain, and a reader's answer is
\* whole up to its cursor.
THEOREM ReaderInvariance == ReaderSpec => []ReaderInv
<1>1. ReaderInit => ReaderInv
  BY InitArchive DEF ReaderInit, ReaderInv, ReaderOK
<1>2. ReaderInv /\ [ReaderNext]_readerVars => ReaderInv'
  BY ReaderStep, ReaderStutter
<1>. QED BY <1>1, <1>2, PTL DEF ReaderSpec

\* A reader only ever holds events of the chain that it asked for.
THEOREM ReaderTyped == ReaderSpec => []ReaderTypeOK
<1>1. ReaderInv => ReaderTypeOK
  <2>. SUFFICES ASSUME ReaderInv PROVE ReaderTypeOK
    OBVIOUS
  <2>1. CASE reader = NotReading
    BY <2>1 DEF ReaderTypeOK, NotReading
  <2>2. CASE reader # NotReading
    <3>1. reader \in Answer /\ \A ev \in ToSet(reader.events) : Wanted(ev)
      BY <2>2 DEF ReaderInv, ReaderOK
    <3>2. \A ev \in ToSet(reader.events) : ev \in ToSet(chain)
      <4>1. reader.events \in Seq(ToSet(chain))
        BY <3>1 DEF Answer
      <4>. QED BY <4>1 DEF ToSet
    <3>. QED BY <2>2, <3>1, <3>2 DEF ReaderTypeOK, Answer
  <2>. QED BY <2>1, <2>2
<1>. QED BY <1>1, ReaderInvariance, PTL

\* The ranges the archive vouches for are sorted, and apart by an unexamined ledger.
THEOREM RangesAreApart == ReaderSpec => []RangesCanonical
<1>1. ReaderInv => RangesCanonical
  BY DEF ReaderInv, ArchiveInv, StoreOf, Apart, RangesCanonical
<1>. QED BY <1>1, ReaderInvariance, PTL

\* What the archive vouches for it holds, but for what a pass was cut short of and what
\* shares its cursor with an event that is held.
THEOREM VouchedIsHeld == ReaderSpec => []CompleteUnlessCut
<1>1. ReaderInv => CompleteUnlessCut
  BY DEF ReaderInv, ArchiveInv
<1>. QED BY <1>1, ReaderInvariance, PTL

\* Events in the order of their cursors come in apply order but for two transactions
\* of one ledger.
LEMMA SortedInTurn ==
  ASSUME ChainOK, NEW s \in Seq(ToSet(chain)), Sorted(s),
         NEW i \in DOMAIN s, NEW j \in DOMAIN s, i < j
  PROVE  Position(s[i]) < Position(s[j]) \/ (s[i].ledger = s[j].ledger /\ s[i].tx # s[j].tx)
<1>1. NotAfter(s[i], s[j]) /\ s[i] # s[j] /\ s[i] \in ToSet(chain) /\ s[j] \in ToSet(chain)
  BY DEF Sorted
<1>. QED BY <1>1, CursorsKeepTurn

\* The store is served in apply order, across ledgers and within a transaction.
THEOREM ServedInTurn == ReaderSpec => []ServedInOrder
<1>1. ReaderInv => ServedInOrder
  <2>. SUFFICES ASSUME ReaderInv PROVE ServedInOrder
    OBVIOUS
  <2>1. ChainOK /\ store.events \in Seq(ToSet(chain)) /\ Sorted(store.events)
    BY DEF ReaderInv, ArchiveInv, StoreOf
  <2>. QED BY <2>1, SortedInTurn DEF ServedInOrder
<1>. QED BY <1>1, ReaderInvariance, PTL

\* The pages of an answer join into one history in that order, no event twice.
THEOREM PagesMakeOne == ReaderSpec => []PagesJoin
<1>1. ReaderInv => PagesJoin
  <2>. SUFFICES ASSUME ReaderInv, reader # NotReading,
                       NEW i \in DOMAIN reader.events, NEW j \in DOMAIN reader.events, i < j
                PROVE  \/ Position(reader.events[i]) < Position(reader.events[j])
                       \/ reader.events[i].ledger = reader.events[j].ledger
                          /\ reader.events[i].tx # reader.events[j].tx
    BY DEF PagesJoin
  <2>1. ChainOK /\ reader.events \in Seq(ToSet(chain)) /\ Sorted(reader.events)
    BY DEF ReaderInv, ArchiveInv, ReaderOK, Answer
  <2>. QED BY <2>1, SortedInTurn
<1>. QED BY <1>1, ReaderInvariance, PTL

\* An accepted history of the range the archive vouched for misses nothing of it, cut
\* events and events sharing a cursor apart.
THEOREM AcceptedWhole == ReaderSpec => []AcceptedIsWhole
<1>1. ReaderInv => AcceptedIsWhole
  <2>. SUFFICES ASSUME ReaderInv, reader.phase = "accepted", reader.to # Unbounded
                PROVE  \A ev \in ToSet(chain) \ cut :
                         Wanted(ev) /\ ~ Shadowed(ev, ToSet(chain)) => ev \in ToSet(reader.events)
    BY DEF AcceptedIsWhole
  <2>1. reader # NotReading
    BY DEF NotReading
  <2>2. WholeSoFar
    BY <2>1 DEF ReaderInv, ReaderOK
  <2>. QED BY <2>2 DEF WholeSoFar, DueBy
<1>. QED BY <1>1, ReaderInvariance, PTL

\* Behind a checkpoint that is served as complete hides no later one, neither of a
\* later ledger nor of its own transaction: what may hide is the merge of another
\* transaction of the same ledger (store.js checkpoint, compareEvents).
THEOREM CheckpointIsLast == ReaderSpec => []CheckpointIsLatest
<1>1. ReaderInv => CheckpointIsLatest
  <2>. SUFFICES ASSUME ReaderInv, NEW account \in Accounts, NEW at \in 1 .. head,
                       ServeCheckpoint(account, at).complete,
                       NEW ev \in ToSet(chain) \ cut,
                       ev.kind = "merge", account \in ev.who, ev.ledger <= at,
                       ~ Shadowed(ev, ToSet(chain))
                PROVE  LET last == ServeCheckpoint(account, at).event IN
                       /\ last # NoEvent
                       /\ \/ last = ev
                          \/ Position(ev) < Position(last)
                          \/ ev.ledger = last.ledger /\ ev.tx # last.tx
    BY DEF CheckpointIsLatest
  <2>. DEFINE E == ToSet(chain)
              served == Checkpoint(store, account, at)
  <2>1. /\ ChainOK /\ StoreOf(store, E, head) /\ CompleteUnlessCut /\ head \in Nat
        /\ HaveCursors(E) /\ E \subseteq EmittedEvent
    BY ChainFacts DEF ReaderInv, ArchiveInv, ChainOK
  <2>2. IsComplete(store, FirstLedger, at) /\ ServeCheckpoint(account, at).event = served
    BY DEF ServeCheckpoint
  <2>3. ev.ledger \in 1 .. head
    BY <2>1, ChainFacts
  <2>4. ev.ledger \in Claimed(store)
    <3>1. PICK r \in ToSet(store.ranges) : r[1] <= 1 /\ r[2] >= at
      BY <2>1, <2>2 DEF IsComplete, FirstLedger
    <3>2. r \in RangesUpTo(head)
      BY <2>1, <3>1 DEF StoreOf, ToSet
    <3>3. r[1] \in Nat /\ r[2] \in Nat
      BY <3>2 DEF RangesUpTo
    <3>4. ev.ledger \in r[1] .. r[2]
      <4>. DEFINE a == r[1]
                  b == r[2]
      <4>1. a \in Nat /\ b \in Nat /\ a <= 1 /\ b >= at
        BY <3>1, <3>3
      <4>. HIDE DEF a, b
      <4>2. ev.ledger \in a .. b
        BY <2>1, <2>3, <4>1
      <4>. QED BY <4>2 DEF a, b
    <3>. QED BY <3>4 DEF Claimed
  <2>5. store.events \in Seq(E)
    BY <2>1 DEF StoreOf
  <2>6. ToSet(store.events) \subseteq E
    BY <2>5 DEF ToSet
  <2>7. ev \in ToSet(store.events)
    BY <2>1, <2>4, <2>6 DEF CompleteUnlessCut, Shadowed
  <2>. HIDE DEF E
  <2>8. served \in E /\ NotAfter(ev, served)
    BY <2>1, <2>7, CheckpointIsOne
  <2>9. ev \in E
    BY <2>6, <2>7
  <2>. HIDE DEF served
  <2>10. served \in EmittedEvent
    BY <2>1, <2>8
  <2>11. \/ served = ev
         \/ Position(ev) < Position(served)
         \/ ev.ledger = served.ledger /\ ev.tx # served.tx
    <3>1. ev \in ToSet(chain) /\ served \in ToSet(chain)
      BY <2>8, <2>9 DEF E
    <3>. QED BY <2>1, <2>8, <3>1, CursorsKeepTurn
  <2>12. served # NoEvent
    <3>1. "ledger" \in DOMAIN served
      BY <2>10, EmittedIs
    <3>. QED BY <3>1 DEF NoEvent
  <2>. QED BY <2>2, <2>11, <2>12
<1>. QED BY <1>1, ReaderInvariance, PTL

\* Short of a restart, what is held stays held and what is claimed stays claimed.
THEOREM NothingForgotten == ReaderSpec => NeverForgets
<1>. DEFINE Held == \/ Restart
                    \/ /\ ToSet(store.events) \subseteq ToSet(store'.events)
                       /\ Claimed(store) \subseteq Claimed(store')
                       /\ store.latestLedger <= store'.latestLedger
<1>1. ReaderInv /\ [ReaderNext]_readerVars => [Held]_vars
  <2>. SUFFICES ASSUME ReaderInv, [ReaderNext]_readerVars, vars' # vars
                PROVE  Held
    OBVIOUS
  <2>1. ArchiveInv
    BY DEF ReaderInv
  <2>2. Next
    BY DEF readerVars, ReaderNext, AskVouched, AskOpenEnded, Ask, FetchPage, RequestFails
  <2>. QED BY <2>1, <2>2, NextArchive DEF StoreGrew
<1>. QED BY <1>1, ReaderInvariance, PTL DEF ReaderSpec, NeverForgets
-----------------------------------------------------------------------------
(* The hybrid source: what is picked from the chain, and the invariant. *)

Reasons == {"backfill", "rounded", "floor"}

\* s is what was picked, in their order, from the places of c after lo up to hi.
PickedFrom(s, c, lo, hi) ==
  \E place \in [1 .. Len(s) -> lo + 1 .. hi] :
    \A k \in 1 .. Len(s) :
      s[k] = c[place[k]] /\ \A j \in 1 .. k - 1 : place[j] < place[k]

CursorIn(k, c, h) ==
  /\ k \in RpcCursor
  /\ k # NoRpcCursor =>
       /\ k.ledger \in 1 .. h
       /\ Through(c, k.ledger - 1) <= k.upTo /\ k.upTo <= Through(c, k.ledger)

\* Of the first n events of c, the wanted ones are in E.
Covered(c, n, E) == \A i \in 1 .. n : c[i].ledger >= ClientFrom => c[i] \in E

Passed(passedOver) == UNION {passedOver[why] : why \in Reasons}

Reading(c) ==
  [ phase : {"read"}, start : Nat, cursor : RpcCursor, old : Seq(ToSet(c)),
    recent : Seq(ToSet(c)), skips : [Reasons -> SUBSET ToSet(c)] ]

\* What a read holds, and the place of the chain it has come to.
Holding(q) == q.old \o q.recent

Reached(q, c) == IF q.cursor = NoRpcCursor THEN Through(c, q.start - 1) ELSE q.cursor.upTo

\* A read that has no page yet and starts where the client's history starts.
Fresh(q) == q.cursor = NoRpcCursor /\ q.start = ClientFrom

\* A read from cursor k on, when the events in E are accounted for.
ReadingIn(q, k, c, h, E) ==
  /\ q \in Reading(c)
  /\ CursorIn(q.cursor, c, h)
  /\ k.upTo <= Reached(q, c)
  /\ PickedFrom(Holding(q), c, k.upTo, Reached(q, c))
  /\ \/ Fresh(q)
     \/ /\ q.cursor = NoRpcCursor => q.start - 1 <= h
        /\ Covered(c, Reached(q, c), E \cup ToSet(Holding(q)) \cup Passed(q.skips))

NeededAfter(k) == IF k = NoRpcCursor THEN ClientFrom ELSE k.ledger + 1

Backfilling(q, k, h) ==
  /\ q \in [phase : {"backfill"}, seam : Nat]
  /\ q.seam <= h /\ NeededAfter(k) < q.seam

SyncIn(q, k, c, h, E) ==
  \/ q = NoSync
  \/ q = [phase |-> "health"]
  \/ Backfilling(q, k, h)
  \/ ReadingIn(q, k, c, h, E)

Known == ToSet(delivered) \cup Passed(skipped)

HybridInv ==
  /\ ChainOK /\ oldest + Retention <= head + 1
  /\ CursorIn(cursor, chain, head)
  /\ delivered \in Seq(ToSet(chain))
  /\ PickedFrom(delivered, chain, 0, cursor.upTo)
  /\ skipped \in [Reasons -> SUBSET ToSet(chain)]
  /\ Covered(chain, cursor.upTo, Known)
  /\ SyncIn(sync, cursor, chain, head, Known)

-----------------------------------------------------------------------------
(* What is picked from a sequence. *)

LEMMA NothingPicked ==
  ASSUME NEW c, NEW lo \in Int, NEW hi \in Int
  PROVE  PickedFrom(<< >>, c, lo, hi)
<1>. DEFINE place == [k \in 1 .. 0 |-> k]
<1>1. 1 .. Len(<< >>) = {}
  OBVIOUS
<1>2. place \in [1 .. Len(<< >>) -> lo + 1 .. hi]
  OBVIOUS
<1>. HIDE DEF place
<1>. QED BY <1>1, <1>2 DEF PickedFrom

LEMMA PickedWider ==
  ASSUME NEW c, NEW s, NEW lo \in Int, NEW hi \in Int, PickedFrom(s, c, lo, hi),
         NEW below \in Int, NEW above \in Int, below <= lo, hi <= above
  PROVE  PickedFrom(s, c, below, above)
<1>1. PICK place \in [1 .. Len(s) -> lo + 1 .. hi] :
        \A k \in 1 .. Len(s) :
          s[k] = c[place[k]] /\ \A j \in 1 .. k - 1 : place[j] < place[k]
  BY DEF PickedFrom
<1>2. lo + 1 .. hi \subseteq below + 1 .. above
  OBVIOUS
<1>3. place \in [1 .. Len(s) -> below + 1 .. above]
  BY <1>1, <1>2
<1>. QED BY <1>1, <1>3 DEF PickedFrom

LEMMA PickedStays ==
  ASSUME NEW S, NEW c \in Seq(S), NEW d, Extends(d, c), NEW s,
         NEW lo \in Nat, NEW hi \in Nat, hi <= Len(c), PickedFrom(s, c, lo, hi)
  PROVE  PickedFrom(s, d, lo, hi)
<1>1. PICK place \in [1 .. Len(s) -> lo + 1 .. hi] :
        \A k \in 1 .. Len(s) :
          s[k] = c[place[k]] /\ \A j \in 1 .. k - 1 : place[j] < place[k]
  BY DEF PickedFrom
<1>2. ASSUME NEW i \in lo + 1 .. hi PROVE d[i] = c[i]
  <2>1. i \in DOMAIN c
    OBVIOUS
  <2>. QED BY <2>1 DEF Extends
<1>3. \A k \in 1 .. Len(s) : s[k] = d[place[k]]
  BY <1>1, <1>2
<1>. QED BY <1>1, <1>3 DEF PickedFrom

LEMMA PickedStretch ==
  ASSUME NEW S, NEW c \in Seq(S), NEW n \in Nat, NEW m \in Nat, n <= m, m <= Len(c)
  PROVE  PickedFrom(SubSeq(c, n + 1, m), c, n, m)
<1>. DEFINE a == SubSeq(c, n + 1, m)
            place == [k \in 1 .. m - n |-> n + k]
<1>0. Len(c) \in Nat /\ DOMAIN c = 1 .. Len(c)
  OBVIOUS
<1>1. Len(a) = m - n /\ \A i \in 1 .. m - n : a[i] = c[n + i]
  BY <1>0
<1>2. place \in [1 .. Len(a) -> n + 1 .. m]
  <2>1. \A k \in 1 .. m - n : n + k \in n + 1 .. m
    OBVIOUS
  <2>. QED BY <1>1, <2>1
<1>3. \A k \in 1 .. m - n : place[k] = n + k /\ \A j \in 1 .. k - 1 : place[j] < place[k]
  OBVIOUS
<1>. HIDE DEF a, place
<1>4. \A k \in 1 .. Len(a) :
        a[k] = c[place[k]] /\ \A j \in 1 .. k - 1 : place[j] < place[k]
  BY <1>1, <1>3
<1>5. PickedFrom(a, c, n, m)
  BY <1>2, <1>4 DEF PickedFrom
<1>. QED BY <1>5 DEF a

LEMMA PickedKept ==
  ASSUME NEW S, NEW s \in Seq(S), NEW T, NEW lo \in Nat, NEW hi \in Nat,
         \A i \in DOMAIN s : s[i] \in T => lo < i /\ i <= hi
  PROVE  /\ Keep(s, T) \in Seq(S) /\ ToSet(Keep(s, T)) = ToSet(s) \cap T
         /\ PickedFrom(Keep(s, T), s, lo, hi)
<1>. DEFINE t == Keep(s, T)
<1>1. t \in Seq(S) /\ TakenFrom(t, s, Len(s)) /\ ToSet(t) = ToSet(s) \cap T
  BY KeepKeeps DEF Kept
<1>. HIDE DEF t
<1>2. PICK place \in [1 .. Len(t) -> 1 .. Len(s)] :
        \A k \in 1 .. Len(t) :
          t[k] = s[place[k]] /\ \A j \in 1 .. k - 1 : place[j] < place[k]
  BY <1>1 DEF TakenFrom
<1>3. ASSUME NEW k \in 1 .. Len(t) PROVE place[k] \in lo + 1 .. hi
  <2>1. t[k] \in T
    BY <1>1 DEF ToSet
  <2>2. place[k] \in DOMAIN s /\ place[k] \in Nat /\ s[place[k]] = t[k]
    BY <1>2
  <2>. QED BY <2>1, <2>2
<1>4. place \in [1 .. Len(t) -> lo + 1 .. hi]
  BY <1>2, <1>3
<1>5. PickedFrom(t, s, lo, hi)
  BY <1>2, <1>4 DEF PickedFrom
<1>. QED BY <1>1, <1>5 DEF t

LEMMA PickedJoin ==
  ASSUME NEW S, NEW c, NEW a \in Seq(S), NEW b \in Seq(S),
         NEW lo \in Int, NEW mid \in Int, NEW hi \in Int, lo <= mid, mid <= hi,
         PickedFrom(a, c, lo, mid), PickedFrom(b, c, mid, hi)
  PROVE  PickedFrom(a \o b, c, lo, hi)
<1>. DEFINE N == Len(a)
            M == Len(b)
            t == a \o b
<1>0. /\ N \in Nat /\ M \in Nat /\ Len(t) = N + M
      /\ \A i \in 1 .. N : t[i] = a[i]
      /\ \A i \in 1 .. M : t[N + i] = b[i]
  OBVIOUS
<1>. HIDE DEF N, M, t
<1>11. N \in Nat /\ M \in Nat
  BY <1>0
<1>1. PICK first \in [1 .. N -> lo + 1 .. mid] :
        \A k \in 1 .. N : a[k] = c[first[k]] /\ \A j \in 1 .. k - 1 : first[j] < first[k]
  BY DEF PickedFrom, N
<1>2. PICK second \in [1 .. M -> mid + 1 .. hi] :
        \A k \in 1 .. M : b[k] = c[second[k]] /\ \A j \in 1 .. k - 1 : second[j] < second[k]
  BY DEF PickedFrom, M
<1>. DEFINE place == [k \in 1 .. N + M |-> IF k <= N THEN first[k] ELSE second[k - N]]
<1>3. ASSUME NEW k \in 1 .. N + M
      PROVE  \/ k \in 1 .. N /\ place[k] = first[k] /\ t[k] = a[k]
             \/ k - N \in 1 .. M /\ place[k] = second[k - N] /\ t[k] = b[k - N]
  <2>1. CASE k <= N
    <3>1. k \in 1 .. N
      BY <1>0, <2>1
    <3>. QED BY <1>0, <2>1, <3>1
  <2>2. CASE ~ (k <= N)
    <3>1. k - N \in 1 .. M /\ N + (k - N) = k
      BY <1>11, <2>2
    <3>2. t[N + (k - N)] = b[k - N]
      BY <1>0, <3>1
    <3>. QED BY <2>2, <3>1, <3>2
  <2>. QED BY <2>1, <2>2
<1>4. \A k \in 1 .. N : first[k] \in lo + 1 .. mid
  BY <1>1
<1>5. \A k \in 1 .. M : second[k] \in mid + 1 .. hi
  BY <1>2
<1>12. \A x \in lo + 1 .. mid, y \in mid + 1 .. hi : x < y
  OBVIOUS
<1>6. \A k \in 1 .. N + M : place[k] \in lo + 1 .. hi
  BY <1>3, <1>4, <1>5
<1>7. place \in [1 .. Len(t) -> lo + 1 .. hi]
  BY <1>0, <1>6
<1>8. ASSUME NEW k \in 1 .. N + M PROVE t[k] = c[place[k]]
  BY <1>1, <1>2, <1>3
<1>9. ASSUME NEW k \in 1 .. N + M, NEW j \in 1 .. k - 1 PROVE place[j] < place[k]
  <2>0. j \in 1 .. N + M /\ j < k
    BY <1>11
  <2>1. CASE k \in 1 .. N /\ place[k] = first[k]
    <3>1. j \in 1 .. N /\ place[j] = first[j]
      BY <1>0, <2>0, <2>1
    <3>. QED BY <1>1, <2>1, <3>1
  <2>2. CASE k - N \in 1 .. M /\ place[k] = second[k - N]
    <3>1. CASE j \in 1 .. N /\ place[j] = first[j]
      <4>1. first[j] \in lo + 1 .. mid /\ second[k - N] \in mid + 1 .. hi
        BY <1>4, <1>5, <2>2, <3>1
      <4>2. first[j] < second[k - N]
        BY <4>1, <1>12
      <4>. QED BY <2>2, <3>1, <4>2
    <3>2. CASE j - N \in 1 .. M /\ place[j] = second[j - N]
      <4>1. \A n, p, q \in Int : p < q /\ 1 <= p - n => p - n \in 1 .. (q - n) - 1
        OBVIOUS
      <4>2. N \in Int /\ j \in Int /\ k \in Int /\ j < k
        BY <1>11, <2>0
      <4>3. 1 <= j - N
        BY <3>2, <4>2
      <4>4. j - N \in 1 .. (k - N) - 1
        BY ONLY <4>1, <4>2, <4>3
      <4>. QED BY <1>2, <2>2, <3>2, <4>4
    <3>. QED BY <1>3, <2>0, <3>1, <3>2
  <2>. QED BY <1>3, <2>1, <2>2
<1>. HIDE DEF place
<1>10. PickedFrom(t, c, lo, hi)
  <2>1. Len(t) = N + M
    BY <1>0
  <2>2. \A k \in 1 .. Len(t) : t[k] = c[place[k]] /\ \A j \in 1 .. k - 1 : place[j] < place[k]
    BY <2>1, <1>8, <1>9
  <2>. QED BY <1>7, <2>2 DEF PickedFrom
<1>. QED BY <1>10 DEF t

\* What is picked from the chain is in apply order.
LEMMA PickedInOrder ==
  ASSUME ChainOK, NEW s, NEW lo \in Nat, NEW hi \in Nat, hi <= Len(chain),
         s \in Seq(ToSet(chain)), PickedFrom(s, chain, lo, hi)
  PROVE  \A i, j \in DOMAIN s : i < j => Position(s[i]) < Position(s[j])
<1>1. PICK place \in [1 .. Len(s) -> lo + 1 .. hi] :
        \A k \in 1 .. Len(s) :
          s[k] = chain[place[k]] /\ \A j \in 1 .. k - 1 : place[j] < place[k]
  BY DEF PickedFrom
<1>2. DOMAIN chain = 1 .. Len(chain) /\ Len(chain) \in Nat /\ Distinct(chain)
  BY ChainFacts
<1>3. ASSUME NEW n \in DOMAIN chain PROVE Position(chain[n]) = n
  <2>1. \A i \in DOMAIN chain : chain[i] = chain[n] => i = n
    BY <1>2 DEF Distinct
  <2>. QED BY <2>1 DEF Position
<1>4. DOMAIN s = 1 .. Len(s)
  OBVIOUS
<1>5. ASSUME NEW k \in 1 .. Len(s) PROVE Position(s[k]) = place[k]
  <2>1. place[k] \in lo + 1 .. hi /\ s[k] = chain[place[k]]
    BY <1>1
  <2>2. place[k] \in DOMAIN chain
    BY <1>2, <2>1
  <2>. QED BY <1>3, <2>1, <2>2
<1>. SUFFICES ASSUME NEW i \in DOMAIN s, NEW j \in DOMAIN s, i < j
              PROVE  Position(s[i]) < Position(s[j])
  OBVIOUS
<1>6. i \in 1 .. Len(s) /\ j \in 1 .. Len(s) /\ i \in 1 .. j - 1
  BY <1>4
<1>. QED BY <1>1, <1>5, <1>6

-----------------------------------------------------------------------------
(* What DedupeById does to events that come in order. *)

LEMMA PutLast ==
  ASSUME NEW S, NEW s \in Seq(S), NEW n \in 1 .. Len(s)
  PROVE  /\ SubSeq(s, 1, n - 1) \in Seq(S) /\ SubSeq(s, 1, n) \in Seq(S)
         /\ InsertBefore(SubSeq(s, 1, n - 1), s[n], {}) = SubSeq(s, 1, n)
<1>. DEFINE u == SubSeq(s, 1, n - 1)
            v == SubSeq(s, 1, n)
            t == InsertBefore(u, s[n], {})
<1>1. u \in Seq(S) /\ Len(u) = n - 1 /\ \A k \in 1 .. n - 1 : u[k] = s[k]
  OBVIOUS
<1>2. v \in Seq(S) /\ Len(v) = n /\ \A k \in 1 .. n : v[k] = s[k]
  OBVIOUS
<1>3. s[n] \in S /\ {} \in SUBSET DOMAIN u
  OBVIOUS
<1>. HIDE DEF u, v, t
<1>4. t \in Seq(S) /\ \E i \in 1 .. Len(u) + 1 : Inserted(t, u, i, s[n]) /\ (i <= Len(u) => i \in {})
  <2>. DEFINE none == {}
              x == s[n]
  <2>1. u \in Seq(S) /\ x \in S /\ none \in SUBSET DOMAIN u
    BY <1>1, <1>3
  <2>. HIDE DEF none, x
  <2>2. /\ InsertBefore(u, x, none) \in Seq(S)
        /\ \E i \in 1 .. Len(u) + 1 :
             /\ Inserted(InsertBefore(u, x, none), u, i, x)
             /\ \A j \in 1 .. i - 1 : j \notin none
             /\ i <= Len(u) => i \in none
    BY <2>1, InsertBeforeInserts
  <2>. QED BY <2>2 DEF none, x, t
<1>5. PICK i \in 1 .. Len(u) + 1 : Inserted(t, u, i, s[n]) /\ (i <= Len(u) => i \in {})
  BY <1>4
<1>6. i = n
  BY <1>1, <1>5
<1>7. Len(t) = n /\ \A k \in 1 .. n : t[k] = v[k]
  <2>1. /\ Len(t) = Len(u) + 1
        /\ \A k \in 1 .. Len(u) + 1 :
             t[k] = IF k < n THEN u[k] ELSE IF k = n THEN s[n] ELSE u[k - 1]
    BY <1>5, <1>6 DEF Inserted
  <2>2. Len(t) = n
    BY <1>1, <2>1
  <2>3. ASSUME NEW k \in 1 .. n PROVE t[k] = v[k]
    <3>1. k \in 1 .. Len(u) + 1 /\ (k < n \/ k = n)
      BY <1>1
    <3>2. CASE k < n
      <4>1. t[k] = u[k]
        BY <2>1, <3>1, <3>2
      <4>2. k \in 1 .. n - 1
        BY <3>2
      <4>. QED BY <1>1, <1>2, <4>1, <4>2
    <3>3. CASE k = n
      BY <1>2, <2>1, <3>1, <3>3
    <3>. QED BY <3>1, <3>2, <3>3
  <2>. QED BY <2>2, <2>3
<1>8. t = v
  <2>1. t \in Seq(S) /\ v \in Seq(S) /\ Len(t) = Len(v) /\ \A k \in 1 .. Len(t) : t[k] = v[k]
    BY <1>2, <1>4, <1>7
  <2>. QED BY ONLY <2>1, SameSequence
<1>. QED BY <1>1, <1>2, <1>8 DEF u, v, t

\* Events in the order of their ledgers, each with an id of its own.
InLedgerOrder(s) ==
  \A i, j \in DOMAIN s :
    i < j => s[i].ledger <= s[j].ledger /\ NaturalEventId(s[i]) # NaturalEventId(s[j])

LEMMA DedupeKeeps ==
  ASSUME NEW S, \A ev \in S : ev.ledger \in Int, NEW events \in Seq(S), InLedgerOrder(events)
  PROVE  DedupeById(events) = events
<1>. DEFINE N == Len(events)
            all == ToSet(events)
            Q == Seq(all)
            firsts == {i \in DOMAIN events :
                         \A j \in 1 .. i - 1 :
                           NaturalEventId(events[j]) # NaturalEventId(events[i])}
            put(s, ev) == InsertBefore(s, ev, {i \in DOMAIN s : ev.ledger < s[i].ledger})
            inserted == [ev \in all |-> [s \in Q |->
                           InsertBefore(s, ev, {i \in DOMAIN s : ev.ledger < s[i].ledger})]]
            Turn(f, n) == IF n = 0 THEN << >>
                          ELSE IF n \in firsts THEN inserted[events[n]][f[n - 1]] ELSE f[n - 1]
            Loop(f) == f = [n \in 0 .. N |-> Turn(f, n)]
            sorted == CHOOSE f : Loop(f)
            g == [n \in 0 .. N |-> SubSeq(events, 1, n)]
<1>1. N \in Nat /\ DOMAIN events = 1 .. N /\ events \in Q
      /\ \A n \in 1 .. N : events[n] \in all /\ events[n] \in S
  BY DEF ToSet
<1>2. ASSUME NEW i \in DOMAIN events PROVE i \in firsts
  <2>1. ASSUME NEW j \in 1 .. i - 1
        PROVE  NaturalEventId(events[j]) # NaturalEventId(events[i])
    <3>1. j \in DOMAIN events /\ j < i
      BY <1>1
    <3>. QED BY <3>1 DEF InLedgerOrder
  <2>. QED BY <2>1
<1>3. ASSUME NEW n \in 1 .. N
      PROVE  /\ SubSeq(events, 1, n - 1) \in Q
             /\ put(SubSeq(events, 1, n - 1), events[n]) = SubSeq(events, 1, n)
  <2>. DEFINE s == SubSeq(events, 1, n - 1)
  <2>1. s \in Q /\ InsertBefore(s, events[n], {}) = SubSeq(events, 1, n)
    <3>. HIDE DEF all
    <3>. QED BY <1>1, PutLast
  <2>2. DOMAIN s = 1 .. n - 1 /\ \A i \in 1 .. n - 1 : s[i] = events[i]
    BY <1>1
  <2>. HIDE DEF s
  <2>3. ASSUME NEW i \in DOMAIN s PROVE ~ (events[n].ledger < s[i].ledger)
    <3>1. i \in DOMAIN events /\ n \in DOMAIN events /\ i < n /\ s[i] = events[i]
      BY <1>1, <2>2
    <3>2. s[i].ledger <= events[n].ledger
      BY <3>1 DEF InLedgerOrder
    <3>3. s[i].ledger \in Int /\ events[n].ledger \in Int
      BY <1>1, <3>1
    <3>. QED BY <3>2, <3>3
  <2>4. {i \in DOMAIN s : events[n].ledger < s[i].ledger} = {}
    BY <2>3
  <2>. QED BY <2>1, <2>4 DEF s
<1>. HIDE DEF all, Q
<1>4. \A ev \in all : \A s \in Q : inserted[ev][s] = put(s, ev)
  OBVIOUS
<1>. HIDE DEF put
<1>5. ASSUME NEW n \in 1 .. N, NEW f, f[n - 1] = SubSeq(events, 1, n - 1)
      PROVE  Turn(f, n) = SubSeq(events, 1, n)
  <2>1. n # 0 /\ n \in firsts
    BY <1>1, <1>2
  <2>2. inserted[events[n]][f[n - 1]] = put(f[n - 1], events[n])
    BY <1>1, <1>3, <1>4, <1>5
  <2>3. inserted[events[n]][f[n - 1]] = SubSeq(events, 1, n)
    BY <1>3, <1>5, <2>2
  <2>. HIDE DEF inserted, firsts
  <2>. QED BY <2>1, <2>3
<1>6. SubSeq(events, 1, 0) = << >>
  BY <1>1
<1>7. \A f : Turn(f, 0) = << >>
  OBVIOUS
<1>. HIDE DEF Turn
<1>8. Loop(g)
  <2>1. ASSUME NEW n \in 0 .. N PROVE g[n] = Turn(g, n)
    <3>1. CASE n = 0
      BY <1>1, <1>6, <1>7, <3>1
    <3>2. CASE n # 0
      <4>1. n \in 1 .. N /\ n - 1 \in 0 .. N
        BY <3>2
      <4>2. g[n - 1] = SubSeq(events, 1, n - 1) /\ g[n] = SubSeq(events, 1, n)
        BY <4>1
      <4>. HIDE DEF g
      <4>. QED BY <1>5, <4>1, <4>2
    <3>. QED BY <3>1, <3>2
  <2>. QED BY <2>1
<1>9. Loop(sorted)
  <2>. HIDE DEF Loop
  <2>. QED BY <1>8, Zenon
<1>10. \A n \in 0 .. N : sorted[n] = Turn(sorted, n)
  <2>. HIDE DEF sorted
  <2>. QED BY <1>9
<1>11. DedupeById(events) = sorted[N]
  BY Zenon DEF DedupeById, inserted, Q, all, Turn, firsts
<1>. HIDE DEF sorted
<1>12. \A n \in 0 .. N : sorted[n] = SubSeq(events, 1, n)
  <2>. DEFINE G == {n \in Nat : n <= N => sorted[n] = SubSeq(events, 1, n)}
  <2>1. 0 \in G
    <3>1. 0 \in 0 .. N
      BY <1>1
    <3>2. sorted[0] = << >>
      BY <1>7, <1>10, <3>1, Zenon
    <3>. QED BY <1>6, <3>2
  <2>2. ASSUME NEW n \in Nat, n \in G PROVE n + 1 \in G
    <3>. SUFFICES ASSUME n + 1 <= N PROVE sorted[n + 1] = SubSeq(events, 1, n + 1)
      OBVIOUS
    <3>1. sorted[n] = SubSeq(events, 1, n) /\ n + 1 \in 1 .. N /\ n + 1 \in 0 .. N
          /\ n + 1 - 1 = n
      BY <1>1, <2>2
    <3>2. Turn(sorted, n + 1) = SubSeq(events, 1, n + 1)
      <4>. DEFINE m == n + 1
      <4>1. m \in 1 .. N /\ m - 1 = n
        BY <3>1
      <4>. HIDE DEF m
      <4>2. sorted[m - 1] = SubSeq(events, 1, m - 1)
        BY <3>1, <4>1
      <4>3. Turn(sorted, m) = SubSeq(events, 1, m)
        BY <1>5, <4>1, <4>2
      <4>. QED BY <4>3 DEF m
    <3>. QED BY <1>10, <3>1, <3>2
  <2>3. Nat \subseteq G
    <3>. HIDE DEF G
    <3>. QED BY <2>1, <2>2, SetInduction
  <2>. QED BY <2>3
<1>13. sorted[N] = SubSeq(events, 1, N)
  BY <1>1, <1>12
<1>14. SubSeq(events, 1, N) = events
  BY <1>1
<1>. QED BY <1>11, <1>13, <1>14

\* What is picked from the chain needs no deduplication.
LEMMA PickedStaysAsItIs ==
  ASSUME ChainOK, NEW s \in Seq(ToSet(chain)), NEW lo \in Nat, NEW hi \in Nat,
         hi <= Len(chain), PickedFrom(s, chain, lo, hi)
  PROVE  DedupeById(s) = s
<1>. DEFINE S == ToSet(chain)
<1>1. PICK place \in [1 .. Len(s) -> lo + 1 .. hi] :
        \A k \in 1 .. Len(s) :
          s[k] = chain[place[k]] /\ \A j \in 1 .. k - 1 : place[j] < place[k]
  BY DEF PickedFrom
<1>2. /\ DOMAIN chain = 1 .. Len(chain) /\ Len(chain) \in Nat /\ S \subseteq EmittedEvent
      /\ DOMAIN s = 1 .. Len(s) /\ Len(s) \in Nat
  BY ChainFacts
<1>3. ASSUME NEW i \in DOMAIN s, NEW j \in DOMAIN s, i < j
      PROVE  s[i].ledger <= s[j].ledger /\ NaturalEventId(s[i]) # NaturalEventId(s[j])
  <2>1. i \in 1 .. Len(s) /\ j \in 1 .. Len(s) /\ i \in 1 .. j - 1
    BY <1>2, <1>3
  <2>2. place[i] \in lo + 1 .. hi /\ place[j] \in lo + 1 .. hi /\ place[i] < place[j]
        /\ s[i] = chain[place[i]] /\ s[j] = chain[place[j]]
    BY <1>1, <2>1
  <2>3. place[i] \in DOMAIN chain /\ place[j] \in DOMAIN chain
    BY <1>2, <2>2
  <2>4. InTurn(s[i], s[j])
    BY <2>2, <2>3 DEF ChainOK
  <2>5. s[i] \in EmittedEvent /\ s[j] \in EmittedEvent
    BY <1>2
  <2>. DEFINE a == s[i]
              b == s[j]
  <2>6. InTurn(a, b) /\ a \in EmittedEvent /\ b \in EmittedEvent
    BY <2>4, <2>5
  <2>. HIDE DEF a, b
  <2>7. /\ a.ledger \in Nat /\ a.op \in Nat /\ a.index \in Nat
        /\ b.ledger \in Nat /\ b.op \in Nat /\ b.index \in Nat
    BY <2>6, EmittedIs
  <2>8. a.ledger <= b.ledger
    BY <2>6 DEF InTurn
  <2>9. ASSUME NaturalEventId(a) = NaturalEventId(b) PROVE FALSE
    <3>1. a.ledger = b.ledger /\ a.tx = b.tx /\ a.op = b.op /\ a.index = b.index
      BY <2>9 DEF NaturalEventId
    <3>. QED BY <2>6, <2>7, <3>1 DEF InTurn
  <2>. QED BY <2>8, <2>9 DEF a, b
<1>4. InLedgerOrder(s)
  BY <1>3 DEF InLedgerOrder
<1>5. \A ev \in S : ev.ledger \in Int
  BY <1>2, EmittedIs
<1>6. s \in Seq(S)
  OBVIOUS
<1>. HIDE DEF S
<1>. QED BY <1>4, <1>5, <1>6, DedupeKeeps

-----------------------------------------------------------------------------
(* What is said of the chain stays true when ledgers close. *)

\* d is c with events of later ledgers behind it.
Later(d, k, c, h) ==
  /\ c \in Seq(EmittedEvent) /\ d \in Seq(EmittedEvent) /\ Extends(d, c)
  /\ h \in Nat /\ k \in Nat /\ h <= k
  /\ \A i \in DOMAIN d : i \notin DOMAIN c => d[i].ledger > h

LEMMA ChainLater ==
  ASSUME ChainOK, CloseLedger
  PROVE  Later(chain', head', chain, head) /\ ChainOK' /\ head' = head + 1 /\ oldest' = oldest
<1>1. /\ ChainOK' /\ head' = head + 1 /\ oldest' = oldest /\ Extends(chain', chain)
      /\ \A ev \in ToSet(chain') : ev \in ToSet(chain) \/ ev.ledger = head + 1
  BY ChainGrows
<1>2. head \in Nat /\ head' \in Nat /\ head <= head'
  BY <1>1 DEF ChainOK
<1>3. chain \in Seq(EmittedEvent) /\ chain' \in Seq(EmittedEvent)
  BY <1>1 DEF ChainOK
<1>4. ASSUME NEW i \in DOMAIN chain', i \notin DOMAIN chain PROVE chain'[i].ledger > head
  <2>1. chain'[i].ledger = head + 1 \/ chain'[i] \in ToSet(chain)
    BY <1>1 DEF ToSet
  <2>2. ASSUME chain'[i] \in ToSet(chain) PROVE FALSE
    <3>1. PICK j \in DOMAIN chain : chain'[i] = chain[j]
      BY <2>2 DEF ToSet
    <3>2. j \in DOMAIN chain' /\ chain'[j] = chain'[i] /\ j # i
      BY <1>1, <1>4, <3>1 DEF Extends
    <3>3. j \in 1 .. Len(chain') /\ i \in 1 .. Len(chain')
      BY <1>3, <3>2
    <3>4. j < i \/ i < j
      BY <3>2, <3>3
    <3>5. InTurn(chain'[i], chain'[i])
      BY <1>1, <3>2, <3>4 DEF ChainOK
    <3>6. chain'[i] \in EmittedEvent
      BY <1>3, <3>3
    <3>. DEFINE ev == chain'[i]
    <3>. HIDE DEF ev
    <3>7. InTurn(ev, ev) /\ ev \in EmittedEvent
      BY <3>5, <3>6 DEF ev
    <3>8. ev.op \in Nat /\ ev.index \in Nat
      BY <3>7, EmittedIs
    <3>. QED BY <3>7, <3>8 DEF InTurn
  <2>. QED BY <1>2, <2>1, <2>2
<1>. QED BY <1>1, <1>2, <1>3, <1>4 DEF Later

LEMMA LaterIs ==
  ASSUME NEW d, NEW k, NEW c, NEW h, Later(d, k, c, h)
  PROVE  /\ Len(c) \in Nat /\ Len(d) \in Nat /\ Len(c) <= Len(d)
         /\ DOMAIN c = 1 .. Len(c) /\ DOMAIN d = 1 .. Len(d)
         /\ \A i \in 1 .. Len(c) : d[i] = c[i]
         /\ ToSet(c) \subseteq ToSet(d)
         /\ \A l \in Int : /\ Through(c, l) \in Nat /\ Through(d, l) \in Nat
                           /\ Through(c, l) <= Through(d, l) /\ Through(c, l) <= Len(c)
         /\ \A l \in Int : l <= h => Through(d, l) = Through(c, l)
<1>1. c \in Seq(EmittedEvent) /\ d \in Seq(EmittedEvent) /\ Extends(d, c) /\ h \in Nat
  BY DEF Later
<1>2. Len(c) \in Nat /\ Len(d) \in Nat /\ DOMAIN c = 1 .. Len(c) /\ DOMAIN d = 1 .. Len(d)
  BY <1>1
<1>3. Len(c) <= Len(d) /\ \A i \in 1 .. Len(c) : d[i] = c[i]
  <2>1. \A i \in 1 .. Len(c) : d[i] = c[i] /\ i \in 1 .. Len(d)
    BY <1>1, <1>2 DEF Extends
  <2>2. Len(c) = 0 \/ Len(c) \in 1 .. Len(c)
    BY <1>2
  <2>. QED BY <1>2, <2>1, <2>2
<1>4. ToSet(c) \subseteq ToSet(d)
  BY <1>1 DEF ToSet, Extends
<1>5. \A l \in Int : /\ Through(c, l) \in Nat /\ Through(d, l) \in Nat
                     /\ Through(c, l) <= Through(d, l) /\ Through(c, l) <= Len(c)
  BY <1>1, ThroughStays
<1>6. ASSUME NEW l \in Int, l <= h PROVE Through(d, l) = Through(c, l)
  <2>1. ASSUME NEW i \in DOMAIN d PROVE d[i].ledger <= l <=> i \in DOMAIN c /\ c[i].ledger <= l
    <3>1. CASE i \in DOMAIN c
      BY <1>1, <3>1 DEF Extends
    <3>2. CASE i \notin DOMAIN c
      <4>1. d[i].ledger > h
        BY <3>2 DEF Later
      <4>2. d[i].ledger \in Nat
        BY <1>1, EmittedIs
      <4>. QED BY <1>1, <1>6, <3>2, <4>1, <4>2
    <3>. QED BY <3>1, <3>2
  <2>2. {i \in DOMAIN d : d[i].ledger <= l} = {i \in DOMAIN c : c[i].ledger <= l}
    <3>1. DOMAIN c \subseteq DOMAIN d
      BY <1>1 DEF Extends
    <3>. QED BY <2>1, <3>1
  <2>. QED BY <2>2 DEF Through
<1>. QED BY <1>2, <1>3, <1>4, <1>5, <1>6

LEMMA CursorStays ==
  ASSUME NEW d, NEW k, NEW c, NEW h, Later(d, k, c, h), NEW cur, CursorIn(cur, c, h)
  PROVE  CursorIn(cur, d, k) /\ cur.upTo \in Nat /\ cur.upTo <= Len(c)
<1>1. cur.ledger \in Nat /\ cur.upTo \in Nat /\ cur \in RpcCursor
  BY DEF CursorIn, RpcCursor
<1>2. h \in Nat /\ k \in Nat /\ h <= k /\ Len(c) \in Nat
  BY LaterIs DEF Later
<1>3. CASE cur = NoRpcCursor
  BY <1>1, <1>2, <1>3 DEF CursorIn, NoRpcCursor
<1>4. CASE cur # NoRpcCursor
  <2>. DEFINE l == cur.ledger
  <2>1. l \in 1 .. h /\ Through(c, l - 1) <= cur.upTo /\ cur.upTo <= Through(c, l)
    BY <1>4 DEF CursorIn
  <2>. HIDE DEF l
  <2>2. l \in Int /\ l - 1 \in Int /\ l <= h /\ l - 1 <= h /\ l \in 1 .. k
    BY <1>2, <2>1
  <2>3. Through(d, l) = Through(c, l) /\ Through(d, l - 1) = Through(c, l - 1)
        /\ Through(c, l) <= Len(c) /\ Through(c, l) \in Nat
    BY <2>2, LaterIs
  <2>4. cur.upTo <= Len(c)
    BY <1>1, <1>2, <2>1, <2>3
  <2>5. l \in 1 .. k /\ Through(d, l - 1) <= cur.upTo /\ cur.upTo <= Through(d, l)
    BY <2>1, <2>2, <2>3
  <2>. QED BY <1>1, <2>4, <2>5 DEF CursorIn, l
<1>. QED BY <1>3, <1>4

LEMMA CoveredStays ==
  ASSUME NEW d, NEW k, NEW c, NEW h, Later(d, k, c, h), NEW n \in Nat, n <= Len(c),
         NEW E, Covered(c, n, E)
  PROVE  Covered(d, n, E)
<1>1. Len(c) \in Nat /\ \A i \in 1 .. Len(c) : d[i] = c[i]
  BY LaterIs
<1>2. \A i \in 1 .. n : i \in 1 .. Len(c)
  BY <1>1
<1>. QED BY <1>1, <1>2 DEF Covered

LEMMA ReadingIs ==
  ASSUME NEW c, NEW q \in Reading(c)
  PROVE  /\ q.phase = "read" /\ q.start \in Nat /\ q.cursor \in RpcCursor
         /\ q.old \in Seq(ToSet(c)) /\ q.recent \in Seq(ToSet(c))
         /\ Holding(q) \in Seq(ToSet(c))
         /\ q.skips \in [Reasons -> SUBSET ToSet(c)]
         /\ DOMAIN q = {"phase", "start", "cursor", "old", "recent", "skips"}
<1>1. /\ q.phase = "read" /\ q.start \in Nat /\ q.cursor \in RpcCursor
      /\ q.old \in Seq(ToSet(c)) /\ q.recent \in Seq(ToSet(c))
      /\ q.skips \in [Reasons -> SUBSET ToSet(c)]
      /\ DOMAIN q = {"phase", "start", "cursor", "old", "recent", "skips"}
  BY DEF Reading
<1>2. Holding(q) \in Seq(ToSet(c))
  BY <1>1 DEF Holding
<1>. QED BY <1>1, <1>2

LEMMA ReadingStays ==
  ASSUME NEW c, NEW d, ToSet(c) \subseteq ToSet(d), NEW q \in Reading(c)
  PROVE  q \in Reading(d)
<1>1. /\ q.phase \in {"read"} /\ q.start \in Nat /\ q.cursor \in RpcCursor
      /\ q.old \in Seq(ToSet(c)) /\ q.recent \in Seq(ToSet(c))
      /\ q.skips \in [Reasons -> SUBSET ToSet(c)]
      /\ q = [ phase |-> q.phase, start |-> q.start, cursor |-> q.cursor, old |-> q.old,
               recent |-> q.recent, skips |-> q.skips ]
  BY DEF Reading
<1>2. Seq(ToSet(c)) \subseteq Seq(ToSet(d))
  OBVIOUS
<1>3. [Reasons -> SUBSET ToSet(c)] \subseteq [Reasons -> SUBSET ToSet(d)]
  <2>1. SUBSET ToSet(c) \subseteq SUBSET ToSet(d)
    OBVIOUS
  <2>. QED BY <2>1
<1>4. /\ q.old \in Seq(ToSet(d)) /\ q.recent \in Seq(ToSet(d))
      /\ q.skips \in [Reasons -> SUBSET ToSet(d)]
  BY <1>1, <1>2, <1>3
<1>. QED BY <1>1, <1>4 DEF Reading

LEMMA ReachedIs ==
  ASSUME NEW d, NEW k, NEW c, NEW h, Later(d, k, c, h), NEW q \in Reading(c),
         CursorIn(q.cursor, c, h)
  PROVE  /\ Reached(q, c) \in Nat /\ Reached(q, c) <= Len(c)
         /\ Reached(q, d) \in Nat /\ Reached(q, c) <= Reached(q, d)
         /\ (q.cursor = NoRpcCursor => q.start - 1 <= h) => Reached(q, d) = Reached(q, c)
<1>1. q.start \in Nat /\ q.start - 1 \in Int
  BY ReadingIs
<1>2. CASE q.cursor = NoRpcCursor
  <2>. DEFINE l == q.start - 1
  <2>1. Reached(q, c) = Through(c, l) /\ Reached(q, d) = Through(d, l) /\ l \in Int
    BY <1>1, <1>2 DEF Reached
  <2>. HIDE DEF l
  <2>2. /\ Through(c, l) \in Nat /\ Through(d, l) \in Nat
        /\ Through(c, l) <= Through(d, l) /\ Through(c, l) <= Len(c)
    BY <2>1, LaterIs
  <2>3. l <= h => Through(d, l) = Through(c, l)
    BY <2>1, LaterIs
  <2>4. (q.cursor = NoRpcCursor => l <= h) => Reached(q, d) = Reached(q, c)
    BY <1>2, <2>1, <2>3
  <2>. QED BY <2>1, <2>2, <2>4 DEF l
<1>3. CASE q.cursor # NoRpcCursor
  <2>1. Reached(q, c) = q.cursor.upTo /\ Reached(q, d) = q.cursor.upTo
    BY <1>3 DEF Reached
  <2>2. q.cursor.upTo \in Nat /\ q.cursor.upTo <= Len(c)
    BY CursorStays
  <2>. QED BY <2>1, <2>2
<1>. QED BY <1>2, <1>3

LEMMA ReadingInStays ==
  ASSUME NEW d, NEW k, NEW c, NEW h, Later(d, k, c, h), NEW q, NEW cur, NEW E,
         cur.upTo \in Nat, ReadingIn(q, cur, c, h, E)
  PROVE  ReadingIn(q, cur, d, k, E)
<1>. DEFINE n == Reached(q, c)
            m == Reached(q, d)
            held == Holding(q)
            low == cur.upTo
            all == E \cup ToSet(held) \cup Passed(q.skips)
<1>0. /\ h \in Nat /\ k \in Nat /\ h <= k /\ c \in Seq(EmittedEvent) /\ Extends(d, c)
      /\ low \in Nat
  BY DEF Later
<1>1. /\ q \in Reading(c) /\ CursorIn(q.cursor, c, h) /\ low <= n
      /\ PickedFrom(held, c, low, n)
      /\ Fresh(q) \/ ((q.cursor = NoRpcCursor => q.start - 1 <= h) /\ Covered(c, n, all))
  BY DEF ReadingIn
<1>2. /\ n \in Nat /\ n <= Len(c) /\ m \in Nat /\ n <= m
      /\ (q.cursor = NoRpcCursor => q.start - 1 <= h) => m = n
  BY <1>1, ReachedIs
<1>3. q \in Reading(d)
  BY <1>1, LaterIs, ReadingStays
<1>4. CursorIn(q.cursor, d, k)
  BY <1>1, CursorStays
<1>. HIDE DEF n, m, held, low, all
<1>5. low <= m
  BY <1>0, <1>1, <1>2
<1>6. PickedFrom(held, d, low, m)
  <2>1. PickedFrom(held, d, low, n)
    BY <1>0, <1>1, <1>2, PickedStays
  <2>2. n \in Int /\ m \in Int /\ low \in Int /\ low <= low
    BY <1>0, <1>2
  <2>. QED BY <1>2, <2>1, <2>2, PickedWider
<1>7. \/ Fresh(q)
      \/ (q.cursor = NoRpcCursor => q.start - 1 <= k) /\ Covered(d, m, all)
  <2>1. CASE Fresh(q)
    BY <2>1
  <2>2. CASE (q.cursor = NoRpcCursor => q.start - 1 <= h) /\ Covered(c, n, all)
    <3>1. m = n /\ Covered(d, n, all)
      BY <1>2, <2>2, CoveredStays
    <3>2. q.cursor = NoRpcCursor => q.start - 1 <= k
      <4>1. q.start \in Nat
        BY <1>1, ReadingIs
      <4>. QED BY <1>0, <2>2, <4>1
    <3>. QED BY <3>1, <3>2
  <2>. QED BY <1>1, <2>1, <2>2
<1>. QED BY <1>3, <1>4, <1>5, <1>6, <1>7 DEF ReadingIn, n, m, held, low, all

LEMMA SyncStays ==
  ASSUME NEW d, NEW k, NEW c, NEW h, Later(d, k, c, h), NEW q, NEW cur, NEW E,
         cur.upTo \in Nat, SyncIn(q, cur, c, h, E)
  PROVE  SyncIn(q, cur, d, k, E)
<1>1. CASE Backfilling(q, cur, h)
  <2>1. q.seam \in Nat /\ q.seam <= h /\ h \in Nat /\ k \in Nat /\ h <= k
    BY <1>1 DEF Backfilling, Later
  <2>2. q.seam <= k
    BY <2>1
  <2>. QED BY <1>1, <2>2 DEF Backfilling, SyncIn
<1>2. CASE ReadingIn(q, cur, c, h, E)
  BY <1>2, ReadingInStays DEF SyncIn
<1>. QED BY <1>1, <1>2 DEF SyncIn

LEMMA SkippedIs ==
  ASSUME HybridInv
  PROVE  Known = ToSet(delivered) \cup SkippedEvents
<1>1. DOMAIN skipped = Reasons
  BY DEF HybridInv
<1>. QED BY <1>1 DEF Known, Passed, SkippedEvents

-----------------------------------------------------------------------------
(* The syncs keep their invariant. *)

LEMMA HybridStarts ==
  ASSUME HybridInit
  PROVE  HybridInv
<1>. USE DEF HybridInit, RpcInit
<1>1. Retention \in Nat /\ Retention # 0
  BY RpcAssumption
<1>2. chain = << >> /\ ToSet(chain) = {} /\ head = Retention /\ oldest = 1
      /\ cursor = NoRpcCursor /\ delivered = << >> /\ sync = NoSync
  BY DEF ToSet
<1>3. ChainOK
  BY <1>1, <1>2 DEF ChainOK
<1>4. oldest + Retention <= head + 1
  BY <1>1, <1>2
<1>5. CursorIn(cursor, chain, head) /\ cursor.upTo = 0
  BY <1>2 DEF CursorIn, NoRpcCursor, RpcCursor
<1>6. delivered \in Seq(ToSet(chain)) /\ PickedFrom(delivered, chain, 0, cursor.upTo)
  <2>1. PickedFrom(<< >>, chain, 0, 0)
    BY NothingPicked
  <2>. QED BY <1>2, <1>5, <2>1
<1>7. skipped \in [Reasons -> SUBSET ToSet(chain)]
  BY DEF NothingSkipped, Reasons
<1>8. Covered(chain, cursor.upTo, Known)
  <2>1. 1 .. 0 = {}
    OBVIOUS
  <2>. QED BY <1>5, <2>1 DEF Covered
<1>9. SyncIn(sync, cursor, chain, head, Known)
  BY <1>2 DEF SyncIn
<1>. QED BY <1>3, <1>4, <1>5, <1>6, <1>7, <1>8, <1>9 DEF HybridInv

LEMMA CloseLedgerHybrid ==
  ASSUME HybridInv, CloseLedger, clientVars' = clientVars
  PROVE  HybridInv'
<1>0. HybridInv
  OBVIOUS
<1>1. /\ cursor' = cursor /\ sync' = sync /\ delivered' = delivered /\ skipped' = skipped
  BY DEF clientVars
<1>2. Later(chain', head', chain, head) /\ ChainOK' /\ head' = head + 1 /\ oldest' = oldest
  BY ChainLater DEF HybridInv
<1>3. Known' = Known
  BY <1>1 DEF Known
<1>4. oldest' + Retention <= head' + 1
  <2>1. oldest \in Nat /\ head \in Nat /\ Retention \in Nat /\ oldest + Retention <= head + 1
    BY RpcAssumption DEF HybridInv, ChainOK
  <2>. QED BY <1>2, <2>1
<1>5. CursorIn(cursor, chain', head') /\ cursor.upTo \in Nat /\ cursor.upTo <= Len(chain)
  BY <1>2, CursorStays DEF HybridInv
<1>6. delivered \in Seq(ToSet(chain')) /\ skipped \in [Reasons -> SUBSET ToSet(chain')]
  <2>1. ToSet(chain) \subseteq ToSet(chain')
    BY <1>2, LaterIs
  <2>2. delivered \in Seq(ToSet(chain)) /\ skipped \in [Reasons -> SUBSET ToSet(chain)]
    BY DEF HybridInv
  <2>3. delivered \in Seq(ToSet(chain'))
    BY <2>1, <2>2
  <2>4. skipped \in [Reasons -> SUBSET ToSet(chain')]
    BY <2>1, <2>2
  <2>. QED BY <2>3, <2>4
<1>7. PickedFrom(delivered, chain', 0, cursor.upTo)
  <2>1. chain \in Seq(EmittedEvent) /\ Extends(chain', chain)
    BY <1>2 DEF Later
  <2>2. PickedFrom(delivered, chain, 0, cursor.upTo)
    BY DEF HybridInv
  <2>. QED BY <1>5, <2>1, <2>2, PickedStays
<1>8. Covered(chain', cursor.upTo, Known)
  <2>1. Covered(chain, cursor.upTo, Known)
    BY DEF HybridInv
  <2>. QED BY <1>2, <1>5, <2>1, CoveredStays
<1>9. SyncIn(sync, cursor, chain', head', Known)
  <2>1. SyncIn(sync, cursor, chain, head, Known)
    BY DEF HybridInv
  <2>. QED BY <1>2, <1>5, <2>1, SyncStays
<1>. QED BY <1>1, <1>2, <1>3, <1>4, <1>5, <1>6, <1>7, <1>8, <1>9 DEF HybridInv

LEMMA ExpireHybrid ==
  ASSUME HybridInv, Expire, clientVars' = clientVars
  PROVE  HybridInv'
<1>1. /\ cursor' = cursor /\ sync' = sync /\ delivered' = delivered /\ skipped' = skipped
      /\ chain' = chain /\ head' = head /\ oldest' = oldest + 1 /\ oldest + Retention <= head
  BY DEF clientVars, Expire
<1>2. oldest \in Nat /\ head \in Nat /\ Retention \in Nat /\ Retention # 0 /\ 1 <= oldest
  BY RpcAssumption DEF HybridInv, ChainOK
<1>3. oldest' \in Nat /\ 1 <= oldest' /\ oldest' <= head' /\ oldest' + Retention <= head' + 1
  BY <1>1, <1>2
<1>4. ChainOK'
  BY <1>1, <1>3 DEF HybridInv, ChainOK
<1>5. Known' = Known
  BY <1>1 DEF Known
<1>. QED BY <1>1, <1>3, <1>4, <1>5 DEF HybridInv

\* Between two ledgers only the sync and what it hands over can change.
LEMMA SameHistory ==
  ASSUME HybridInv, rpcVars' = rpcVars, cursor' = cursor, delivered' = delivered,
         skipped' = skipped, SyncIn(sync', cursor, chain, head, Known)
  PROVE  HybridInv'
<1>1. chain' = chain /\ head' = head /\ oldest' = oldest
  BY DEF rpcVars
<1>2. ChainOK'
  BY <1>1 DEF HybridInv, ChainOK
<1>3. Known' = Known
  BY DEF Known
<1>. QED BY <1>1, <1>2, <1>3 DEF HybridInv

\* How a read starts.
Starts(r, c, start, from, old, over) ==
  /\ r \in Reading(c) /\ Holding(r) = old
  /\ r.start = start /\ r.cursor = from /\ r.skips = over
  /\ Reached(r, c) = IF from = NoRpcCursor THEN Through(c, start - 1) ELSE from.upTo

LEMMA ReadIs ==
  ASSUME NEW c, NEW start \in Nat, NEW from \in RpcCursor, NEW old \in Seq(ToSet(c)),
         NEW over \in [Reasons -> SUBSET ToSet(c)]
  PROVE  Starts(Read(start, from, old, over), c, start, from, old, over)
<1>. DEFINE r == Read(start, from, old, over)
<1>1. r = [ phase |-> "read", start |-> start, cursor |-> from, old |-> old,
            recent |-> << >>, skips |-> over ]
  BY DEF Read
<1>. HIDE DEF r
<1>2. << >> \in Seq(ToSet(c))
  OBVIOUS
<1>3. r \in Reading(c)
  BY <1>1, <1>2 DEF Reading
<1>4. r.start = start /\ r.cursor = from /\ r.skips = over /\ r.old = old /\ r.recent = << >>
  BY <1>1
<1>5. old \o << >> = old
  OBVIOUS
<1>6. Holding(r) = old
  BY <1>4, <1>5 DEF Holding
<1>7. Reached(r, c) = IF from = NoRpcCursor THEN Through(c, start - 1) ELSE from.upTo
  BY <1>4 DEF Reached
<1>. QED BY <1>3, <1>4, <1>6, <1>7 DEF Starts, r

LEMMA CursorIs ==
  ASSUME HybridInv
  PROVE  /\ cursor \in RpcCursor /\ cursor.upTo \in Nat /\ cursor.ledger \in Nat
         /\ cursor = NoRpcCursor => cursor.upTo = 0
         /\ cursor # NoRpcCursor =>
              /\ cursor.ledger \in 1 .. head
              /\ EventsThrough(cursor.ledger - 1) <= cursor.upTo
              /\ cursor.upTo <= EventsThrough(cursor.ledger)
         /\ cursor.upTo <= Len(chain)
<1>1. cursor \in RpcCursor /\ cursor.upTo \in Nat /\ cursor.ledger \in Nat
  BY DEF HybridInv, CursorIn, RpcCursor
<1>2. cursor # NoRpcCursor =>
        /\ cursor.ledger \in 1 .. head
        /\ EventsThrough(cursor.ledger - 1) <= cursor.upTo
        /\ cursor.upTo <= EventsThrough(cursor.ledger)
  BY DEF HybridInv, CursorIn, EventsThrough, Through
<1>3. cursor = NoRpcCursor => cursor.upTo = 0
  BY DEF NoRpcCursor
<1>4. ChainOK /\ Len(chain) \in Nat
  BY ChainFacts DEF HybridInv
<1>5. EventsThrough(cursor.ledger) \in Nat /\ EventsThrough(cursor.ledger) <= Len(chain)
  <2>. DEFINE l == cursor.ledger
  <2>1. l \in Int
    BY <1>1
  <2>. HIDE DEF l
  <2>2. EventsThrough(l) \in Nat /\ EventsThrough(l) <= Len(chain)
    BY <1>4, <2>1, ThroughIs
  <2>. QED BY <2>2 DEF l
<1>6. cursor.upTo <= Len(chain)
  BY <1>1, <1>2, <1>3, <1>4, <1>5
<1>. QED BY <1>1, <1>2, <1>3, <1>6

LEMMA NothingSkippedIs ==
  ASSUME NEW c, NEW F \in SUBSET ToSet(c)
  PROVE  /\ NothingSkipped \in [Reasons -> SUBSET ToSet(c)]
         /\ [NothingSkipped EXCEPT !.floor = F] \in [Reasons -> SUBSET ToSet(c)]
         /\ F \subseteq Passed([NothingSkipped EXCEPT !.floor = F])
<1>. DEFINE over == [NothingSkipped EXCEPT !.floor = F]
<1>1. over = [backfill |-> {}, rounded |-> {}, floor |-> F]
  BY DEF NothingSkipped
<1>2. over \in [Reasons -> SUBSET ToSet(c)] /\ over.floor = F
  BY <1>1 DEF Reasons
<1>. HIDE DEF over
<1>3. F \subseteq Passed(over)
  BY <1>2 DEF Passed, Reasons
<1>4. NothingSkipped \in [Reasons -> SUBSET ToSet(c)]
  BY DEF NothingSkipped, Reasons
<1>. QED BY <1>2, <1>3, <1>4 DEF over

\* What follows once the RPC's floor is known, or is not, fits.
LEMMA PlanFits ==
  ASSUME HybridInv, NEW r, r = 0 \/ r = oldest
  PROVE  SyncIn(Plan(r), cursor, chain, head, Known)
<1>. DEFINE below == indexer /\ r > 0 /\ NextNeeded < r
            first == Max({ClientFrom, IF r > 0 THEN r + 1 ELSE ClientFrom})
            floor == EventsBetween(ClientFrom, first - 1)
            over  == [NothingSkipped EXCEPT !.floor = floor]
            plan  == Plan(r)
<1>1. plan = CASE below -> [phase |-> "backfill", seam |-> r + SeamMargin]
               [] cursor # NoRpcCursor /\ ~ below -> Read(0, cursor, << >>, NothingSkipped)
               [] OTHER -> Read(first, NoRpcCursor, << >>, over)
  BY DEF Plan
<1>2. /\ oldest \in Nat /\ head \in Nat /\ 1 <= oldest /\ oldest <= head
      /\ oldest + Retention <= head + 1 /\ ChainOK
      /\ Retention \in Nat /\ SeamMargin \in Nat /\ SeamMargin < Retention
      /\ ClientFrom \in Nat
  BY RpcAssumption, HybridAssumption DEF HybridInv, ChainOK
<1>3. first \in Nat /\ (first = ClientFrom \/ (first - 1 <= head /\ ClientFrom <= first))
  <2>1. r + 1 \in Int /\ ClientFrom \in Int /\ r \in Nat
    BY <1>2
  <2>2. first = (IF ClientFrom >= (IF r > 0 THEN r + 1 ELSE ClientFrom)
                 THEN ClientFrom ELSE IF r > 0 THEN r + 1 ELSE ClientFrom)
    BY <2>1, LargerOf
  <2>. HIDE DEF first
  <2>. QED BY <1>2, <2>1, <2>2
<1>4. floor \in SUBSET ToSet(chain)
  BY DEF EventsBetween
<1>5. /\ NothingSkipped \in [Reasons -> SUBSET ToSet(chain)]
      /\ over \in [Reasons -> SUBSET ToSet(chain)] /\ floor \subseteq Passed(over)
  <2>. HIDE DEF floor
  <2>. QED BY <1>4, NothingSkippedIs
<1>6. floor = {ev \in ToSet(chain) : ev.ledger \in ClientFrom .. first - 1}
  BY DEF EventsBetween
<1>. HIDE DEF below, first, floor, over, plan
<1>7. << >> \in Seq(ToSet(chain))
  OBVIOUS
<1>8. CASE below
  <2>1. plan = [phase |-> "backfill", seam |-> r + SeamMargin]
    BY <1>1, <1>8
  <2>2. r > 0 /\ r = oldest /\ NextNeeded < r
    BY <1>2, <1>8 DEF below
  <2>3. NeededAfter(cursor) = NextNeeded /\ NextNeeded \in Nat
    BY <1>2, CursorIs DEF NeededAfter, NextNeeded
  <2>4. r + SeamMargin \in Nat /\ r + SeamMargin <= head /\ NextNeeded < r + SeamMargin
    BY <1>2, <2>2, <2>3
  <2>5. Backfilling(plan, cursor, head)
    BY <2>1, <2>3, <2>4 DEF Backfilling
  <2>. QED BY <2>5 DEF SyncIn, plan
<1>9. CASE ~ below /\ cursor # NoRpcCursor
  <2>1. plan = Read(0, cursor, << >>, NothingSkipped)
    BY <1>1, <1>9
  <2>2. cursor \in RpcCursor /\ cursor.upTo \in Nat
    BY CursorIs
  <2>3. /\ plan \in Reading(chain) /\ Holding(plan) = << >> /\ plan.cursor = cursor
        /\ Reached(plan, chain) = cursor.upTo
    <3>. DEFINE start == 0
                old == << >>
    <3>1. /\ start \in Nat /\ old \in Seq(ToSet(chain)) /\ old = << >>
          /\ plan = Read(start, cursor, old, NothingSkipped)
      BY <1>7, <2>1
    <3>. HIDE DEF start, old
    <3>2. Starts(plan, chain, start, cursor, old, NothingSkipped)
      BY <1>5, <2>2, <3>1, ReadIs
    <3>. QED BY <1>9, <3>1, <3>2 DEF Starts
  <2>4. PickedFrom(Holding(plan), chain, cursor.upTo, Reached(plan, chain))
    BY <2>2, <2>3, NothingPicked
  <2>5. Covered(chain, Reached(plan, chain), Known \cup ToSet(Holding(plan)) \cup Passed(plan.skips))
    BY <2>3 DEF HybridInv, Covered
  <2>6. CursorIn(plan.cursor, chain, head)
    BY <2>3 DEF HybridInv
  <2>7. cursor.upTo <= Reached(plan, chain) /\ plan.cursor # NoRpcCursor
    BY <1>9, <2>2, <2>3
  <2>8. ReadingIn(plan, cursor, chain, head, Known)
    BY <2>3, <2>4, <2>5, <2>6, <2>7 DEF ReadingIn
  <2>. QED BY <2>8 DEF SyncIn, plan
<1>10. CASE ~ below /\ cursor = NoRpcCursor
  <2>1. plan = Read(first, NoRpcCursor, << >>, over)
    BY <1>1, <1>10
  <2>2. NoRpcCursor \in RpcCursor /\ cursor.upTo = 0 /\ cursor \in RpcCursor
    BY <1>10, CursorIs
  <2>3. /\ plan \in Reading(chain) /\ Holding(plan) = << >> /\ plan.cursor = NoRpcCursor
        /\ plan.start = first /\ plan.skips = over
        /\ Reached(plan, chain) = EventsThrough(first - 1)
    <3>. DEFINE old == << >>
                none == NoRpcCursor
    <3>1. /\ old \in Seq(ToSet(chain)) /\ old = << >> /\ none \in RpcCursor /\ none = NoRpcCursor
          /\ plan = Read(first, none, old, over)
      BY <1>7, <2>1, <2>2
    <3>. HIDE DEF old, none
    <3>2. Starts(plan, chain, first, none, old, over)
      BY <1>3, <1>5, <3>1, ReadIs
    <3>3. Through(chain, first - 1) = EventsThrough(first - 1)
      BY DEF EventsThrough, Through
    <3>. QED BY <3>1, <3>2, <3>3 DEF Starts
  <2>4. first - 1 \in Int /\ EventsThrough(first - 1) \in Nat
    <3>. DEFINE l == first - 1
    <3>1. l \in Int
      BY <1>3
    <3>. HIDE DEF l
    <3>2. EventsThrough(l) \in Nat
      BY <1>2, <3>1, ThroughIs
    <3>. QED BY <3>1, <3>2 DEF l
  <2>5. PickedFrom(Holding(plan), chain, cursor.upTo, Reached(plan, chain))
    BY <2>2, <2>3, <2>4, NothingPicked
  <2>6. CursorIn(plan.cursor, chain, head) /\ cursor.upTo <= Reached(plan, chain)
    BY <2>2, <2>3, <2>4 DEF CursorIn
  <2>7. \/ Fresh(plan)
        \/ /\ plan.cursor = NoRpcCursor => plan.start - 1 <= head
           /\ Covered(chain, Reached(plan, chain),
                      Known \cup ToSet(Holding(plan)) \cup Passed(plan.skips))
    <3>1. CASE first = ClientFrom
      BY <2>3, <3>1 DEF Fresh
    <3>2. CASE first - 1 <= head /\ ClientFrom <= first
      <4>1. ASSUME NEW i \in 1 .. EventsThrough(first - 1), chain[i].ledger >= ClientFrom
            PROVE  chain[i] \in Passed(plan.skips)
        <5>. DEFINE l == first - 1
        <5>1. l \in Int /\ i \in 1 .. EventsThrough(l)
          BY <2>4
        <5>2. EventsThrough(l) <= Len(chain) /\ EventsThrough(l) \in Nat /\ Len(chain) \in Nat
              /\ DOMAIN chain = 1 .. Len(chain)
          <6>. HIDE DEF l
          <6>. QED BY <1>2, <5>1, ThroughIs, ChainFacts
        <5>. HIDE DEF l
        <5>3. i \in DOMAIN chain /\ i <= EventsThrough(l)
          BY <5>1, <5>2
        <5>4. chain[i].ledger <= l
          BY <1>2, <5>1, <5>3, ThroughSplits
        <5>5. chain[i].ledger \in Nat /\ chain[i] \in ToSet(chain)
          BY <1>2, <5>3 DEF ChainOK, ToSet
        <5>6. chain[i].ledger \in ClientFrom .. l
          BY <1>2, <4>1, <5>1, <5>4, <5>5
        <5>7. chain[i] \in floor
          BY <1>6, <5>5, <5>6 DEF l
        <5>. QED BY <1>5, <2>3, <5>7
      <4>. QED BY <2>3, <3>2, <4>1 DEF Covered
    <3>. QED BY <1>3, <3>1, <3>2
  <2>8. ReadingIn(plan, cursor, chain, head, Known)
    BY <2>3, <2>5, <2>6, <2>7 DEF ReadingIn
  <2>. QED BY <2>8 DEF SyncIn, plan
<1>. QED BY <1>8, <1>9, <1>10

\* The read that follows a backfill, whatever that brought, fits.
LEMMA SeamFits ==
  ASSUME HybridInv, Backfilling(sync, cursor, head),
         NEW through \in Int, through <= sync.seam - 1
  PROVE  SyncIn(ReadFromSeam(through), cursor, chain, head, Known)
<1>. DEFINE seam == sync.seam
            low  == NextNeeded
            rest == Max({low, through + 1})
            T    == EventsBetween(low, through)
            left == EventsBetween(rest, seam - 1)
            gone == BeyondCursor(cursor)
            old  == Keep(chain, T)
            over == [backfill |-> left, rounded |-> gone, floor |-> {}]
            none == NoRpcCursor
            n    == EventsThrough(seam - 1)
            q    == ReadFromSeam(through)
<1>1. /\ seam \in Nat /\ seam <= head /\ through <= seam - 1
      /\ low = (IF cursor = NoRpcCursor THEN ClientFrom ELSE cursor.ledger + 1)
      /\ low < seam
  BY DEF Backfilling, NeededAfter, NextNeeded
<1>2. /\ ClientFrom \in Nat /\ head \in Nat /\ ChainOK
      /\ DOMAIN chain = 1 .. Len(chain) /\ Len(chain) \in Nat /\ chain \in Seq(ToSet(chain))
      /\ \A i \in DOMAIN chain : chain[i].ledger \in Nat /\ chain[i] \in ToSet(chain)
  BY HybridAssumption, ChainFacts DEF HybridInv, ChainOK, ToSet
<1>3. /\ T = {ev \in ToSet(chain) : ev.ledger \in low .. through}
      /\ left = {ev \in ToSet(chain) : ev.ledger \in rest .. seam - 1}
      /\ gone = {chain[i] : i \in {j \in cursor.upTo + 1 .. Len(chain) :
                                     chain[j].ledger = cursor.ledger}}
  BY DEF EventsBetween, BeyondCursor
<1>4. q = Read(seam, none, old, over)
  BY DEF ReadFromSeam, BackfillEnd
<1>5. none = NoRpcCursor
  OBVIOUS
<1>6. /\ cursor.upTo \in Nat /\ cursor.ledger \in Nat
      /\ cursor = NoRpcCursor => cursor.upTo = 0
      /\ cursor # NoRpcCursor =>
           /\ EventsThrough(cursor.ledger - 1) <= cursor.upTo
           /\ cursor.upTo <= EventsThrough(cursor.ledger)
  BY CursorIs
<1>7. low \in Nat /\ (cursor # NoRpcCursor => low = cursor.ledger + 1)
      /\ (cursor = NoRpcCursor => low = ClientFrom)
  <2>. HIDE DEF low
  <2>. QED BY <1>1, <1>2, <1>6
<1>. HIDE DEF seam, low
<1>8. seam - 1 \in Int /\ seam - 1 <= head /\ low <= seam - 1
  BY <1>1, <1>2, <1>7
<1>9. rest \in Int /\ rest = IF low >= through + 1 THEN low ELSE through + 1
  <2>1. low \in Int /\ through + 1 \in Int
    BY <1>7
  <2>. HIDE DEF low
  <2>2. rest = IF low >= through + 1 THEN low ELSE through + 1
    BY <2>1, LargerOf
  <2>. QED BY <2>1, <2>2
<1>10. n \in Nat /\ n <= Len(chain)
  BY <1>2, <1>8, ThroughIs
<1>. HIDE DEF rest, T, left, gone, old, over, none, q
<1>11. ASSUME NEW i \in DOMAIN chain PROVE chain[i].ledger <= seam - 1 <=> i <= n
  BY <1>2, <1>8, ThroughSplits
<1>12. ASSUME NEW i \in DOMAIN chain, cursor # NoRpcCursor
       PROVE  /\ chain[i].ledger <= cursor.ledger <=> i <= EventsThrough(cursor.ledger)
              /\ chain[i].ledger <= cursor.ledger - 1 <=> i <= EventsThrough(cursor.ledger - 1)
  <2>. DEFINE l == cursor.ledger
              m == cursor.ledger - 1
  <2>1. l \in Int /\ m \in Int
    BY <1>6
  <2>. HIDE DEF l, m
  <2>2. chain[i].ledger <= l <=> i <= EventsThrough(l)
    BY <1>2, <2>1, ThroughSplits
  <2>3. chain[i].ledger <= m <=> i <= EventsThrough(m)
    BY <1>2, <2>1, ThroughSplits
  <2>. QED BY <2>2, <2>3 DEF l, m
<1>13. cursor # NoRpcCursor => EventsThrough(cursor.ledger) \in Nat
                               /\ EventsThrough(cursor.ledger - 1) \in Nat
                               /\ EventsThrough(cursor.ledger) <= n
  <2>. DEFINE l == cursor.ledger
              m == cursor.ledger - 1
  <2>1. l \in Int /\ m \in Int /\ (cursor # NoRpcCursor => l <= seam - 1)
    BY <1>6, <1>7, <1>8
  <2>. HIDE DEF l, m
  <2>2. EventsThrough(l) \in Nat /\ EventsThrough(m) \in Nat
    BY <1>2, <2>1, ThroughIs
  <2>3. cursor # NoRpcCursor => EventsThrough(l) <= n
    BY <1>2, <1>8, <2>1, ThroughGrows
  <2>. QED BY <2>2, <2>3 DEF l, m
<1>. HIDE DEF n
<1>14. cursor.upTo <= n
  <2>1. CASE cursor = NoRpcCursor
    BY <1>6, <1>10, <2>1
  <2>2. CASE cursor # NoRpcCursor
    BY <1>6, <1>10, <1>13, <2>2
  <2>. QED BY <2>1, <2>2
<1>15. /\ old \in Seq(ToSet(chain)) /\ ToSet(old) = ToSet(chain) \cap T
       /\ PickedFrom(old, chain, cursor.upTo, n)
  <2>1. ASSUME NEW i \in DOMAIN chain, chain[i] \in T PROVE cursor.upTo < i /\ i <= n
    <3>1. chain[i].ledger \in low .. through /\ chain[i].ledger \in Nat /\ i \in Nat /\ 1 <= i
      BY <1>2, <1>3, <2>1
    <3>2. i <= n
      <4>1. chain[i].ledger <= seam - 1
        BY <1>1, <1>7, <1>8, <3>1 DEF seam
      <4>. QED BY <1>11, <4>1
    <3>3. CASE cursor = NoRpcCursor
      BY <1>6, <3>1, <3>2, <3>3
    <3>4. CASE cursor # NoRpcCursor
      <4>1. ~ (chain[i].ledger <= cursor.ledger)
        BY <1>6, <1>7, <3>1, <3>4
      <4>2. ~ (i <= EventsThrough(cursor.ledger))
        BY <1>12, <3>4, <4>1
      <4>. QED BY <1>6, <1>13, <3>1, <3>2, <3>4, <4>2
    <3>. QED BY <3>3, <3>4
  <2>. DEFINE lo == cursor.upTo
  <2>2. lo \in Nat /\ \A i \in DOMAIN chain : chain[i] \in T => lo < i /\ i <= n
    BY <1>6, <2>1
  <2>. HIDE DEF lo
  <2>3. /\ Keep(chain, T) \in Seq(ToSet(chain)) /\ ToSet(Keep(chain, T)) = ToSet(chain) \cap T
        /\ PickedFrom(Keep(chain, T), chain, lo, n)
    BY <1>2, <1>10, <2>2, PickedKept
  <2>. QED BY <2>3 DEF old, lo
<1>16. over \in [Reasons -> SUBSET ToSet(chain)] /\ Passed(over) = left \cup gone
  <2>1. left \in SUBSET ToSet(chain) /\ gone \in SUBSET ToSet(chain)
    BY <1>2, <1>3, <1>6
  <2>2. over \in [Reasons -> SUBSET ToSet(chain)]
    BY <2>1 DEF over, Reasons
  <2>3. over.backfill = left /\ over.rounded = gone /\ over.floor = {}
    BY DEF over
  <2>4. Passed(over) = left \cup gone
    BY <2>3 DEF Passed, Reasons
  <2>. QED BY <2>2, <2>4
<1>17. Starts(q, chain, seam, none, old, over)
  <2>1. none \in RpcCursor
    BY DEF none, NoRpcCursor, RpcCursor
  <2>. QED BY <1>1, <1>4, <1>15, <1>16, <2>1, ReadIs
<1>18. /\ q \in Reading(chain) /\ Holding(q) = old /\ q.start = seam
       /\ q.cursor = NoRpcCursor /\ q.skips = over /\ Reached(q, chain) = n
  <2>1. Through(chain, seam - 1) = n
    BY DEF Through, EventsThrough, n
  <2>. QED BY <1>5, <1>17, <2>1 DEF Starts
<1>19. ASSUME NEW i \in 1 .. n, chain[i].ledger >= ClientFrom
       PROVE  chain[i] \in Known \cup ToSet(old) \cup left \cup gone
  <2>1. i \in DOMAIN chain /\ i <= n /\ i \in Nat /\ 1 <= i
    BY <1>2, <1>10
  <2>2. chain[i].ledger \in Nat /\ chain[i] \in ToSet(chain) /\ chain[i].ledger <= seam - 1
    BY <1>2, <1>11, <2>1
  <2>3. CASE i <= cursor.upTo
    <3>1. i \in 1 .. cursor.upTo
      BY <1>6, <2>1, <2>3
    <3>2. Covered(chain, cursor.upTo, Known)
      BY DEF HybridInv
    <3>3. chain[i] \in Known
      BY <1>19, <3>1, <3>2 DEF Covered
    <3>. QED BY <3>3
  <2>4. CASE cursor.upTo < i /\ cursor # NoRpcCursor /\ chain[i].ledger <= cursor.ledger
    <3>1. ~ (i <= EventsThrough(cursor.ledger - 1))
      BY <1>6, <1>13, <2>1, <2>4
    <3>2. ~ (chain[i].ledger <= cursor.ledger - 1)
      BY <1>12, <2>1, <2>4, <3>1
    <3>3. chain[i].ledger = cursor.ledger
      BY <1>6, <2>2, <2>4, <3>2
    <3>4. i \in cursor.upTo + 1 .. Len(chain)
      BY <1>2, <1>6, <2>1, <2>4
    <3>. QED BY <1>3, <3>3, <3>4
  <2>5. CASE low <= chain[i].ledger
    <3>. DEFINE l == chain[i].ledger
    <3>1. l \in Nat /\ low <= l /\ l <= seam - 1
      BY <2>2, <2>5
    <3>. HIDE DEF l
    <3>2. l \in low .. through \/ l \in rest .. seam - 1
      BY <1>1, <1>7, <1>8, <1>9, <3>1
    <3>3. CASE l \in low .. through
      BY <1>3, <1>15, <2>2, <3>3 DEF l
    <3>4. CASE l \in rest .. seam - 1
      BY <1>3, <2>2, <3>4 DEF l
    <3>. QED BY <3>2, <3>3, <3>4
  <2>6. \/ i <= cursor.upTo
        \/ cursor.upTo < i /\ cursor # NoRpcCursor /\ chain[i].ledger <= cursor.ledger
        \/ low <= chain[i].ledger
    <3>. DEFINE l == chain[i].ledger
                u == cursor.upTo
                m == cursor.ledger
    <3>1. l \in Nat /\ l >= ClientFrom /\ ClientFrom \in Nat /\ u \in Nat /\ m \in Nat
          /\ i \in Nat /\ low \in Nat
      BY <1>2, <1>6, <1>7, <1>19, <2>1, <2>2
    <3>2. (cursor # NoRpcCursor /\ low = m + 1) \/ (cursor = NoRpcCursor /\ low = ClientFrom)
      BY <1>7
    <3>. HIDE DEF l, u, m
    <3>3. i <= u \/ u < i
      BY <3>1
    <3>4. l <= m \/ m + 1 <= l
      BY <3>1
    <3>5. i <= u \/ (u < i /\ cursor # NoRpcCursor /\ l <= m) \/ low <= l
      BY <3>1, <3>2, <3>3, <3>4
    <3>. QED BY <3>5 DEF l, u, m
  <2>. QED BY <2>3, <2>4, <2>5, <2>6
<1>20. Covered(chain, Reached(q, chain), Known \cup ToSet(Holding(q)) \cup Passed(q.skips))
  <2>1. Known \cup ToSet(old) \cup left \cup gone = Known \cup ToSet(old) \cup Passed(over)
    BY <1>16
  <2>. QED BY <1>18, <1>19, <2>1 DEF Covered
<1>21. CursorIn(q.cursor, chain, head)
  BY <1>18 DEF CursorIn, NoRpcCursor, RpcCursor
<1>22. ReadingIn(q, cursor, chain, head, Known)
  <2>1. cursor.upTo <= Reached(q, chain) /\ PickedFrom(Holding(q), chain, cursor.upTo, Reached(q, chain))
    BY <1>14, <1>15, <1>18
  <2>2. q.start - 1 <= head
    BY <1>8, <1>18
  <2>. QED BY <1>18, <1>20, <1>21, <2>1, <2>2 DEF ReadingIn
<1>. QED BY <1>22 DEF SyncIn, q

LEMMA PhaseIs ==
  ASSUME HybridInv
  PROVE  /\ sync.phase = "backfill" => Backfilling(sync, cursor, head)
         /\ sync.phase = "read" => ReadingIn(sync, cursor, chain, head, Known)
<1>1. SyncIn(sync, cursor, chain, head, Known)
  BY DEF HybridInv
<1>2. NoSync.phase = "idle"
  BY DEF NoSync
<1>3. ASSUME Backfilling(sync, cursor, head) PROVE sync.phase = "backfill"
  BY <1>3 DEF Backfilling
<1>4. ASSUME ReadingIn(sync, cursor, chain, head, Known) PROVE sync.phase = "read"
  BY <1>4, ReadingIs DEF ReadingIn
<1>. QED BY <1>1, <1>2, <1>3, <1>4 DEF SyncIn

\* A page goes on from where the read is.
Further(page, q) ==
  /\ page.cursor.upTo \in Nat /\ page.cursor.upTo <= Len(chain)
  /\ Reached(q, chain) <= page.cursor.upTo
  /\ page.events = SubSeq(chain, Reached(q, chain) + 1, page.cursor.upTo)
  /\ page.events \in Seq(ToSet(chain))
  /\ PickedFrom(page.events, chain, Reached(q, chain), page.cursor.upTo)
  /\ CursorIn(page.cursor, chain, head) /\ page.cursor # NoRpcCursor
  /\ page.cursor \in RpcCursor

LEMMA PageGoesOn ==
  ASSUME ChainOK, NEW k, NEW E, ReadingIn(sync, k, chain, head, E),
         NEW read, read = NextRead(sync.start, sync.cursor), ~ Rejected(read),
         NEW page, page = GetEvents(read.ledger, read.upTo)
  PROVE  Further(page, sync)
<1>. DEFINE c == sync.cursor
            start == sync.start
            n == Reached(sync, chain)
            m == page.cursor.upTo
<1>1. /\ sync \in Reading(chain) /\ c \in RpcCursor /\ start \in Nat
      /\ c # NoRpcCursor => c.ledger \in 1 .. head /\ c.upTo <= EventsThrough(c.ledger)
      /\ chain \in Seq(ToSet(chain)) /\ Len(chain) \in Nat
      /\ head \in Nat /\ oldest \in Nat /\ 1 <= oldest
  BY ReadingIs, ChainFacts DEF ReadingIn, CursorIn, EventsThrough, Through, ChainOK
<1>2. c = NoRpcCursor => read.ledger = start /\ read.upTo = EventsThrough(start - 1)
  BY DEF NextRead
<1>3. ~ (read.ledger < oldest) /\ (c = NoRpcCursor => ~ (read.ledger > head))
  BY DEF Rejected
<1>4. c = NoRpcCursor => start \in 1 .. head
  <2>. HIDE DEF c, start
  <2>1. c = NoRpcCursor => ~ (start < oldest) /\ ~ (start > head)
    BY <1>2, <1>3
  <2>. QED BY <1>1, <2>1
<1>5. n = IF c = NoRpcCursor THEN EventsThrough(start - 1) ELSE c.upTo
  BY DEF Reached, EventsThrough, Through
<1>. HIDE DEF c, start, n, m
<1>6. /\ read.ledger \in Nat /\ 1 <= read.ledger
      /\ read.upTo \in Nat /\ read.upTo <= EventsThrough(Scanned(read.ledger))
      /\ c # NoRpcCursor => read.upTo = c.upTo
  <2>1. read = NextRead(start, c)
    BY DEF start, c
  <2>. QED BY <1>1, <1>4, <2>1, NextReadIs
<1>7. read.upTo = n
  BY <1>2, <1>5, <1>6
<1>8. PageFrom(page, n)
  <2>. DEFINE l == read.ledger
  <2>1. l \in Nat /\ 1 <= l /\ n \in Nat /\ n <= EventsThrough(Scanned(l)) /\ page = GetEvents(l, n)
    BY <1>6, <1>7
  <2>. HIDE DEF l
  <2>. QED BY <2>1, GetEventsPages
<1>9. /\ page.cursor \in RpcCursor /\ n <= m /\ m <= Len(chain)
      /\ page.events = SubSeq(chain, n + 1, m)
      /\ page.cursor.ledger \in 1 .. head /\ m <= EventsThrough(page.cursor.ledger)
      /\ EventsThrough(page.cursor.ledger - 1) <= m
  BY <1>8 DEF PageFrom, m
<1>10. m \in Nat /\ n \in Nat
  BY <1>6, <1>7, <1>9 DEF RpcCursor, m
<1>11. SubSeq(chain, n + 1, m) \in Seq(ToSet(chain))
  BY <1>9, <1>10, StretchIs
<1>12. PickedFrom(SubSeq(chain, n + 1, m), chain, n, m)
  BY <1>1, <1>9, <1>10, PickedStretch
<1>13. page.cursor # NoRpcCursor
  BY <1>1, <1>9 DEF NoRpcCursor
<1>14. CursorIn(page.cursor, chain, head)
  <2>. DEFINE at == page.cursor
  <2>1. Through(chain, at.ledger) = EventsThrough(at.ledger)
        /\ Through(chain, at.ledger - 1) = EventsThrough(at.ledger - 1)
    BY DEF EventsThrough, Through
  <2>2. at \in RpcCursor /\ at.ledger \in 1 .. head /\ at.upTo = m
    BY <1>9 DEF m
  <2>3. Through(chain, at.ledger - 1) <= at.upTo /\ at.upTo <= Through(chain, at.ledger)
    BY <1>9, <2>1, <2>2
  <2>. HIDE DEF at
  <2>4. CursorIn(at, chain, head)
    BY <2>2, <2>3 DEF CursorIn
  <2>. QED BY <2>4 DEF at
<1>15. page.events \in Seq(ToSet(chain)) /\ PickedFrom(page.events, chain, n, m)
  BY <1>9, <1>11, <1>12
<1>16. page.cursor.upTo = m /\ Reached(sync, chain) = n
  BY DEF m, n
<1>. QED BY <1>9, <1>10, <1>13, <1>14, <1>15, <1>16 DEF Further

\* What a read holds once a page is added, and what that accounts for.
LEMMA PageAdds ==
  ASSUME ChainOK, NEW k, k.upTo \in Nat, NEW E, ReadingIn(sync, k, chain, head, E),
         NEW page, Further(page, sync), NEW held, held = Holding(sync) \o page.events
  PROVE  /\ held \in Seq(ToSet(chain))
         /\ PickedFrom(held, chain, k.upTo, page.cursor.upTo)
         /\ k.upTo <= page.cursor.upTo
         /\ Covered(chain, page.cursor.upTo, E \cup ToSet(held) \cup Passed(sync.skips))
<1>. DEFINE lo == k.upTo
            n == Reached(sync, chain)
            m == page.cursor.upTo
            a == Holding(sync)
            b == page.events
            over == Passed(sync.skips)
<1>1. /\ a \in Seq(ToSet(chain)) /\ b \in Seq(ToSet(chain)) /\ held = a \o b
      /\ lo \in Nat /\ lo <= n /\ n <= m /\ m \in Nat /\ m <= Len(chain)
      /\ PickedFrom(a, chain, lo, n) /\ PickedFrom(b, chain, n, m)
      /\ b = SubSeq(chain, n + 1, m)
  BY ReadingIs DEF ReadingIn, Further
<1>2. n \in Nat
  <2>1. CASE sync.cursor = NoRpcCursor
    <3>. DEFINE l == sync.start - 1
    <3>1. n = Through(chain, l) /\ l \in Int
      BY <2>1, ReadingIs DEF Reached, ReadingIn
    <3>. HIDE DEF l, n
    <3>2. n = EventsThrough(l)
      BY <3>1 DEF EventsThrough, Through
    <3>. QED BY <3>1, <3>2, ThroughIs
  <2>2. CASE sync.cursor # NoRpcCursor
    BY <2>2, ReadingIs DEF Reached, ReadingIn, RpcCursor
  <2>. QED BY <2>1, <2>2
<1>3. \/ Fresh(sync)
      \/ Covered(chain, n, E \cup ToSet(a) \cup over)
  BY DEF ReadingIn
<1>4. Fresh(sync) => n = EventsThrough(ClientFrom - 1)
  BY DEF Fresh, Reached, EventsThrough, Through
<1>. HIDE DEF lo, n, m, a, b, over
<1>5. held \in Seq(ToSet(chain)) /\ ToSet(held) = ToSet(a) \cup ToSet(b)
  <2>. DEFINE S == ToSet(chain)
  <2>1. a \in Seq(S) /\ b \in Seq(S)
    BY <1>1
  <2>. HIDE DEF S
  <2>2. a \o b \in Seq(S) /\ ToSet(a \o b) = ToSet(a) \cup ToSet(b)
    BY <2>1, JoinHolds
  <2>. QED BY <1>1, <2>2 DEF S
<1>6. PickedFrom(held, chain, lo, m)
  <2>. DEFINE S == ToSet(chain)
  <2>1. /\ a \in Seq(S) /\ b \in Seq(S) /\ lo \in Int /\ n \in Int /\ m \in Int
        /\ lo <= n /\ n <= m /\ PickedFrom(a, chain, lo, n) /\ PickedFrom(b, chain, n, m)
    BY <1>1, <1>2
  <2>. HIDE DEF S
  <2>2. PickedFrom(a \o b, chain, lo, m)
    BY <2>1, PickedJoin
  <2>. QED BY <1>1, <2>2
<1>7. lo <= m
  BY <1>1, <1>2
<1>8. chain \in Seq(ToSet(chain)) /\ DOMAIN chain = 1 .. Len(chain) /\ Len(chain) \in Nat
  BY ChainFacts
<1>9. ASSUME NEW i \in 1 .. m, chain[i].ledger >= ClientFrom
      PROVE  chain[i] \in E \cup ToSet(held) \cup over
  <2>1. i \in DOMAIN chain
    BY <1>1, <1>8
  <2>2. CASE n < i
    <3>. DEFINE j == i - n
    <3>1. j \in 1 .. m - n /\ n + j = i
      BY <1>1, <1>2, <2>2
    <3>. HIDE DEF j
    <3>2. Len(b) = m - n /\ DOMAIN b = 1 .. m - n /\ \A x \in 1 .. m - n : b[x] = chain[n + x]
      BY <1>1, <1>2, <1>8
    <3>3. chain[i] = b[j] /\ j \in DOMAIN b
      BY <3>1, <3>2
    <3>4. chain[i] \in ToSet(b)
      BY <3>3 DEF ToSet
    <3>. QED BY <1>5, <3>4
  <2>3. CASE i <= n
    <3>1. ASSUME Fresh(sync) PROVE FALSE
      <4>. DEFINE l == ClientFrom - 1
      <4>1. l \in Int /\ i <= EventsThrough(l)
        BY <1>4, <2>3, <3>1, HybridAssumption
      <4>. HIDE DEF l
      <4>2. chain[i].ledger <= l
        BY <2>1, <4>1, ThroughSplits
      <4>3. chain[i].ledger \in Nat /\ ClientFrom \in Nat
        BY <2>1, HybridAssumption DEF ChainOK
      <4>. QED BY <1>9, <4>2, <4>3 DEF l
    <3>2. i \in 1 .. n
      BY <1>2, <2>3
    <3>3. chain[i] \in E \cup ToSet(a) \cup over
      BY <1>3, <1>9, <3>1, <3>2 DEF Covered
    <3>. QED BY <1>5, <3>3
  <2>. QED BY <1>1, <1>2, <2>2, <2>3
<1>10. Covered(chain, m, E \cup ToSet(held) \cup over)
  BY <1>9 DEF Covered
<1>. QED BY <1>5, <1>6, <1>7, <1>10 DEF lo, m, over

LEMMA StartSyncHybrid ==
  ASSUME HybridInv, StartSync
  PROVE  HybridInv'
<1>1. /\ rpcVars' = rpcVars /\ cursor' = cursor /\ delivered' = delivered /\ skipped' = skipped
      /\ sync' = IF FloorNeeded THEN [phase |-> "health"] ELSE Plan(0)
  BY DEF StartSync
<1>2. sync' = [phase |-> "health"] \/ sync' = Plan(0)
  BY <1>1
<1>3. SyncIn(sync', cursor, chain, head, Known)
  <2>1. CASE sync' = [phase |-> "health"]
    BY <2>1 DEF SyncIn
  <2>2. CASE sync' = Plan(0)
    <3>1. SyncIn(Plan(0), cursor, chain, head, Known)
      BY PlanFits
    <3>. QED BY <2>2, <3>1
  <2>. QED BY <1>2, <2>1, <2>2
<1>. QED BY <1>1, <1>3, SameHistory

LEMMA HealthHybrid ==
  ASSUME HybridInv, HealthAnswers \/ HealthFails
  PROVE  HybridInv'
<1>1. /\ rpcVars' = rpcVars /\ cursor' = cursor /\ delivered' = delivered /\ skipped' = skipped
      /\ sync' = Plan(oldest) \/ sync' = Plan(0)
  BY DEF HealthAnswers, HealthFails
<1>2. SyncIn(Plan(oldest), cursor, chain, head, Known) /\ SyncIn(Plan(0), cursor, chain, head, Known)
  BY PlanFits
<1>3. SyncIn(sync', cursor, chain, head, Known)
  BY <1>1, <1>2
<1>. QED BY <1>1, <1>3, SameHistory

LEMMA BackfillHybrid ==
  ASSUME HybridInv, Backfill \/ BackfillFallsShort
  PROVE  HybridInv'
<1>1. /\ rpcVars' = rpcVars /\ cursor' = cursor /\ delivered' = delivered /\ skipped' = skipped
      /\ sync.phase = "backfill"
  BY DEF Backfill, BackfillFallsShort
<1>2. Backfilling(sync, cursor, head)
  BY <1>1, PhaseIs
<1>3. sync.seam \in Nat /\ NextNeeded \in Nat
  BY <1>2, CursorIs, HybridAssumption DEF Backfilling, NextNeeded
<1>4. \E through \in Int : through <= sync.seam - 1 /\ sync' = ReadFromSeam(through)
  <2>. DEFINE seam == sync.seam
  <2>1. CASE Backfill
    <3>1. sync' = ReadFromSeam(seam - 1)
      BY <2>1 DEF Backfill, BackfillEnd
    <3>2. seam - 1 \in Int /\ seam - 1 <= seam - 1
      BY <1>3
    <3>. QED BY <3>1, <3>2
  <2>2. CASE BackfillFallsShort
    <3>1. PICK through \in NextNeeded - 1 .. seam - 1 - 1 : sync' = ReadFromSeam(through)
      BY <2>2 DEF BackfillFallsShort, BackfillEnd
    <3>2. through \in Int /\ through <= seam - 1
      BY <1>3
    <3>. QED BY <3>1, <3>2
  <2>. QED BY <2>1, <2>2
<1>5. PICK through \in Int : through <= sync.seam - 1 /\ sync' = ReadFromSeam(through)
  BY <1>4
<1>6. SyncIn(ReadFromSeam(through), cursor, chain, head, Known)
  BY <1>2, <1>5, SeamFits
<1>7. SyncIn(sync', cursor, chain, head, Known)
  BY <1>5, <1>6
<1>. QED BY <1>1, <1>7, SameHistory

LEMMA ReadEndsHybrid ==
  ASSUME HybridInv, ReadRejected \/ ReadFails
  PROVE  HybridInv'
<1>1. /\ rpcVars' = rpcVars /\ cursor' = cursor /\ delivered' = delivered /\ skipped' = skipped
      /\ sync' = NoSync
  BY DEF ReadRejected, ReadFails
<1>2. SyncIn(sync', cursor, chain, head, Known)
  BY <1>1 DEF SyncIn
<1>. QED BY <1>1, <1>2, SameHistory

\* A read that has taken one more page, and what it is then.
MoreRead(q, at, events) == [q EXCEPT !.cursor = at, !.recent = events]

GoesOn(r, c, at, skips, held) ==
  /\ r \in Reading(c) /\ Holding(r) = held
  /\ r.cursor = at /\ r.skips = skips /\ Reached(r, c) = at.upTo

LEMMA MoreReadIs ==
  ASSUME NEW c, NEW q \in Reading(c), NEW at \in RpcCursor, NEW events \in Seq(ToSet(c)),
         at # NoRpcCursor
  PROVE  GoesOn(MoreRead(q, at, events), c, at, q.skips, q.old \o events)
<1>. DEFINE one == [q EXCEPT !.cursor = at]
            r == [one EXCEPT !.recent = events]
<1>1. /\ q.phase \in {"read"} /\ q.start \in Nat /\ q.old \in Seq(ToSet(c))
      /\ q.skips \in [Reasons -> SUBSET ToSet(c)]
      /\ q = [ phase |-> q.phase, start |-> q.start, cursor |-> q.cursor, old |-> q.old,
               recent |-> q.recent, skips |-> q.skips ]
  BY DEF Reading
<1>2. one = [ phase |-> q.phase, start |-> q.start, cursor |-> at, old |-> q.old,
              recent |-> q.recent, skips |-> q.skips ]
  BY <1>1
<1>. HIDE DEF one
<1>3. r = [ phase |-> q.phase, start |-> q.start, cursor |-> at, old |-> q.old,
            recent |-> events, skips |-> q.skips ]
  BY <1>2
<1>4. MoreRead(q, at, events) = r
  BY DEF MoreRead, one
<1>. HIDE DEF r
<1>5. r \in Reading(c)
  BY <1>1, <1>3 DEF Reading
<1>6. r.cursor = at /\ r.skips = q.skips /\ r.old = q.old /\ r.recent = events
  BY <1>3
<1>7. Holding(r) = q.old \o events /\ Reached(r, c) = at.upTo
  BY <1>6 DEF Holding, Reached
<1>. QED BY <1>4, <1>5, <1>6, <1>7 DEF GoesOn

LEMMA ReadPageHybrid ==
  ASSUME HybridInv, ReadPage
  PROVE  HybridInv'
<1>1. PICK read : read = NextRead(sync.start, sync.cursor)
  OBVIOUS
<1>2. PICK page : page = GetEvents(read.ledger, read.upTo)
  OBVIOUS
<1>. DEFINE k == cursor
            m == page.cursor.upTo
            all == sync.recent \o page.events
            held == Holding(sync) \o page.events
            done == page.cursor.ledger >= page.latest \/ page.cursor = sync.cursor
<1>3. /\ rpcVars' = rpcVars /\ sync.phase = "read" /\ ~ Rejected(read)
      /\ IF done
         THEN /\ sync' = NoSync
              /\ cursor' = page.cursor
              /\ delivered' = delivered \o DedupeById(sync.old \o all)
              /\ skipped' = [why \in DOMAIN skipped |-> skipped[why] \cup sync.skips[why]]
         ELSE /\ sync' = MoreRead(sync, page.cursor, all)
              /\ cursor' = cursor /\ delivered' = delivered /\ skipped' = skipped
  BY <1>1, <1>2 DEF ReadPage, MoreRead
<1>4. ChainOK /\ ReadingIn(sync, k, chain, head, Known) /\ k.upTo \in Nat
  BY <1>3, PhaseIs, CursorIs DEF HybridInv
<1>5. Further(page, sync)
  <2>. HIDE DEF k
  <2>. QED BY <1>1, <1>2, <1>3, <1>4, PageGoesOn
<1>6. /\ held \in Seq(ToSet(chain))
      /\ PickedFrom(held, chain, k.upTo, m) /\ k.upTo <= m
      /\ Covered(chain, m, Known \cup ToSet(held) \cup Passed(sync.skips))
  <2>. HIDE DEF k
  <2>. QED BY <1>4, <1>5, PageAdds
<1>7. /\ m \in Nat /\ m <= Len(chain) /\ page.cursor \in RpcCursor /\ page.cursor # NoRpcCursor
      /\ CursorIn(page.cursor, chain, head) /\ page.events \in Seq(ToSet(chain))
  BY <1>5 DEF Further
<1>8. /\ sync \in Reading(chain) /\ sync.old \in Seq(ToSet(chain)) /\ sync.recent \in Seq(ToSet(chain))
      /\ sync.skips \in [Reasons -> SUBSET ToSet(chain)]
  BY <1>4, ReadingIs DEF ReadingIn
<1>9. sync.old \o all = held /\ all \in Seq(ToSet(chain))
  <2>. DEFINE S == ToSet(chain)
              a == sync.old
              b == sync.recent
              e == page.events
  <2>1. a \in Seq(S) /\ b \in Seq(S) /\ e \in Seq(S)
    BY <1>7, <1>8
  <2>. HIDE DEF S, a, b, e
  <2>2. (a \o b) \o e = a \o (b \o e) /\ b \o e \in Seq(S)
    BY <2>1, ConcatAssociative
  <2>. QED BY <2>2 DEF a, b, e, S, Holding
<1>. HIDE DEF m, all, held, done
<1>10. CASE ~ done
  <2>1. /\ sync' = MoreRead(sync, page.cursor, all)
        /\ cursor' = cursor /\ delivered' = delivered /\ skipped' = skipped
    BY <1>3, <1>10
  <2>. DEFINE at == page.cursor
              q == MoreRead(sync, at, all)
  <2>2. at \in RpcCursor /\ at # NoRpcCursor /\ at.upTo = m /\ CursorIn(at, chain, head)
    BY <1>7 DEF m
  <2>. HIDE DEF at
  <2>7. GoesOn(q, chain, at, sync.skips, sync.old \o all)
    BY <1>8, <1>9, <2>2, MoreReadIs
  <2>. HIDE DEF q
  <2>3. /\ q \in Reading(chain) /\ q.cursor = at /\ q.skips = sync.skips
        /\ Holding(q) = held /\ Reached(q, chain) = m
    BY <1>9, <2>2, <2>7 DEF GoesOn
  <2>4. ReadingIn(q, cursor, chain, head, Known)
    BY <1>6, <2>2, <2>3 DEF ReadingIn
  <2>5. SyncIn(sync', cursor, chain, head, Known)
    BY <2>1, <2>4 DEF SyncIn, q, at
  <2>. QED BY <1>3, <2>1, <2>5, SameHistory
<1>11. CASE done
  <2>1. /\ sync' = NoSync /\ cursor' = page.cursor
        /\ delivered' = delivered \o DedupeById(held)
        /\ skipped' = [why \in DOMAIN skipped |-> skipped[why] \cup sync.skips[why]]
    BY <1>3, <1>9, <1>11
  <2>2. DedupeById(held) = held
    <3>. DEFINE lo == k.upTo
    <3>1. lo \in Nat /\ PickedFrom(held, chain, lo, m)
      BY <1>4, <1>6
    <3>. HIDE DEF lo
    <3>. QED BY <1>4, <1>6, <1>7, <3>1, PickedStaysAsItIs
  <2>3. delivered' = delivered \o held /\ cursor'.upTo = m
    BY <2>1, <2>2 DEF m
  <2>4. /\ delivered \in Seq(ToSet(chain)) /\ PickedFrom(delivered, chain, 0, k.upTo)
        /\ skipped \in [Reasons -> SUBSET ToSet(chain)]
    BY DEF HybridInv
  <2>5. /\ delivered' \in Seq(ToSet(chain))
        /\ ToSet(delivered) \cup ToSet(held) \subseteq ToSet(delivered')
    <3>. DEFINE S == ToSet(chain)
    <3>1. delivered \in Seq(S) /\ held \in Seq(S) /\ delivered' = delivered \o held
      BY <1>6, <2>3, <2>4
    <3>. HIDE DEF S
    <3>2. delivered \o held \in Seq(S) /\ ToSet(delivered \o held) = ToSet(delivered) \cup ToSet(held)
      BY <3>1, JoinHolds
    <3>. QED BY <3>1, <3>2 DEF S
  <2>6. PickedFrom(delivered', chain, 0, m)
    <3>. DEFINE S == ToSet(chain)
                lo == k.upTo
                z == 0
    <3>1. /\ delivered \in Seq(S) /\ held \in Seq(S) /\ lo \in Int /\ m \in Int /\ z \in Int
          /\ z <= lo /\ lo <= m
          /\ PickedFrom(delivered, chain, z, lo) /\ PickedFrom(held, chain, lo, m)
      BY <1>4, <1>6, <1>7, <2>4
    <3>. HIDE DEF S, lo, z
    <3>2. PickedFrom(delivered \o held, chain, z, m)
      BY <3>1, PickedJoin
    <3>. QED BY <2>3, <3>2 DEF z
  <2>7. /\ skipped' \in [Reasons -> SUBSET ToSet(chain)]
        /\ Passed(skipped) \cup Passed(sync.skips) \subseteq Passed(skipped')
    <3>1. DOMAIN skipped = Reasons
      BY <2>4
    <3>2. skipped' = [why \in Reasons |-> skipped[why] \cup sync.skips[why]]
      BY <2>1, <3>1
    <3>3. \A why \in Reasons : skipped[why] \cup sync.skips[why] \in SUBSET ToSet(chain)
      BY <1>8, <2>4
    <3>4. skipped' \in [Reasons -> SUBSET ToSet(chain)]
      BY <3>2, <3>3
    <3>5. \A why \in Reasons : skipped'[why] = skipped[why] \cup sync.skips[why]
      BY <3>2
    <3>6. Passed(skipped) \cup Passed(sync.skips) \subseteq Passed(skipped')
      BY <3>5 DEF Passed
    <3>. QED BY <3>4, <3>6
  <2>8. Known \cup ToSet(held) \cup Passed(sync.skips) \subseteq Known'
    BY <2>5, <2>7 DEF Known
  <2>9. Covered(chain, m, Known')
    BY <1>6, <2>8 DEF Covered
  <2>10. chain' = chain /\ head' = head /\ oldest' = oldest
    BY <1>3 DEF rpcVars
  <2>11. ChainOK' /\ oldest' + Retention <= head' + 1
    BY <2>10 DEF HybridInv, ChainOK
  <2>12. CursorIn(cursor', chain, head)
    BY <1>7, <2>1
  <2>13. SyncIn(sync', cursor', chain, head, Known')
    BY <2>1 DEF SyncIn
  <2>. QED BY <2>3, <2>5, <2>6, <2>7, <2>9, <2>10, <2>11, <2>12, <2>13 DEF HybridInv
<1>. QED BY <1>10, <1>11

LEMMA HybridStep ==
  ASSUME HybridInv, HybridNext
  PROVE  HybridInv'
<1>1. CASE (CloseLedger \/ Expire) /\ UNCHANGED <<indexer, clientVars, failures>>
  <2>1. clientVars' = clientVars
    BY <1>1
  <2>. QED BY <1>1, <2>1, CloseLedgerHybrid, ExpireHybrid
<1>2. CASE StartSync
  BY <1>2, StartSyncHybrid
<1>3. CASE HealthAnswers \/ HealthFails
  BY <1>3, HealthHybrid
<1>4. CASE Backfill \/ BackfillFallsShort
  BY <1>4, BackfillHybrid
<1>5. CASE ReadPage
  BY <1>5, ReadPageHybrid
<1>6. CASE ReadRejected \/ ReadFails
  BY <1>6, ReadEndsHybrid
<1>. QED BY <1>1, <1>2, <1>3, <1>4, <1>5, <1>6 DEF HybridNext, SyncStep

LEMMA HybridStutter ==
  ASSUME HybridInv, UNCHANGED hybridVars
  PROVE  HybridInv'
<1>1. /\ chain' = chain /\ head' = head /\ oldest' = oldest
      /\ cursor' = cursor /\ delivered' = delivered /\ skipped' = skipped /\ sync' = sync
  BY DEF hybridVars, rpcVars, clientVars
<1>2. ChainOK' /\ Known' = Known
  BY <1>1 DEF HybridInv, ChainOK, Known
<1>. QED BY <1>1, <1>2 DEF HybridInv

\* Whatever fails, falls short, expires or is resumed, what was delivered is picked
\* in order from the chain up to the cursor, which stands inside its own ledger;
\* everything wanted below it is delivered or passed over for a reason; and the
\* sync in flight holds a stretch that goes on from there.
THEOREM HybridInvariance == HybridSpec => []HybridInv
<1>1. HybridInit => HybridInv
  BY HybridStarts
<1>2. HybridInv /\ [HybridNext]_hybridVars => HybridInv'
  BY HybridStep, HybridStutter
<1>. QED BY <1>1, <1>2, PTL DEF HybridSpec

\* Over all syncs together every event comes in apply order and at most once: a
\* sync goes on after the cursor, and its two legs meet at the seam.
THEOREM DeliveredOnceInOrder == HybridSpec => []DeliveredInOrder
<1>1. HybridInv => DeliveredInOrder
  <2>. SUFFICES ASSUME HybridInv PROVE DeliveredInOrder
    OBVIOUS
  <2>. DEFINE hi == cursor.upTo
              lo == 0
  <2>1. ChainOK /\ delivered \in Seq(ToSet(chain)) /\ PickedFrom(delivered, chain, lo, hi)
    BY DEF HybridInv
  <2>2. hi \in Nat /\ hi <= Len(chain) /\ lo \in Nat
    BY CursorIs
  <2>. HIDE DEF lo, hi
  <2>3. \A i, j \in DOMAIN delivered : i < j => Position(delivered[i]) < Position(delivered[j])
    BY <2>1, <2>2, PickedInOrder
  <2>. QED BY <2>3 DEF DeliveredInOrder
<1>. QED BY <1>1, HybridInvariance, PTL

\* The kept cursor never passes a wanted event that was neither delivered nor
\* passed over for one of the three reasons the code names.
THEOREM NothingLostUnnamed == HybridSpec => []NothingElseLost
<1>1. HybridInv => NothingElseLost
  <2>. SUFFICES ASSUME HybridInv PROVE NothingElseLost
    OBVIOUS
  <2>1. Covered(chain, cursor.upTo, Known) /\ Known = ToSet(delivered) \cup SkippedEvents
    BY SkippedIs DEF HybridInv
  <2>. QED BY <2>1 DEF Covered, NothingElseLost
<1>. QED BY <1>1, HybridInvariance, PTL
=============================================================================
