-------------------------- MODULE StateEngineProofs --------------------------
(***************************************************************************)
(* What the arithmetic of module Field and the operators of StateEngine    *)
(* guarantee, for every number of accounts, every pair of moduli and every *)
(* digest function.                                                        *)
(***************************************************************************)
EXTENDS StateEngine, Induction, SequenceTheorems

\* Remainders of numbers less than one modulus away from the canonical range.
LEMMA ModSmall ==
  ASSUME NEW m \in Nat \ {0}, NEW x \in Int
  PROVE  /\ x % m \in 0 .. m - 1
         /\ x \in 0 .. m - 1 => x % m = x
         /\ x \in m .. 2 * m - 1 => x % m = x - m
         /\ x \in -m .. -1 => x % m = x + m
OBVIOUS

\* Division with remainder.
LEMMA DivMod ==
  ASSUME NEW m \in Nat \ {0}, NEW x \in Int
  PROVE  /\ x \div m \in Int
         /\ x % m \in 0 .. m - 1
         /\ x = m * (x \div m) + (x % m)
OBVIOUS

\* A multiple of m strictly between -m and m is zero.
LEMMA SmallMultiple ==
  ASSUME NEW m \in Nat \ {0}, NEW k \in Int, m * k < m, -m < m * k
  PROVE  k = 0
<1>1. CASE k >= 1
  <2>1. m * k = m + m * (k - 1)
    OBVIOUS
  <2>2. m * (k - 1) >= 0
    BY <1>1
  <2>. QED BY <2>1, <2>2
<1>2. CASE k <= -1
  <2>1. m * k = m * (k + 1) - m
    OBVIOUS
  <2>2. m * (k + 1) <= 0
    BY <1>2
  <2>. QED BY <2>1, <2>2
<1>. QED BY <1>1, <1>2

\* The remainder is the only canonical number a multiple of m away.
LEMMA ModUnique ==
  ASSUME NEW m \in Nat \ {0}, NEW q \in Int, NEW s \in 0 .. m - 1
  PROVE  (m * q + s) % m = s
<1>. DEFINE x == m * q + s
            p == x \div m
            t == x % m
<1>1. x \in Int /\ p \in Int /\ t \in 0 .. m - 1
  BY ModSmall
<1>2. x = m * p + t
  BY <1>1
<1>. HIDE DEF p, t
<1>3. m * (q - p) = t - s
  <2>1. m * (q - p) = m * q - m * p
    BY <1>1
  <2>. QED BY <2>1, <1>1, <1>2
<1>4. q - p = 0
  <2>1. m * (q - p) < m /\ -m < m * (q - p)
    BY <1>1, <1>3
  <2>. QED BY <2>1, <1>1, SmallMultiple
<1>. QED BY <1>1, <1>3, <1>4 DEF t

\* Reducing the summands first does not change a reduced sum.
LEMMA ModAdd ==
  ASSUME NEW m \in Nat \ {0}, NEW a \in Int, NEW b \in Int
  PROVE  ((a % m) + (b % m)) % m = (a + b) % m
<1>. DEFINE qa == a \div m
            qb == b \div m
            ra == a % m
            rb == b % m
            d == (ra + rb) \div m
            s == (ra + rb) % m
<1>1. qa \in Int /\ ra \in 0 .. m - 1 /\ a = m * qa + ra
  BY DivMod
<1>2. qb \in Int /\ rb \in 0 .. m - 1 /\ b = m * qb + rb
  BY DivMod
<1>3. d \in Int /\ s \in 0 .. m - 1 /\ ra + rb = m * d + s
  <2>1. ra + rb \in Int
    BY <1>1, <1>2
  <2>. HIDE DEF ra, rb
  <2>. QED BY <2>1, DivMod
<1>4. SUFFICES (a + b) % m = s
  OBVIOUS
<1>. HIDE DEF qa, qb, ra, rb, d, s
<1>5. a + b = m * (qa + qb + d) + s
  <2>1. m * (qa + qb + d) = m * qa + m * qb + m * d
    BY <1>1, <1>2, <1>3
  <2>. QED BY <1>1, <1>2, <1>3, <2>1
<1>6. qa + qb + d \in Int
  BY <1>1, <1>2, <1>3
<1>. QED BY <1>3, <1>5, <1>6, ModUnique

-----------------------------------------------------------------------------
\* Adding openings adds the points they open: what groupAdd is for.
THEOREM CommitAdd ==
  ASSUME NEW v \in Int, NEW r \in Int, NEW w \in Int, NEW t \in Int
  PROVE  Commit(v + w, GroupAdd(r, t)) = PointAdd(Commit(v, r), Commit(w, t))
<1>1. /\ v % FpModulus \in Fp /\ r % FpModulus \in Fp
      /\ w % FpModulus \in Fp /\ t % FpModulus \in Fp
  BY FieldAssumption, ModSmall DEF Fp
<1>2. (v + w) % FpModulus = ((v % FpModulus) + (w % FpModulus)) % FpModulus
  BY FieldAssumption, ModAdd
<1>3. (r + t) % FpModulus = ((r % FpModulus) + (t % FpModulus)) % FpModulus
  BY FieldAssumption, ModAdd
<1>4. GroupAdd(r, t) % FpModulus = GroupAdd(r, t)
  <2>1. FpModulus \in Nat \ {0} /\ r + t \in Int
    BY FieldAssumption
  <2>2. GroupAdd(r, t) \in 0 .. FpModulus - 1
    BY <2>1, ModSmall DEF GroupAdd
  <2>3. GroupAdd(r, t) \in Int
    BY <2>1, <2>2
  <2>. QED BY <2>1, <2>2, <2>3, ModSmall
<1>. QED BY <1>2, <1>3, <1>4 DEF Commit, PointAdd, GroupAdd

\* A commitment is a point, and so is a sum of points.
LEMMA CommitType ==
  ASSUME NEW v \in Int, NEW r \in Int
  PROVE  Commit(v, r) \in Point
BY FieldAssumption, ModSmall DEF Commit, Point, Fp

\* The sum of two points is a point.
LEMMA PointAddType ==
  ASSUME NEW c \in Point, NEW d \in Point
  PROVE  PointAdd(c, d) \in Point
<1>1. c.g + d.g \in Int /\ c.h + d.h \in Int
  BY FieldAssumption DEF Point, Fp
<1>. QED BY <1>1, FieldAssumption, ModSmall DEF PointAdd, GroupAdd, Point, Fp

\* A sum of blindings stays below the group order.
LEMMA GroupAddType ==
  ASSUME NEW a \in Int, NEW b \in Int
  PROVE  GroupAdd(a, b) \in Fp
BY FieldAssumption, ModSmall, a + b \in Int DEF GroupAdd, Fp

\* Masking is undone by subtracting the same mask.
LEMMA UnmaskModulo ==
  ASSUME NEW m \in Nat \ {0}, NEW v \in 0 .. m - 1, NEW mask \in 0 .. m - 1
  PROVE  /\ (v + mask) % m \in 0 .. m - 1
         /\ (((v + mask) % m) - mask) % m = v
<1>. DEFINE c == (v + mask) % m
<1>1. c \in 0 .. m - 1 /\ (c = v + mask \/ c = v + mask - m)
  OBVIOUS
<1>. HIDE DEF c
<1>2. CASE c = v + mask
  <2>1. c - mask = v
    BY <1>2
  <2>. QED BY <1>1, <2>1 DEF c
<1>3. CASE c = v + mask - m
  <2>1. c - mask = v - m
    BY <1>3
  <2>2. (v - m) % m = v
    OBVIOUS
  <2>. QED BY <1>1, <2>1, <2>2 DEF c
<1>. QED BY <1>1, <1>2, <1>3

\* What an event carries masked is what its reader unmasks.
THEOREM Unmask ==
  ASSUME NEW v \in Fr, NEW mask \in Fr
  PROVE  FrAdd(v, mask) \in Fr /\ FrMod(FrAdd(v, mask) - mask) = v
BY FieldAssumption, UnmaskModulo DEF Fr, FrAdd, FrMod
-----------------------------------------------------------------------------
\* A reduced field element is also a group scalar, and both are integers.
LEMMA FrInFp == (\A x \in Fr : x \in Fp /\ x \in Int) /\ (\A x \in Fp : x \in Int)
BY FieldAssumption DEF Fr, Fp

\* frMod lands in the field.
LEMMA FrModType ==
  ASSUME NEW x \in Int
  PROVE  FrMod(x) \in Fr
BY FieldAssumption, ModSmall DEF FrMod, Fr

\* A Poseidon2 digest is a field element.
LEMMA DigestType ==
  ASSUME NEW d \in Domain, NEW s \in Secret, NEW sigma \in Sigmas
  PROVE  Digest(d, s, sigma) \in Fr
BY WitnessAssumption DEF Digest

\* Viewing keys and ECDH results are secrets Poseidon2 may absorb.
LEMMA SecretType ==
  ASSUME NEW a \in Accounts, NEW b \in Accounts, NEW sigma \in Sigmas
  PROVE  <<a>> \in Secret /\ <<b, a, sigma>> \in Secret
BY DEF Secret

\* What #decryptIncoming returns is an opening.
LEMMA DecryptIncomingType ==
  ASSUME NEW me \in Accounts, NEW ev \in TransferEvent
  PROVE  DecryptIncoming(me, ev) \in [v : Fr, r : Fr]
<1>. DEFINE s == Ecdh(me, ev.rE)
<1>1. /\ s \in Secret /\ ev.sigma \in Sigmas /\ ev.vTilde \in Int
  <2>1. ev.rE \in Accounts \X Sigmas /\ ev.sigma \in Sigmas /\ ev.vTilde \in Fr
    BY DEF TransferEvent
  <2>2. ev.rE[1] \in Accounts /\ ev.rE[2] \in Sigmas
    BY <2>1
  <2>. QED BY <2>1, <2>2, FrInFp, SecretType DEF Ecdh
<1>. HIDE DEF s
<1>2. Digest("TX_AMOUNT", s, ev.sigma) \in Int /\ DeriveTxBlind(s, ev.sigma) \in Fr
  <2>1. "TX_AMOUNT" \in Domain /\ "TX_BLINDING" \in Domain
    BY DEF Domain
  <2>2. Digest("TX_AMOUNT", s, ev.sigma) \in Fr /\ Digest("TX_BLINDING", s, ev.sigma) \in Fr
    BY <1>1, <2>1, DigestType
  <2>. QED BY <2>2, FrInFp DEF DeriveTxBlind
<1>3. FrMod(ev.vTilde - Digest("TX_AMOUNT", s, ev.sigma)) \in Fr
  <2>1. ev.vTilde - Digest("TX_AMOUNT", s, ev.sigma) \in Int
    BY <1>1, <1>2
  <2>. QED BY <2>1, FrModType
<1>. QED BY <1>2, <1>3 DEF DecryptIncoming, s

\* What openSpendable returns is an opening.
LEMMA OpenSpendableType ==
  ASSUME NEW me \in Accounts, NEW ev \in WithdrawEvent \cup TransferEvent
  PROVE  OpenSpendable(me, ev) \in [v : Fr, r : Fr]
<1>1. /\ ev.sigma \in Sigmas /\ ev.bTilde \in Int
  <2>1. ev.sigma \in Sigmas /\ ev.bTilde \in Fr
    BY DEF TransferEvent, WithdrawEvent
  <2>. QED BY <2>1, FrInFp
<1>2. /\ Digest("ENCRYPTED_BALANCE", <<me>>, ev.sigma) \in Int
      /\ DeriveSpendR(me, ev.sigma) \in Fr
  <2>1. "ENCRYPTED_BALANCE" \in Domain /\ "SPEND_RANDOMNESS" \in Domain
    BY DEF Domain
  <2>2. <<me>> \in Secret
    BY DEF Secret
  <2>3. /\ Digest("ENCRYPTED_BALANCE", <<me>>, ev.sigma) \in Fr
        /\ Digest("SPEND_RANDOMNESS", <<me>>, ev.sigma) \in Fr
    BY <1>1, <2>1, <2>2, DigestType
  <2>. QED BY <2>3, FrInFp DEF DeriveSpendR
<1>3. FrMod(ev.bTilde - Digest("ENCRYPTED_BALANCE", <<me>>, ev.sigma)) \in Fr
  <2>1. ev.bTilde - Digest("ENCRYPTED_BALANCE", <<me>>, ev.sigma) \in Int
    BY <1>1, <1>2
  <2>. QED BY <2>1, FrModType
<1>. QED BY <1>2, <1>3 DEF OpenSpendable

\* An opening is a record of a value and a blinding, and the zero opening is one.
LEMMA OpeningType ==
  /\ ZeroOpening \in Opening
  /\ \A o \in [v : Fr, r : Fr] : o \in Opening
<1>1. ZeroOpening \in Opening
  BY FieldAssumption DEF ZeroOpening, Opening, Fp
<1>2. ASSUME NEW o \in [v : Fr, r : Fr] PROVE o \in Opening
  <2>1. o = [v |-> o.v, r |-> o.r] /\ o.v \in Fr /\ o.r \in Fr
    OBVIOUS
  <2>2. o.v \in Int /\ o.r \in Fp
    BY <2>1, FrInFp
  <2>. QED BY <2>1, <2>2 DEF Opening
<1>. QED BY <1>1, <1>2

\* The sum of two openings is an opening.
LEMMA AddOpeningType ==
  ASSUME NEW o \in Opening, NEW p \in Opening
  PROVE  AddOpening(o, p) \in Opening
<1>1. o.v \in Int /\ p.v \in Int /\ o.r \in Fp /\ p.r \in Fp
  BY DEF Opening
<1>2. o.v + p.v \in Int /\ o.r \in Int /\ p.r \in Int
  BY <1>1, FrInFp
<1>. QED BY <1>2, GroupAddType DEF AddOpening, Opening

\* The five event families tell themselves apart by their type field.
LEMMA EventTypes ==
  ASSUME NEW ev \in ConfidentialEvent
  PROVE  /\ ev.ledger \in Nat
         /\ ev.type \in {"register", "deposit", "merge", "withdraw", "transfer"}
         /\ ev.type = "deposit" => ev \in DepositEvent
         /\ ev.type = "merge" => ev \in MergeEvent
         /\ ev.type = "withdraw" => ev \in WithdrawEvent
         /\ ev.type = "transfer" => ev \in TransferEvent
BY DEF ConfidentialEvent, RegisterEvent, DepositEvent, MergeEvent,
       WithdrawEvent, TransferEvent

\* One applied event keeps the state well formed.
LEMMA ApplyType ==
  ASSUME NEW me \in Accounts, NEW st \in AccountState, NEW ev \in ConfidentialEvent
  PROVE  Apply(me, st, ev) \in AccountState
<1>1. st.spendable \in Opening /\ st.receiving \in Opening /\ st.lastLedger \in Nat
  BY DEF AccountState
<1>2. SpendableAfter(me, st, ev) \in Opening
  <2>1. ev.type \in {"withdraw", "transfer"} => OpenSpendable(me, ev) \in Opening
    BY EventTypes, OpeningType, OpenSpendableType
  <2>2. AddOpening(st.spendable, st.receiving) \in Opening
    BY <1>1, AddOpeningType
  <2>. QED BY <1>1, <2>1, <2>2 DEF SpendableAfter
<1>3. ReceivingAfter(me, st, ev) \in Opening
  <2>1. CASE ev.type = "deposit" /\ ev.to = me
    <3>1. ev.amount \in Int
      BY <2>1, EventTypes DEF DepositEvent
    <3>2. [st.receiving EXCEPT !.v = @ + ev.amount] \in Opening
      BY <1>1, <3>1 DEF Opening
    <3>. QED BY <2>1, <3>2 DEF ReceivingAfter
  <2>2. CASE ev.type = "merge" /\ ev.account = me
    BY <2>2, OpeningType DEF ReceivingAfter
  <2>3. CASE ev.type = "transfer" /\ ev.to = me
    <3>1. AddOpening(st.receiving, DecryptIncoming(me, ev)) \in Opening
      BY <2>3, <1>1, EventTypes, OpeningType, DecryptIncomingType, AddOpeningType
    <3>. QED BY <2>3, <3>1 DEF ReceivingAfter
  <2>4. CASE /\ ~ (ev.type = "deposit" /\ ev.to = me)
             /\ ~ (ev.type = "merge" /\ ev.account = me)
             /\ ~ (ev.type = "transfer" /\ ev.to = me)
    BY <2>4, <1>1 DEF ReceivingAfter
  <2>. QED BY <2>1, <2>2, <2>3, <2>4
<1>. QED BY <1>1, <1>2, <1>3, EventTypes DEF Apply, AccountState

-----------------------------------------------------------------------------
\* The replay is the fold the code runs: it starts at st and applies one event
\* after the other.  (A recursive function is a CHOOSE, so that one exists has
\* to be shown; it is built event by event.)
LEMMA ReplayEquations ==
  ASSUME NEW me, NEW st, NEW evs, Len(evs) \in Nat
  PROVE  /\ Replay(me, st, evs)[0] = st
         /\ \A i \in 1 .. Len(evs) :
              Replay(me, st, evs)[i] = Apply(me, Replay(me, st, evs)[i - 1], evs[i])
<1>. DEFINE Step(g, i) == IF i = 0 THEN st ELSE Apply(me, g[i - 1], evs[i])
            F(g, n) == [i \in 0 .. n |-> Step(g, i)]
            G == {n \in Nat : \E g : g = F(g, n)}
            R == Replay(me, st, evs)
<1>1. R = CHOOSE g : g = F(g, Len(evs))
  BY DEF Replay
<1>2. 0 \in G
  <2>. DEFINE g == [i \in 0 .. 0 |-> st]
  <2>1. g = F(g, 0)
    OBVIOUS
  <2>. QED BY <2>1
<1>3. ASSUME NEW n \in Nat, n \in G PROVE n + 1 \in G
  <2>1. PICK f : f = F(f, n)
    BY <1>3
  <2>. DEFINE g == [i \in 0 .. n + 1 |->
                      IF i = n + 1 THEN Apply(me, f[n], evs[n + 1]) ELSE f[i]]
  <2>2. ASSUME NEW i \in 0 .. n + 1 PROVE g[i] = Step(g, i)
    <3>1. CASE i = n + 1
      <4>1. g[i] = Apply(me, f[n], evs[n + 1]) /\ g[n] = f[n]
        BY <3>1
      <4>2. i # 0 /\ i - 1 = n
        BY <3>1
      <4>. HIDE DEF g
      <4>. QED BY <3>1, <4>1, <4>2
    <3>2. CASE i # n + 1
      <4>1. i \in 0 .. n /\ g[i] = f[i]
        BY <3>2
      <4>2. f[i] = Step(f, i)
        <5>. HIDE DEF Step
        <5>. QED BY <2>1, <4>1
      <4>3. i # 0 => g[i - 1] = f[i - 1]
        BY <4>1
      <4>. HIDE DEF g
      <4>. QED BY <4>1, <4>2, <4>3
    <3>. QED BY <3>1, <3>2
  <2>3. g = F(g, n + 1)
    <3>1. F(g, n + 1) = [i \in 0 .. n + 1 |-> g[i]]
      <4>. HIDE DEF g, Step
      <4>. QED BY <2>2
    <3>. HIDE DEF F
    <3>. QED BY <3>1
  <2>. HIDE DEF g, F
  <2>. QED BY <2>3
<1>4. Len(evs) \in G
  <2>. HIDE DEF G
  <2>. QED BY <1>2, <1>3, SetInduction
<1>5. R = F(R, Len(evs))
  <2>. HIDE DEF F, R
  <2>. QED BY <1>1, <1>4
<1>6. \A i \in 0 .. Len(evs) : R[i] = Step(R, i)
  <2>. HIDE DEF Step, R
  <2>. QED BY <1>5
<1>. HIDE DEF R
<1>7. R[0] = st
  BY <1>6
<1>8. \A i \in 1 .. Len(evs) : R[i] = Apply(me, R[i - 1], evs[i])
  BY <1>6
<1>. QED BY <1>7, <1>8 DEF R

\* The replay of a batch stays within the account states.
LEMMA ReplayType ==
  ASSUME NEW me \in Accounts, NEW st \in AccountState, NEW evs \in Seq(ConfidentialEvent)
  PROVE  \A i \in 0 .. Len(evs) : Replay(me, st, evs)[i] \in AccountState
<1>. DEFINE R == Replay(me, st, evs)
            G == {i \in Nat : i <= Len(evs) => R[i] \in AccountState}
<1>1. Len(evs) \in Nat /\ \A i \in 1 .. Len(evs) : evs[i] \in ConfidentialEvent
  OBVIOUS
<1>2. R[0] = st /\ \A i \in 1 .. Len(evs) : R[i] = Apply(me, R[i - 1], evs[i])
  BY <1>1, ReplayEquations
<1>. HIDE DEF R
<1>3. 0 \in G
  BY <1>2
<1>4. ASSUME NEW i \in Nat, i \in G PROVE i + 1 \in G
  <2>. SUFFICES ASSUME i + 1 <= Len(evs) PROVE R[i + 1] \in AccountState
    OBVIOUS
  <2>1. i + 1 \in 1 .. Len(evs) /\ i + 1 - 1 = i /\ R[i] \in AccountState
    BY <1>1, <1>4
  <2>2. R[i + 1] = Apply(me, R[i], evs[i + 1])
    BY <1>2, <2>1
  <2>. QED BY <1>1, <2>1, <2>2, ApplyType
<1>5. Nat \subseteq G
  <2>. HIDE DEF G
  <2>. QED BY <1>3, <1>4, SetInduction
<1>. QED BY <1>1, <1>5 DEF R

\* Replaying two batches one after the other, the second from the state the first left,
\* ends in the state that one replay of both gives, and this is an account state:
\* however the polls cut the log, and wherever a saved state resumes (ingestEvents).
THEOREM BatchesCompose ==
  ASSUME NEW me \in Accounts, NEW st \in AccountState,
         NEW s \in Seq(ConfidentialEvent), NEW t \in Seq(ConfidentialEvent)
  PROVE  /\ IngestEvents(me, st, s \o t) \in AccountState
         /\ IngestEvents(me, st, s \o t) = IngestEvents(me, IngestEvents(me, st, s), t)
<1>. DEFINE w   == s \o t
            mid == IngestEvents(me, st, s)
            M   == Len(s)
            N   == Len(t)
            W   == Replay(me, st, w)
            A   == Replay(me, st, s)
            B   == Replay(me, mid, t)
<1>1. /\ M \in Nat /\ N \in Nat /\ Len(w) = M + N /\ w \in Seq(ConfidentialEvent)
      /\ \A i \in 1 .. M : w[i] = s[i]
      /\ \A i \in 1 .. N : w[M + i] = t[i]
  <2>1. M \in Nat /\ N \in Nat /\ Len(w) = M + N /\ w \in Seq(ConfidentialEvent)
    OBVIOUS
  <2>2. \A i \in 1 .. M + N : w[i] = IF i <= M THEN s[i] ELSE t[i - M]
    BY ConcatProperties
  <2>. HIDE DEF w, M, N
  <2>3. \A i \in 1 .. N : M + i \in 1 .. M + N /\ ~ (M + i <= M) /\ M + i - M = i
    BY <2>1
  <2>. QED BY <2>1, <2>2, <2>3
<1>. HIDE DEF w
<1>2. A[0] = st /\ \A i \in 1 .. M : A[i] = Apply(me, A[i - 1], s[i])
  BY <1>1, ReplayEquations
<1>3. B[0] = mid /\ \A i \in 1 .. N : B[i] = Apply(me, B[i - 1], t[i])
  BY <1>1, ReplayEquations
<1>4. W[0] = st /\ \A i \in 1 .. M + N : W[i] = Apply(me, W[i - 1], w[i])
  <2>1. Len(w) \in Nat
    BY <1>1
  <2>. QED BY <1>1, <2>1, ReplayEquations
<1>5. /\ mid = A[M] /\ IngestEvents(me, mid, t) = B[N] /\ IngestEvents(me, st, w) = W[M + N]
  BY <1>1 DEF IngestEvents
<1>6. IngestEvents(me, st, w) \in AccountState
  <2>1. \A i \in 0 .. M + N : W[i] \in AccountState
    BY <1>1, ReplayType
  <2>. HIDE DEF W, M, N, mid
  <2>. QED BY <1>1, <1>5, <2>1
<1>. HIDE DEF A, B, W, M, N, mid
<1>. DEFINE G == {i \in Nat : i <= M => W[i] = A[i]}
            H == {i \in Nat : i <= N => W[M + i] = B[i]}
<1>7. 0 \in G
  BY <1>2, <1>4
<1>8. ASSUME NEW i \in Nat, i \in G PROVE i + 1 \in G
  <2>. SUFFICES ASSUME i + 1 <= M PROVE W[i + 1] = A[i + 1]
    OBVIOUS
  <2>1. i + 1 \in 1 .. M /\ i + 1 \in 1 .. M + N /\ i + 1 - 1 = i /\ W[i] = A[i]
    BY <1>1, <1>8
  <2>2. W[i + 1] = Apply(me, W[i], w[i + 1]) /\ A[i + 1] = Apply(me, A[i], s[i + 1])
    BY <1>2, <1>4, <2>1
  <2>. QED BY <1>1, <2>1, <2>2
<1>9. W[M] = A[M]
  <2>1. Nat \subseteq G
    <3>. HIDE DEF G
    <3>. QED BY <1>7, <1>8, SetInduction
  <2>. QED BY <1>1, <2>1
<1>10. 0 \in H
  BY <1>1, <1>3, <1>5, <1>9
<1>11. ASSUME NEW i \in Nat, i \in H PROVE i + 1 \in H
  <2>. SUFFICES ASSUME i + 1 <= N PROVE W[M + (i + 1)] = B[i + 1]
    OBVIOUS
  <2>1. /\ i + 1 \in 1 .. N /\ M + (i + 1) \in 1 .. M + N /\ i + 1 - 1 = i
        /\ M + (i + 1) - 1 = M + i /\ W[M + i] = B[i]
    BY <1>1, <1>11
  <2>. DEFINE j == M + (i + 1)
  <2>2. j \in 1 .. M + N /\ j - 1 = M + i
    <3>1. M \in Nat /\ N \in Nat
      BY <1>1
    <3>. QED BY <2>1, <3>1
  <2>. HIDE DEF j
  <2>3. W[j] = Apply(me, W[j - 1], w[j])
    BY ONLY <1>4, <2>2
  <2>4. W[j] = Apply(me, W[M + i], w[j])
    BY ONLY <2>2, <2>3
  <2>5. B[i + 1] = Apply(me, B[i + 1 - 1], t[i + 1])
    BY ONLY <1>3, <2>1
  <2>6. B[i + 1] = Apply(me, B[i], t[i + 1])
    BY ONLY <2>1, <2>5
  <2>7. w[j] = t[i + 1]
    BY <1>1, <2>1 DEF j
  <2>8. W[j] = B[i + 1]
    BY ONLY <2>1, <2>4, <2>6, <2>7
  <2>. QED BY <2>8 DEF j
<1>12. W[M + N] = B[N]
  <2>1. Nat \subseteq H
    <3>. HIDE DEF H
    <3>. QED BY <1>10, <1>11, SetInduction
  <2>. QED BY <1>1, <2>1
<1>. QED BY <1>5, <1>6, <1>12 DEF w, mid

-----------------------------------------------------------------------------
\* Adding two openings opens the sum of their points.
LEMMA AddOpens ==
  ASSUME NEW o \in Opening, NEW p \in Opening
  PROVE  CommitOpening(AddOpening(o, p)) = PointAdd(CommitOpening(o), CommitOpening(p))
<1>. DEFINE v == o.v
            r == o.r
            w == p.v
            t == p.r
<1>1. v \in Int /\ r \in Int /\ w \in Int /\ t \in Int
  BY FrInFp DEF Opening
<1>2. AddOpening(o, p).v = v + w /\ AddOpening(o, p).r = GroupAdd(r, t)
  BY DEF AddOpening
<1>3. CommitOpening(o) = Commit(v, r) /\ CommitOpening(p) = Commit(w, t)
  BY DEF CommitOpening
<1>. HIDE DEF v, r, w, t
<1>4. Commit(v + w, GroupAdd(r, t)) = PointAdd(Commit(v, r), Commit(w, t))
  BY <1>1, CommitAdd
<1>. QED BY <1>2, <1>3, <1>4 DEF CommitOpening

\* A public deposit adds its amount and no blinding.
LEMMA DepositOpens ==
  ASSUME NEW o \in Opening, NEW amount \in Int
  PROVE  CommitOpening([o EXCEPT !.v = @ + amount])
           = PointAdd(CommitOpening(o), Commit(amount, 0))
<1>1. o.v \in Int /\ o.r \in Fp /\ o.r \in Int
  BY FrInFp DEF Opening
<1>2. GroupAdd(o.r, 0) = o.r
  <2>1. o.r % FpModulus = o.r
    BY <1>1, FieldAssumption DEF Fp
  <2>2. o.r + 0 = o.r
    BY <1>1
  <2>. QED BY <2>1, <2>2 DEF GroupAdd
<1>3. [o EXCEPT !.v = @ + amount].v = o.v + amount /\ [o EXCEPT !.v = @ + amount].r = o.r
  BY DEF Opening
<1>. QED BY <1>1, <1>2, <1>3, CommitAdd DEF CommitOpening

\* What an opening commits to is a point.
LEMMA CommitOpeningType ==
  ASSUME NEW o \in Opening
  PROVE  CommitOpening(o) \in Point
<1>1. o.v \in Int /\ o.r \in Int
  BY FrInFp DEF Opening
<1>. QED BY <1>1, CommitType DEF CommitOpening

\* Applying an explained event keeps right openings right.
LEMMA ApplySound ==
  ASSUME NEW me \in Accounts, NEW st \in AccountState, NEW ev \in ConfidentialEvent,
         NEW before \in Commitments, NEW after,
         EventExplains(ev, before, after), VerifyAgainstChain(st, before[me])
  PROVE  VerifyAgainstChain(Apply(me, st, ev), after[me])
<1>1. /\ st.spendable \in Opening /\ st.receiving \in Opening
      /\ CommitOpening(st.spendable) = before[me].spendableC
      /\ CommitOpening(st.receiving) = before[me].receivingC
  BY DEF AccountState, VerifyAgainstChain, Opens
<1>. SUFFICES /\ CommitOpening(SpendableAfter(me, st, ev)) = after[me].spendableC
              /\ CommitOpening(ReceivingAfter(me, st, ev)) = after[me].receivingC
  BY DEF VerifyAgainstChain, Opens, Apply
<1>2. CASE ev.type = "register"
  BY <1>1, <1>2 DEF EventExplains, SpendableAfter, ReceivingAfter
<1>3. CASE ev.type = "deposit"
  <2>1. after = [before EXCEPT ![ev.to].receivingC = PointAdd(@, Commit(ev.amount, 0))]
    BY <1>3 DEF EventExplains
  <2>2. ev.to \in Accounts /\ ev.amount \in Int
    BY <1>3, EventTypes DEF DepositEvent
  <2>3. SpendableAfter(me, st, ev) = st.spendable
    BY <1>3 DEF SpendableAfter
  <2>4. after[me].spendableC = before[me].spendableC
    BY <2>1, <2>2 DEF Commitments
  <2>5. CASE ev.to = me
    <3>1. ReceivingAfter(me, st, ev) = [st.receiving EXCEPT !.v = @ + ev.amount]
      BY <1>3, <2>5 DEF ReceivingAfter
    <3>2. after[me].receivingC = PointAdd(before[me].receivingC, Commit(ev.amount, 0))
      BY <2>1, <2>5 DEF Commitments
    <3>. QED BY <1>1, <2>2, <2>3, <2>4, <3>1, <3>2, DepositOpens
  <2>6. CASE ev.to # me
    <3>1. ReceivingAfter(me, st, ev) = st.receiving
      BY <1>3, <2>6 DEF ReceivingAfter
    <3>2. after[me].receivingC = before[me].receivingC
      BY <2>1, <2>6 DEF Commitments
    <3>. QED BY <1>1, <2>3, <2>4, <3>1, <3>2
  <2>. QED BY <2>5, <2>6
<1>4. CASE ev.type = "merge"
  <2>1. after = [before EXCEPT ![ev.account] =
                   [ spendableC |-> PointAdd(@.spendableC, @.receivingC),
                     receivingC |-> Commit(0, 0) ]]
    BY <1>4 DEF EventExplains
  <2>2. CASE ev.account = me
    <3>1. /\ SpendableAfter(me, st, ev) = AddOpening(st.spendable, st.receiving)
          /\ ReceivingAfter(me, st, ev) = ZeroOpening
      BY <1>4, <2>2 DEF SpendableAfter, ReceivingAfter
    <3>2. /\ after[me].spendableC = PointAdd(before[me].spendableC, before[me].receivingC)
          /\ after[me].receivingC = Commit(0, 0)
      BY <2>1, <2>2 DEF Commitments
    <3>3. CommitOpening(ZeroOpening) = Commit(0, 0)
      BY DEF CommitOpening, ZeroOpening
    <3>. QED BY <1>1, <3>1, <3>2, <3>3, AddOpens
  <2>3. CASE ev.account # me
    <3>1. /\ SpendableAfter(me, st, ev) = st.spendable
          /\ ReceivingAfter(me, st, ev) = st.receiving
      BY <1>4, <2>3 DEF SpendableAfter, ReceivingAfter
    <3>2. after[me] = before[me]
      BY <2>1, <2>3 DEF Commitments
    <3>. QED BY <1>1, <3>1, <3>2
  <2>. QED BY <2>2, <2>3
<1>5. CASE ev.type = "withdraw"
  <2>1. after = [before EXCEPT ![ev.from].spendableC =
                   CommitOpening(OpenSpendable(ev.from, ev))]
    BY <1>5 DEF EventExplains
  <2>2. ReceivingAfter(me, st, ev) = st.receiving
    BY <1>5 DEF ReceivingAfter
  <2>3. after[me].receivingC = before[me].receivingC
    BY <2>1 DEF Commitments
  <2>4. CommitOpening(SpendableAfter(me, st, ev)) = after[me].spendableC
    BY <1>1, <1>5, <2>1 DEF SpendableAfter, Commitments
  <2>. QED BY <1>1, <2>2, <2>3, <2>4
<1>6. CASE ev.type = "transfer"
  <2>. DEFINE spent == [before EXCEPT ![ev.from].spendableC =
                          CommitOpening(OpenSpendable(ev.from, ev))]
  <2>1. after = [spent EXCEPT ![ev.to].receivingC =
                   PointAdd(@, CommitOpening(DecryptIncoming(ev.to, ev)))]
    BY <1>6 DEF EventExplains
  <2>2. /\ ev \in TransferEvent /\ ev.to \in Accounts /\ ev.from \in Accounts
    BY <1>6, EventTypes DEF TransferEvent
  <2>3. /\ spent[me].receivingC = before[me].receivingC
        /\ CommitOpening(SpendableAfter(me, st, ev)) = spent[me].spendableC
    BY <1>1, <1>6 DEF SpendableAfter, Commitments
  <2>4. /\ after[me].spendableC = spent[me].spendableC
        /\ ev.to # me => after[me].receivingC = spent[me].receivingC
        /\ ev.to = me =>
             after[me].receivingC =
               PointAdd(spent[me].receivingC, CommitOpening(DecryptIncoming(me, ev)))
    <3>1. spent \in [Accounts -> [{"spendableC", "receivingC"} ->
                                    Point \cup {CommitOpening(OpenSpendable(ev.from, ev))}]]
      BY DEF Commitments
    <3>. HIDE DEF spent
    <3>. QED BY <2>1, <2>2, <3>1
  <2>5. CASE ev.to = me
    <3>1. ReceivingAfter(me, st, ev) = AddOpening(st.receiving, DecryptIncoming(me, ev))
      BY <1>6, <2>5 DEF ReceivingAfter
    <3>2. DecryptIncoming(me, ev) \in Opening
      BY <2>2, DecryptIncomingType, OpeningType
    <3>. HIDE DEF spent
    <3>. QED BY <1>1, <2>3, <2>4, <2>5, <3>1, <3>2, AddOpens
  <2>6. CASE ev.to # me
    <3>1. ReceivingAfter(me, st, ev) = st.receiving
      BY <1>6, <2>6 DEF ReceivingAfter
    <3>. HIDE DEF spent
    <3>. QED BY <1>1, <2>3, <2>4, <2>6, <3>1
  <2>. QED BY <2>5, <2>6
<1>. QED BY <1>2, <1>3, <1>4, <1>5, <1>6, EventTypes
=============================================================================
