--------------------------- MODULE VerdictsProofs ---------------------------
(***************************************************************************)
(* Who is believed, for every log, every number of runs and isolates, and  *)
(* every modulus: proofs about Verdicts.                                   *)
(*                                                                         *)
(* The log and the commitments form a History: every event tells how the   *)
(* commitments moved, pays nobody more than the bound on the amounts and   *)
(* spends no more than its author has.  By induction along the history, a  *)
(* faithful replay opens the commitments of its position; one without the  *)
(* merges keeps more in the receiving balance; one with a nudged transfer  *)
(* is one unit off until the next spend.  All of them stay below the group *)
(* order, where a point has one opening only, so that what verifies is the *)
(* truth.  Positions of the past do not change as the log grows, which is  *)
(* why what a finished run says of them stays true.                        *)
(***************************************************************************)
EXTENDS Verdicts, StateEngineProofs, SequenceTheorems

\* A log that has grown begins with what it was.
LEMMA Grown ==
  ASSUME NEW S, NEW l \in Seq(S), NEW ev \in S, NEW k \in 0 .. Len(l)
  PROVE  /\ SubSeq(l, 1, k) \in Seq(S)
         /\ Len(SubSeq(l, 1, k)) = k
         /\ SubSeq(Append(l, ev), 1, k) = SubSeq(l, 1, k)
<1>1. Len(l) \in Nat /\ k \in Int /\ \A i \in 1 .. k : l[i] \in S
  OBVIOUS
<1>2. /\ SubSeq(l, 1, k) \in Seq(S)
      /\ Len(SubSeq(l, 1, k)) = k
      /\ \A i \in 1 .. k : SubSeq(l, 1, k)[i] = l[i]
  <2>1. /\ SubSeq(l, 1, k) \in Seq(S)
        /\ Len(SubSeq(l, 1, k)) = IF 1 <= k THEN k - 1 + 1 ELSE 0
        /\ \A i \in 1 .. k - 1 + 1 : SubSeq(l, 1, k)[i] = l[1 + i - 1]
    BY <1>1, SubSeqProperties
  <2>2. \A i \in 1 .. k : i \in 1 .. k - 1 + 1 /\ 1 + i - 1 = i
    BY <1>1
  <2>. QED BY <1>1, <2>1, <2>2
<1>3. /\ Append(l, ev) \in Seq(S) /\ \A i \in 1 .. Len(l) : Append(l, ev)[i] = l[i]
  BY AppendProperties
<1>4. /\ SubSeq(Append(l, ev), 1, k) \in Seq(S)
      /\ Len(SubSeq(Append(l, ev), 1, k)) = k
      /\ \A i \in 1 .. k : SubSeq(Append(l, ev), 1, k)[i] = l[i]
  <2>. DEFINE m == Append(l, ev)
  <2>1. \A i \in 1 .. k : m[i] \in S /\ m[i] = l[i]
    BY <1>1, <1>3
  <2>. HIDE DEF m
  <2>2. /\ SubSeq(m, 1, k) \in Seq(S)
        /\ Len(SubSeq(m, 1, k)) = IF 1 <= k THEN k - 1 + 1 ELSE 0
        /\ \A i \in 1 .. k - 1 + 1 : SubSeq(m, 1, k)[i] = m[1 + i - 1]
    BY <1>1, <2>1, SubSeqProperties
  <2>3. \A i \in 1 .. k : i \in 1 .. k - 1 + 1 /\ 1 + i - 1 = i
    BY <1>1
  <2>. QED BY <1>1, <2>1, <2>2, <2>3
<1>. DEFINE s == SubSeq(l, 1, k)
            t == SubSeq(Append(l, ev), 1, k)
<1>5. s \in Seq(S) /\ t \in Seq(S) /\ Len(s) = Len(t) /\ \A i \in 1 .. Len(s) : s[i] = t[i]
  BY <1>2, <1>4
<1>. HIDE DEF s, t
<1>6. s = t
  BY <1>5, SeqEqual
<1>. QED BY <1>2, <1>6 DEF s, t

\* One event more is the next one of the log, appended.
LEMMA NextPrefix ==
  ASSUME NEW S, NEW l \in Seq(S), NEW k \in Nat, k < Len(l)
  PROVE  /\ SubSeq(l, 1, k) \in Seq(S) /\ Len(SubSeq(l, 1, k)) = k /\ l[k + 1] \in S
         /\ SubSeq(l, 1, k + 1) = Append(SubSeq(l, 1, k), l[k + 1])
<1>1. Len(l) \in Nat /\ k \in 0 .. Len(l) /\ k + 1 \in 1 .. Len(l) /\ l[k + 1] \in S
  OBVIOUS
<1>. DEFINE s == SubSeq(l, 1, k)
<1>2. s \in Seq(S) /\ Len(s) = k
  BY <1>1, Grown
<1>3. SubSeq(l, 1, k + 1) = s \o << l[k + 1] >>
  <2>1. 1 \in 1 .. Len(l) /\ k + 1 \in 1 .. Len(l)
    BY <1>1
  <2>2. SubSeq(l, 1, k + 1) = SubSeq(l, 1, k + 1 - 1) \o << l[k + 1] >>
    BY <2>1, SubSeqRecursiveSecond
  <2>3. k + 1 - 1 = k
    OBVIOUS
  <2>. QED BY <2>2, <2>3
<1>. HIDE DEF s
<1>4. s \o << l[k + 1] >> = Append(s, l[k + 1])
  BY <1>1, <1>2, AppendIsConcat
<1>. QED BY <1>1, <1>2, <1>3, <1>4 DEF s

\* A batch with one event more is replayed by applying that event last.
LEMMA IngestOneMore ==
  ASSUME NEW S, NEW me, NEW st, NEW s \in Seq(S), NEW ev \in S
  PROVE  IngestEvents(me, st, Append(s, ev)) = Apply(me, IngestEvents(me, st, s), ev)
<1>. DEFINE t == Append(s, ev)
            R == Replay(me, st, s)
            Q == Replay(me, st, t)
            N == Len(s)
<1>1. /\ N \in Nat /\ Len(t) = N + 1 /\ t[N + 1] = ev /\ \A i \in 1 .. N : t[i] = s[i]
  BY AppendProperties
<1>. HIDE DEF t
<1>2. R[0] = st /\ \A i \in 1 .. N : R[i] = Apply(me, R[i - 1], s[i])
  BY <1>1, ReplayEquations
<1>3. Q[0] = st /\ \A i \in 1 .. N + 1 : Q[i] = Apply(me, Q[i - 1], t[i])
  <2>1. Len(t) \in Nat
    BY <1>1
  <2>. QED BY <1>1, <2>1, ReplayEquations
<1>4. IngestEvents(me, st, s) = R[N] /\ IngestEvents(me, st, t) = Q[N + 1]
  BY <1>1 DEF IngestEvents
<1>. HIDE DEF R, Q, N
<1>. DEFINE G == {i \in Nat : i <= N => Q[i] = R[i]}
<1>5. 0 \in G
  BY <1>2, <1>3
<1>6. ASSUME NEW i \in Nat, i \in G PROVE i + 1 \in G
  <2>. SUFFICES ASSUME i + 1 <= N PROVE Q[i + 1] = R[i + 1]
    OBVIOUS
  <2>1. i + 1 \in 1 .. N /\ i + 1 \in 1 .. N + 1 /\ i + 1 - 1 = i /\ Q[i] = R[i]
    BY <1>1, <1>6
  <2>2. R[i + 1] = Apply(me, R[i], s[i + 1]) /\ Q[i + 1] = Apply(me, Q[i], t[i + 1])
    BY <1>2, <1>3, <2>1
  <2>. QED BY <1>1, <2>1, <2>2
<1>7. N \in G
  <2>. HIDE DEF G
  <2>. QED BY <1>1, <1>5, <1>6, SetInduction
<1>8. Q[N] = R[N]
  BY <1>1, <1>7
<1>9. N + 1 \in 1 .. N + 1 /\ N + 1 - 1 = N
  BY <1>1
<1>10. Q[N + 1] = Apply(me, Q[N], t[N + 1])
  <2>1. Q[N + 1] = Apply(me, Q[N + 1 - 1], t[N + 1])
    BY <1>1, <1>3, <1>9
  <2>. QED BY <1>9, <2>1
<1>. QED BY <1>1, <1>4, <1>8, <1>10 DEF t

\* An empty batch changes nothing.
LEMMA IngestNone ==
  ASSUME NEW me, NEW st
  PROVE  IngestEvents(me, st, << >>) = st
<1>1. Len(<< >>) = 0
  OBVIOUS
<1>. DEFINE evs == << >>
<1>2. Len(evs) \in Nat /\ Len(evs) = 0
  BY <1>1
<1>. HIDE DEF evs
<1>3. Replay(me, st, evs)[0] = st
  BY <1>2, ReplayEquations
<1>. QED BY <1>2, <1>3 DEF IngestEvents, evs
-----------------------------------------------------------------------------
(* What an archive serves. *)

\* The loop over the events, unrolled.
ServedUpTo(kind, events) ==
  LET served[n \in 0 .. Len(events)] ==
        IF n = 0 THEN << >> ELSE Serve(kind, served[n - 1], events[n])
  IN served

\* The loop serves one event after the other.
LEMMA ServedEquations ==
  ASSUME NEW kind, NEW events, Len(events) \in Nat
  PROVE  /\ ServedUpTo(kind, events)[0] = << >>
         /\ \A n \in 1 .. Len(events) :
              ServedUpTo(kind, events)[n] = Serve(kind, ServedUpTo(kind, events)[n - 1], events[n])
         /\ Served(kind, events) = ServedUpTo(kind, events)[Len(events)]
<1>. DEFINE Step(g, i) == IF i = 0 THEN << >> ELSE Serve(kind, g[i - 1], events[i])
            F(g, n) == [i \in 0 .. n |-> Step(g, i)]
            G == {n \in Nat : \E g : g = F(g, n)}
            R == ServedUpTo(kind, events)
<1>1. R = CHOOSE g : g = F(g, Len(events))
  BY DEF ServedUpTo
<1>2. 0 \in G
  <2>. DEFINE g == [i \in 0 .. 0 |-> << >>]
  <2>1. g = F(g, 0)
    OBVIOUS
  <2>. QED BY <2>1
<1>3. ASSUME NEW n \in Nat, n \in G PROVE n + 1 \in G
  <2>1. PICK f : f = F(f, n)
    BY <1>3
  <2>. DEFINE g == [i \in 0 .. n + 1 |->
                      IF i = n + 1 THEN Serve(kind, f[n], events[n + 1]) ELSE f[i]]
  <2>2. ASSUME NEW i \in 0 .. n + 1 PROVE g[i] = Step(g, i)
    <3>1. CASE i = n + 1
      <4>1. g[i] = Serve(kind, f[n], events[n + 1]) /\ g[n] = f[n]
        BY <3>1
      <4>2. i # 0 /\ i - 1 = n
        BY <3>1
      <4>. HIDE DEF g
      <4>. QED BY <3>1, <4>1, <4>2
    <3>2. CASE i # n + 1
      <4>1. i \in 0 .. n /\ g[i] = f[i]
        BY <3>2
      <4>2. f[i] = Step(f, i)
        <5>. HIDE DEF Step
        <5>. QED BY <2>1, <4>1
      <4>3. i # 0 => g[i - 1] = f[i - 1]
        BY <4>1
      <4>. HIDE DEF g
      <4>. QED BY <4>1, <4>2, <4>3
    <3>. QED BY <3>1, <3>2
  <2>3. g = F(g, n + 1)
    <3>1. F(g, n + 1) = [i \in 0 .. n + 1 |-> g[i]]
      <4>. HIDE DEF g, Step
      <4>. QED BY <2>2
    <3>. HIDE DEF F
    <3>. QED BY <3>1
  <2>. HIDE DEF g, F
  <2>. QED BY <2>3
<1>4. Len(events) \in G
  <2>. HIDE DEF G
  <2>. QED BY <1>2, <1>3, SetInduction
<1>5. R = F(R, Len(events))
  <2>. HIDE DEF F, R
  <2>. QED BY <1>1, <1>4
<1>6. \A i \in 0 .. Len(events) : R[i] = Step(R, i)
  <2>. HIDE DEF Step, R
  <2>. QED BY <1>5
<1>7. Served(kind, events) = R[Len(events)]
  BY DEF Served, ServedUpTo
<1>. HIDE DEF R
<1>8. R[0] = << >>
  BY <1>6
<1>9. \A i \in 1 .. Len(events) : R[i] = Serve(kind, R[i - 1], events[i])
  BY <1>6
<1>. QED BY <1>7, <1>8, <1>9 DEF R

\* One event more is served after the others, or not at all.
LEMMA ServeOneMore ==
  ASSUME NEW kind, NEW S, NEW s \in Seq(S), NEW ev \in S
  PROVE  Served(kind, Append(s, ev)) = Serve(kind, Served(kind, s), ev)
<1>. DEFINE t == Append(s, ev)
            R == ServedUpTo(kind, s)
            Q == ServedUpTo(kind, t)
            N == Len(s)
<1>1. /\ N \in Nat /\ Len(t) = N + 1 /\ t[N + 1] = ev /\ \A i \in 1 .. N : t[i] = s[i]
  BY AppendProperties
<1>. HIDE DEF t
<1>2. /\ R[0] = << >> /\ \A i \in 1 .. N : R[i] = Serve(kind, R[i - 1], s[i])
      /\ Served(kind, s) = R[N]
  BY <1>1, ServedEquations
<1>3. /\ Q[0] = << >> /\ \A i \in 1 .. N + 1 : Q[i] = Serve(kind, Q[i - 1], t[i])
      /\ Served(kind, t) = Q[N + 1]
  <2>1. Len(t) \in Nat
    BY <1>1
  <2>. QED BY <1>1, <2>1, ServedEquations
<1>. HIDE DEF R, Q, N
<1>. DEFINE G == {i \in Nat : i <= N => Q[i] = R[i]}
<1>5. 0 \in G
  BY <1>2, <1>3
<1>6. ASSUME NEW i \in Nat, i \in G PROVE i + 1 \in G
  <2>. SUFFICES ASSUME i + 1 <= N PROVE Q[i + 1] = R[i + 1]
    OBVIOUS
  <2>1. i + 1 \in 1 .. N /\ i + 1 \in 1 .. N + 1 /\ i + 1 - 1 = i /\ Q[i] = R[i]
    BY <1>1, <1>6
  <2>2. R[i + 1] = Serve(kind, R[i], s[i + 1]) /\ Q[i + 1] = Serve(kind, Q[i], t[i + 1])
    BY <1>2, <1>3, <2>1
  <2>. QED BY <1>1, <2>1, <2>2
<1>7. N \in G
  <2>. HIDE DEF G
  <2>. QED BY <1>1, <1>5, <1>6, SetInduction
<1>8. Q[N] = R[N]
  BY <1>1, <1>7
<1>9. N + 1 \in 1 .. N + 1 /\ N + 1 - 1 = N
  BY <1>1
<1>10. Q[N + 1] = Serve(kind, Q[N], t[N + 1])
  <2>1. Q[N + 1] = Serve(kind, Q[N + 1 - 1], t[N + 1])
    BY <1>1, <1>3, <1>9
  <2>. QED BY <1>9, <2>1
<1>. QED BY <1>1, <1>2, <1>3, <1>8, <1>10 DEF t

\* Of no events none is served.
LEMMA ServeNone ==
  ASSUME NEW kind
  PROVE  Served(kind, << >>) = << >>
<1>. DEFINE evs == << >>
<1>1. Len(evs) \in Nat /\ Len(evs) = 0
  OBVIOUS
<1>. HIDE DEF evs
<1>2. ServedUpTo(kind, evs)[0] = << >> /\ Served(kind, evs) = ServedUpTo(kind, evs)[Len(evs)]
  BY <1>1, ServedEquations
<1>. QED BY <1>1, <1>2 DEF evs

\* What is nudged is a transfer still.
LEMMA NudgedType ==
  ASSUME NEW ev \in TransferEvent
  PROVE  /\ Nudged(ev) \in TransferEvent
         /\ Nudged(ev).bTilde = FrAdd(ev.bTilde, 1)
         /\ Nudged(ev).type = ev.type /\ Nudged(ev).ledger = ev.ledger
         /\ Nudged(ev).from = ev.from /\ Nudged(ev).to = ev.to
         /\ Nudged(ev).rE = ev.rE /\ Nudged(ev).vTilde = ev.vTilde
         /\ Nudged(ev).sigma = ev.sigma
<1>1. FrAdd(ev.bTilde, 1) \in Fr
  <2>1. ev.bTilde \in Fr
    BY DEF TransferEvent
  <2>2. ev.bTilde + 1 \in Int
    BY <2>1, FrInFp
  <2>. QED BY <2>2, FrModType DEF FrAdd
<1>. DEFINE b == FrAdd(ev.bTilde, 1)
<1>2. Nudged(ev) = [ev EXCEPT !.bTilde = b]
  BY DEF Nudged
<1>. HIDE DEF b
<1>3. b \in Fr
  BY <1>1 DEF b
<1>. QED BY <1>2, <1>3 DEF TransferEvent, b

\* What is served is events.
LEMMA ServedType ==
  ASSUME NEW kind, NEW ev \in ConfidentialEvent
  PROVE  /\ Altered(kind, ev) \in ConfidentialEvent
         /\ \A answer \in Seq(ConfidentialEvent) :
              Serve(kind, answer, ev) \in Seq(ConfidentialEvent)
<1>1. Altered(kind, ev) \in ConfidentialEvent
  <2>1. CASE kind = "corrupting" /\ ev.type = "transfer"
    BY <2>1, EventTypes, NudgedType DEF Altered, ConfidentialEvent
  <2>2. CASE ~ (kind = "corrupting" /\ ev.type = "transfer")
    BY <2>2 DEF Altered
  <2>. QED BY <2>1, <2>2
<1>. QED BY <1>1, AppendProperties DEF Serve
-----------------------------------------------------------------------------
(* Replays along the log. *)

\* What account a holds after the first k events of log l: Wallet, of any log.
WalletOf(l, a, k) == IngestEvents(a, FreshState, SubSeq(l, 1, k))

\* What an archive of this kind makes of the judged account after them.
ReplicaOf(l, kind, k) == IngestEvents(Judged, FreshState, Served(kind, SubSeq(l, 1, k)))

\* The wallet takes the events in turn.
LEMMA WalletEquations ==
  ASSUME NEW l \in Seq(ConfidentialEvent), NEW a
  PROVE  /\ WalletOf(l, a, 0) = FreshState
         /\ \A k \in Nat : k < Len(l) =>
              WalletOf(l, a, k + 1) = Apply(a, WalletOf(l, a, k), l[k + 1])
<1>1. WalletOf(l, a, 0) = FreshState
  <2>1. SubSeq(l, 1, 0) = << >>
    OBVIOUS
  <2>. QED BY <2>1, IngestNone DEF WalletOf
<1>2. ASSUME NEW k \in Nat, k < Len(l)
      PROVE  WalletOf(l, a, k + 1) = Apply(a, WalletOf(l, a, k), l[k + 1])
  <2>. DEFINE s == SubSeq(l, 1, k)
              ev == l[k + 1]
  <2>1. s \in Seq(ConfidentialEvent) /\ ev \in ConfidentialEvent
        /\ SubSeq(l, 1, k + 1) = Append(s, ev)
    BY <1>2, NextPrefix
  <2>. HIDE DEF s, ev
  <2>2. IngestEvents(a, FreshState, Append(s, ev)) = Apply(a, IngestEvents(a, FreshState, s), ev)
    BY <2>1, IngestOneMore
  <2>. QED BY <2>1, <2>2 DEF WalletOf, s, ev
<1>. QED BY <1>1, <1>2

\* A state of an account and an empty start are well formed.
LEMMA FreshType == FreshState \in AccountState
BY OpeningType DEF FreshState, AccountState

\* What is served of a log is a sequence of events.
LEMMA ServedSeq ==
  ASSUME NEW kind, NEW l \in Seq(ConfidentialEvent), NEW k \in 0 .. Len(l)
  PROVE  Served(kind, SubSeq(l, 1, k)) \in Seq(ConfidentialEvent)
<1>. DEFINE G == {n \in Nat : n <= Len(l) =>
                    Served(kind, SubSeq(l, 1, n)) \in Seq(ConfidentialEvent)}
<1>1. 0 \in G
  <2>1. SubSeq(l, 1, 0) = << >> /\ << >> \in Seq(ConfidentialEvent)
    OBVIOUS
  <2>. QED BY <2>1, ServeNone
<1>2. ASSUME NEW n \in Nat, n \in G PROVE n + 1 \in G
  <2>. SUFFICES ASSUME n + 1 <= Len(l)
                PROVE Served(kind, SubSeq(l, 1, n + 1)) \in Seq(ConfidentialEvent)
    OBVIOUS
  <2>. DEFINE s == SubSeq(l, 1, n)
              ev == l[n + 1]
  <2>1. s \in Seq(ConfidentialEvent) /\ ev \in ConfidentialEvent
        /\ SubSeq(l, 1, n + 1) = Append(s, ev)
    BY NextPrefix
  <2>2. Served(kind, s) \in Seq(ConfidentialEvent)
    BY <1>2
  <2>. HIDE DEF s, ev
  <2>3. Served(kind, Append(s, ev)) = Serve(kind, Served(kind, s), ev)
    BY <2>1, ServeOneMore
  <2>. QED BY <2>1, <2>2, <2>3, ServedType
<1>3. k \in G
  <2>. HIDE DEF G
  <2>. QED BY <1>1, <1>2, SetInduction
<1>. QED BY <1>3

\* The replica takes what is served of them in turn.
LEMMA ReplicaEquations ==
  ASSUME NEW l \in Seq(ConfidentialEvent), NEW kind
  PROVE  /\ ReplicaOf(l, kind, 0) = FreshState
         /\ \A k \in Nat : k < Len(l) =>
              ReplicaOf(l, kind, k + 1) =
                IF Serves(kind, l[k + 1])
                THEN Apply(Judged, ReplicaOf(l, kind, k), Altered(kind, l[k + 1]))
                ELSE ReplicaOf(l, kind, k)
<1>1. ReplicaOf(l, kind, 0) = FreshState
  <2>1. SubSeq(l, 1, 0) = << >>
    OBVIOUS
  <2>. QED BY <2>1, IngestNone, ServeNone DEF ReplicaOf
<1>2. ASSUME NEW k \in Nat, k < Len(l)
      PROVE  ReplicaOf(l, kind, k + 1) =
                IF Serves(kind, l[k + 1])
                THEN Apply(Judged, ReplicaOf(l, kind, k), Altered(kind, l[k + 1]))
                ELSE ReplicaOf(l, kind, k)
  <2>. DEFINE s == SubSeq(l, 1, k)
              ev == l[k + 1]
              ans == Served(kind, s)
              alt == Altered(kind, ev)
  <2>1. s \in Seq(ConfidentialEvent) /\ ev \in ConfidentialEvent
        /\ SubSeq(l, 1, k + 1) = Append(s, ev)
    BY <1>2, NextPrefix
  <2>2. ans \in Seq(ConfidentialEvent)
    BY <1>2, ServedSeq
  <2>. HIDE DEF s, ev
  <2>3. Served(kind, Append(s, ev)) = Serve(kind, ans, ev)
    BY <2>1, ServeOneMore
  <2>4. alt \in ConfidentialEvent
    BY <2>1, ServedType
  <2>5. Serve(kind, ans, ev) = IF Serves(kind, ev) THEN Append(ans, alt) ELSE ans
    BY DEF Serve
  <2>. HIDE DEF ans, alt
  <2>6. IngestEvents(Judged, FreshState, Append(ans, alt))
          = Apply(Judged, IngestEvents(Judged, FreshState, ans), alt)
    BY <2>2, <2>4, IngestOneMore
  <2>. QED BY <2>1, <2>3, <2>5, <2>6 DEF ReplicaOf, s, ev, ans, alt
<1>. QED BY <1>1, <1>2

\* Both are well formed, wherever they are in the log.
LEMMA ReplayTypes ==
  ASSUME NEW l \in Seq(ConfidentialEvent), NEW k \in 0 .. Len(l)
  PROVE  /\ \A a \in Accounts : WalletOf(l, a, k) \in AccountState
         /\ \A kind : ReplicaOf(l, kind, k) \in AccountState
<1>0. Judged \in Accounts /\ Len(l) \in Nat
  BY VerdictsAssumption
<1>1. ASSUME NEW a \in Accounts PROVE WalletOf(l, a, k) \in AccountState
  <2>. DEFINE G == {n \in Nat : n <= Len(l) => WalletOf(l, a, n) \in AccountState}
  <2>1. 0 \in G
    BY WalletEquations, FreshType
  <2>2. ASSUME NEW n \in Nat, n \in G PROVE n + 1 \in G
    <3>. SUFFICES ASSUME n + 1 <= Len(l) PROVE WalletOf(l, a, n + 1) \in AccountState
      OBVIOUS
    <3>1. n < Len(l) /\ WalletOf(l, a, n) \in AccountState /\ l[n + 1] \in ConfidentialEvent
      BY <1>0, <2>2
    <3>2. WalletOf(l, a, n + 1) = Apply(a, WalletOf(l, a, n), l[n + 1])
      BY <3>1, WalletEquations
    <3>. QED BY <3>1, <3>2, ApplyType
  <2>3. k \in G
    <3>. HIDE DEF G
    <3>. QED BY <2>1, <2>2, SetInduction
  <2>. QED BY <2>3
<1>2. ASSUME NEW kind PROVE ReplicaOf(l, kind, k) \in AccountState
  <2>. DEFINE G == {n \in Nat : n <= Len(l) => ReplicaOf(l, kind, n) \in AccountState}
  <2>1. 0 \in G
    BY ReplicaEquations, FreshType
  <2>2. ASSUME NEW n \in Nat, n \in G PROVE n + 1 \in G
    <3>. SUFFICES ASSUME n + 1 <= Len(l) PROVE ReplicaOf(l, kind, n + 1) \in AccountState
      OBVIOUS
    <3>. DEFINE w == ReplicaOf(l, kind, n)
                alt == Altered(kind, l[n + 1])
    <3>1. n < Len(l) /\ w \in AccountState /\ l[n + 1] \in ConfidentialEvent
      BY <1>0, <2>2
    <3>2. alt \in ConfidentialEvent
      BY <3>1, ServedType
    <3>3. Apply(Judged, w, alt) \in AccountState
      <4>. HIDE DEF w, alt
      <4>. QED BY <1>0, <3>1, <3>2, ApplyType
    <3>. QED BY <3>1, <3>3, ReplicaEquations
  <2>3. k \in G
    <3>. HIDE DEF G
    <3>. QED BY <2>1, <2>2, SetInduction
  <2>. QED BY <2>3
<1>. QED BY <1>1, <1>2
-----------------------------------------------------------------------------
(* The amounts. *)

\* A bound on what an account may hold after k events: the first deposit is double.
Cap(k) == IF k = 1 THEN 2 * Amount ELSE k * Amount

\* What an event adds to an account.
Gain(ev) ==
  CASE ev.type = "deposit"  -> ev.amount
    [] ev.type = "transfer" -> DecryptIncoming(ev.to, ev).v
    [] OTHER -> 0

SpendBy(a, ev) == ev.type \in {"withdraw", "transfer"} /\ ev.from = a

\* The amount and the bounds are naturals, and none reaches a modulus.
LEMMA Small ==
  /\ Amount \in Nat /\ Amount >= 1 /\ MaxEvents \in Nat /\ MaxEvents * Amount \in Nat
  /\ MaxEvents * Amount < FrModulus /\ FrModulus < FpModulus
  /\ FrModulus \in Nat \ {0} /\ FpModulus \in Nat \ {0}
  /\ Amount \in Fr /\ 2 <= MaxEvents
<1>1. MaxValue \in Fr /\ Amount \in 1 .. MaxValue
  BY VerdictsAssumption, WitnessAssumption
<1>. QED BY <1>1, VerdictsAssumption, FieldAssumption DEF Fr

\* The bound grows by an amount an event, by two with the first.
LEMMA CapGrows ==
  /\ Cap(0) = 0 /\ Cap(1) = 2 * Amount /\ Cap(2) = 2 * Amount
  /\ \A k \in Nat : Cap(k) \in Nat /\ Cap(k) <= Cap(k + 1)
  /\ \A k \in Nat : k >= 2 => Cap(k + 1) = Cap(k) + Amount
  /\ \A k \in 0 .. MaxEvents : Cap(k) <= MaxEvents * Amount /\ Cap(k) < FrModulus
<1>1. Amount \in Nat /\ MaxEvents \in Nat /\ 2 <= MaxEvents
  BY Small
<1>2. Cap(0) = 0 /\ Cap(1) = 2 * Amount /\ Cap(2) = 2 * Amount
  BY <1>1 DEF Cap
<1>3. \A k \in Nat : k * Amount \in Nat /\ (k + 1) * Amount = k * Amount + Amount
  BY <1>1
<1>4. ASSUME NEW k \in Nat
      PROVE  /\ Cap(k) \in Nat /\ Cap(k) <= Cap(k + 1)
             /\ k >= 2 => Cap(k + 1) = Cap(k) + Amount
  <2>1. CASE k = 0
    BY <1>1, <1>2, <2>1
  <2>2. CASE k = 1
    BY <1>1, <1>2, <2>2
  <2>3. CASE k >= 2
    <3>1. Cap(k) = k * Amount /\ Cap(k + 1) = (k + 1) * Amount
      BY <2>3 DEF Cap
    <3>. QED BY <1>1, <1>3, <3>1
  <2>. QED BY <2>1, <2>2, <2>3
<1>5. ASSUME NEW k \in 0 .. MaxEvents PROVE Cap(k) <= MaxEvents * Amount
  <2>1. MaxEvents * Amount = k * Amount + (MaxEvents - k) * Amount
    BY <1>1
  <2>2. MaxEvents * Amount = 2 * Amount + (MaxEvents - 2) * Amount
    BY <1>1
  <2>3. (MaxEvents - k) * Amount >= 0 /\ (MaxEvents - 2) * Amount >= 0
    <3>1. \A m \in Nat : m * Amount \in Nat
      BY <1>3
    <3>2. MaxEvents - k \in Nat /\ MaxEvents - 2 \in Nat
      BY <1>1
    <3>. QED BY <3>1, <3>2
  <2>. QED BY <1>1, <2>1, <2>2, <2>3 DEF Cap
<1>. QED BY <1>2, <1>4, <1>5, Small

\* A nudged spend is one unit too much, and still under the same blinding.
LEMMA OpenNudged ==
  ASSUME NEW me \in Accounts, NEW ev \in TransferEvent,
         OpenSpendable(me, ev).v + 1 < FrModulus
  PROVE  /\ OpenSpendable(me, Nudged(ev)).v = OpenSpendable(me, ev).v + 1
         /\ OpenSpendable(me, Nudged(ev)).r = OpenSpendable(me, ev).r
<1>. DEFINE mask == Digest("ENCRYPTED_BALANCE", <<me>>, ev.sigma)
            b == ev.bTilde
            w == FrMod(b - mask)
<1>1. mask \in Fr /\ b \in Fr
  <2>1. "ENCRYPTED_BALANCE" \in Domain /\ <<me>> \in Secret
    BY DEF Domain, Secret
  <2>2. ev.sigma \in Sigmas
    BY DEF TransferEvent
  <2>3. mask \in Fr
    BY <2>1, <2>2, DigestType
  <2>. QED BY <2>3 DEF TransferEvent
<1>2. /\ OpenSpendable(me, ev).v = w
      /\ OpenSpendable(me, Nudged(ev)).v = FrMod(FrAdd(b, 1) - mask)
      /\ OpenSpendable(me, Nudged(ev)).r = OpenSpendable(me, ev).r
  BY NudgedType DEF OpenSpendable
<1>. HIDE DEF mask, b
<1>3. FrMod(FrAdd(b, 1) - mask) = w + 1
  <2>1. /\ b \in 0 .. FrModulus - 1 /\ mask \in 0 .. FrModulus - 1
        /\ FrModulus \in Nat \ {0}
    BY <1>1, FieldAssumption DEF Fr
  <2>2. FrMod(b + 1) = IF b + 1 = FrModulus THEN 0 ELSE b + 1
    BY <2>1 DEF FrMod
  <2>3. w = IF b >= mask THEN b - mask ELSE b - mask + FrModulus
    BY <2>1 DEF FrMod
  <2>4. w + 1 < FrModulus
    BY <1>2
  <2>. DEFINE n == FrMod(b + 1)
  <2>5. n \in 0 .. FrModulus - 1 /\ n - mask \in -FrModulus .. FrModulus
    BY <2>1, <2>2
  <2>. HIDE DEF n, w
  <2>6. FrMod(n - mask) = IF n >= mask THEN n - mask ELSE n - mask + FrModulus
    BY <2>1, <2>5 DEF FrMod
  <2>7. n = IF b + 1 = FrModulus THEN 0 ELSE b + 1
    BY <2>2 DEF n
  <2>8. FrMod(n - mask) = w + 1
    BY <2>1, <2>3, <2>4, <2>5, <2>6, <2>7
  <2>. QED BY <2>8 DEF n, FrAdd
<1>. QED BY <1>2, <1>3

\* What an account holds after an event that is not about it is what it held.
LEMMA OthersChangeNothing ==
  ASSUME NEW me, NEW st, NEW ev \in ConfidentialEvent, ~ Concerns(me, ev)
  PROVE  Apply(me, st, ev).spendable = st.spendable /\ Apply(me, st, ev).receiving = st.receiving
<1>1. ev.type \in {"register", "deposit", "merge", "withdraw", "transfer"}
  BY EventTypes
<1>. QED BY <1>1 DEF Concerns, Apply, SpendableAfter, ReceivingAfter

\* What an event does to the two sides of the account it is about.
LEMMA ApplyRules ==
  ASSUME NEW me \in Accounts, NEW st \in AccountState, NEW ev \in ConfidentialEvent
  PROVE  /\ ev.type = "register" =>
              /\ Apply(me, st, ev).spendable = st.spendable
              /\ Apply(me, st, ev).receiving = st.receiving
         /\ ev.type = "deposit" /\ ev.to = me =>
              /\ Apply(me, st, ev).spendable = st.spendable
              /\ Apply(me, st, ev).receiving.v = st.receiving.v + ev.amount
              /\ Apply(me, st, ev).receiving.r = st.receiving.r
              /\ Gain(ev) = ev.amount
         /\ ev.type = "merge" /\ ev.account = me =>
              /\ Apply(me, st, ev).spendable = AddOpening(st.spendable, st.receiving)
              /\ Apply(me, st, ev).receiving = ZeroOpening
         /\ SpendBy(me, ev) => Apply(me, st, ev).spendable = OpenSpendable(me, ev)
         /\ SpendBy(me, ev) /\ ~ (ev.type = "transfer" /\ ev.to = me) =>
              Apply(me, st, ev).receiving = st.receiving
         /\ ev.type = "transfer" /\ ev.to = me =>
              /\ Apply(me, st, ev).receiving = AddOpening(st.receiving, DecryptIncoming(me, ev))
              /\ Gain(ev) = DecryptIncoming(me, ev).v
         /\ ev.type = "transfer" /\ ev.from # me =>
              Apply(me, st, ev).spendable = st.spendable
<1>1. st.spendable \in Opening /\ st.receiving \in Opening
  BY DEF AccountState
<1>2. st.receiving = [v |-> st.receiving.v, r |-> st.receiving.r]
  BY <1>1 DEF Opening
<1>. QED BY <1>2 DEF Apply, SpendableAfter, ReceivingAfter, SpendBy, Gain
-----------------------------------------------------------------------------
(* The chain's history. *)

\* The k-th event tells its readers what it did to the commitments, adds no more than
\* the bound allows, and spends what its author held.
Entry(l, c, k) ==
  /\ EventExplains(l[k], c[k], c[k + 1])
  /\ Gain(l[k]) \in Nat /\ Cap(k - 1) + Gain(l[k]) <= Cap(k)
  /\ \A a \in Accounts : SpendBy(a, l[k]) =>
       OpenSpendable(a, l[k]).v + Amount <= WalletOf(l, a, k - 1).spendable.v
  /\ l[k].type = "transfer" => l[k].from # l[k].to

\* The judged account's deposit and merge come first.
Beginning(l) ==
  /\ l[1].type = "deposit" /\ l[1].to = Judged /\ l[1].amount = 2 * Amount
  /\ l[2].type = "merge" /\ l[2].account = Judged

History(l, c) ==
  /\ l \in Seq(ConfidentialEvent) /\ c \in Seq(Commitments)
  /\ Len(c) = Len(l) + 1 /\ Len(l) \in 2 .. MaxEvents
  /\ c[1] = Untouched
  /\ Beginning(l)
  /\ \A k \in 1 .. Len(l) : Entry(l, c, k)

\* Where the k-th event is, and what it is.
LEMMA HistoryAt ==
  ASSUME NEW l, NEW c, History(l, c), NEW k \in Nat, k < Len(l)
  PROVE  /\ l \in Seq(ConfidentialEvent) /\ Len(l) \in Nat /\ k + 1 \in 1 .. Len(l)
         /\ k + 1 \in 0 .. MaxEvents /\ k \in 0 .. Len(l) /\ k + 1 \in 0 .. Len(l)
         /\ l[k + 1] \in ConfidentialEvent
         /\ c[k + 1] \in Commitments /\ c[k + 2] \in Commitments
         /\ EventExplains(l[k + 1], c[k + 1], c[k + 2])
         /\ Gain(l[k + 1]) \in Nat /\ Cap(k) + Gain(l[k + 1]) <= Cap(k + 1)
         /\ \A a \in Accounts : SpendBy(a, l[k + 1]) =>
              OpenSpendable(a, l[k + 1]).v + Amount <= WalletOf(l, a, k).spendable.v
         /\ l[k + 1].type = "transfer" => l[k + 1].from # l[k + 1].to
<1>1. /\ l \in Seq(ConfidentialEvent) /\ c \in Seq(Commitments) /\ Len(c) = Len(l) + 1
      /\ Len(l) \in 2 .. MaxEvents /\ \A i \in 1 .. Len(l) : Entry(l, c, i)
  BY DEF History
<1>2. MaxEvents \in Nat
  BY Small
<1>3. /\ Len(l) \in Nat /\ k + 1 \in 1 .. Len(l)
      /\ k + 1 \in 0 .. MaxEvents /\ k \in 0 .. Len(l) /\ k + 1 \in 0 .. Len(l)
      /\ k + 1 \in 1 .. Len(c) /\ k + 2 \in 1 .. Len(c)
      /\ k + 1 + 1 = k + 2 /\ k + 1 - 1 = k
  BY <1>1, <1>2
<1>4. /\ l[k + 1] \in ConfidentialEvent /\ c[k + 1] \in Commitments /\ c[k + 2] \in Commitments
  BY <1>1, <1>3
<1>5. Entry(l, c, k + 1)
  BY <1>1, <1>3
<1>. QED BY <1>1, <1>3, <1>4, <1>5 DEF Entry

\* What a wallet replayed opens what the contract held.
LEMMA WalletOpens ==
  ASSUME NEW l, NEW c, History(l, c), NEW a \in Accounts, NEW k \in 0 .. Len(l)
  PROVE  VerifyAgainstChain(WalletOf(l, a, k), c[k + 1][a])
<1>. DEFINE G == {n \in Nat : n <= Len(l) => VerifyAgainstChain(WalletOf(l, a, n), c[n + 1][a])}
<1>0. l \in Seq(ConfidentialEvent) /\ Len(l) \in Nat
  BY DEF History
<1>1. 0 \in G
  <2>1. WalletOf(l, a, 0) = FreshState
    BY <1>0, WalletEquations
  <2>2. c[0 + 1][a] = [spendableC |-> Opening0, receivingC |-> Opening0]
    BY DEF History, Untouched
  <2>3. VerifyAgainstChain(FreshState, [spendableC |-> Opening0, receivingC |-> Opening0])
    BY DEF FreshState, VerifyAgainstChain, Opens, CommitOpening, ZeroOpening, Opening0
  <2>. QED BY <2>1, <2>2, <2>3
<1>2. ASSUME NEW n \in Nat, n \in G PROVE n + 1 \in G
  <2>. SUFFICES ASSUME n + 1 <= Len(l)
                PROVE VerifyAgainstChain(WalletOf(l, a, n + 1), c[n + 1 + 1][a])
    OBVIOUS
  <2>1. n < Len(l) /\ n <= Len(l) /\ n + 1 + 1 = n + 2
    BY <1>0
  <2>. DEFINE w == WalletOf(l, a, n)
              ev == l[n + 1]
              before == c[n + 1]
              after == c[n + 2]
  <2>2. /\ ev \in ConfidentialEvent /\ before \in Commitments
        /\ EventExplains(ev, before, after) /\ n \in 0 .. Len(l)
    BY <2>1, HistoryAt
  <2>3. w \in AccountState
    BY <1>0, <2>2, ReplayTypes
  <2>4. VerifyAgainstChain(w, before[a])
    BY <1>2, <2>1
  <2>5. WalletOf(l, a, n + 1) = Apply(a, w, ev)
    BY <1>0, <2>1, WalletEquations
  <2>6. VerifyAgainstChain(Apply(a, w, ev), after[a])
    <3>. HIDE DEF w, ev, before, after
    <3>. QED BY <2>2, <2>3, <2>4, ApplySound
  <2>. QED BY <2>1, <2>5, <2>6
<1>3. k \in G
  <2>. HIDE DEF G
  <2>. QED BY <1>1, <1>2, SetInduction
<1>. QED BY <1>3

Covered(w, k) ==
  /\ w.spendable.v \in Nat /\ w.receiving.v \in Nat
  /\ w.spendable.v + w.receiving.v <= Cap(k)

\* An event leaves what an account holds within the bound.
LEMMA StaysCovered ==
  ASSUME NEW me \in Accounts, NEW st \in AccountState, NEW ev \in ConfidentialEvent,
         NEW k \in Nat, Covered(st, k),
         Gain(ev) \in Nat, Cap(k) + Gain(ev) <= Cap(k + 1),
         SpendBy(me, ev) => OpenSpendable(me, ev).v + Amount <= st.spendable.v,
         ev.type = "transfer" => ev.from # ev.to
  PROVE  Covered(Apply(me, st, ev), k + 1)
<1>. DEFINE after == Apply(me, st, ev)
            s == st.spendable.v
            r == st.receiving.v
            g == Gain(ev)
            m == Cap(k)
            n == Cap(k + 1)
<1>1. /\ s \in Nat /\ r \in Nat /\ s + r <= m /\ g \in Nat /\ m + g <= n /\ m <= n
      /\ m \in Nat /\ n \in Nat /\ Amount \in Nat
  <2>1. k + 1 \in Nat
    OBVIOUS
  <2>. QED BY <2>1, CapGrows, Small DEF Covered
<1>2. SUFFICES /\ after.spendable.v \in Nat /\ after.receiving.v \in Nat
               /\ after.spendable.v + after.receiving.v <= n
  BY DEF Covered
<1>3. ev.type \in {"register", "deposit", "merge", "withdraw", "transfer"}
  BY EventTypes
<1>4. CASE ~ Concerns(me, ev)
  <2>1. after.spendable = st.spendable /\ after.receiving = st.receiving
    BY <1>4, OthersChangeNothing
  <2>. HIDE DEF after, m, n
  <2>. QED BY <1>1, <2>1
<1>5. CASE Concerns(me, ev) /\ ev.type = "register"
  <2>1. after.spendable = st.spendable /\ after.receiving = st.receiving
    BY <1>5, ApplyRules
  <2>. HIDE DEF after, m, n
  <2>. QED BY <1>1, <2>1
<1>6. CASE Concerns(me, ev) /\ ev.type = "deposit"
  <2>1. ev.to = me
    BY <1>6 DEF Concerns
  <2>2. after.spendable = st.spendable /\ after.receiving.v = r + ev.amount /\ g = ev.amount
    BY <1>6, <2>1, ApplyRules
  <2>. HIDE DEF after, m, n, g
  <2>. QED BY <1>1, <2>2
<1>7. CASE Concerns(me, ev) /\ ev.type = "merge"
  <2>1. ev.account = me
    BY <1>7 DEF Concerns
  <2>2. after.spendable = AddOpening(st.spendable, st.receiving) /\ after.receiving = ZeroOpening
    BY <1>7, <2>1, ApplyRules
  <2>3. after.spendable.v = s + r /\ after.receiving.v = 0
    BY <2>2 DEF AddOpening, ZeroOpening
  <2>. HIDE DEF after, m, n, g
  <2>. QED BY <1>1, <2>3
<1>8. CASE SpendBy(me, ev)
  <2>1. ev \in WithdrawEvent \cup TransferEvent /\ ~ (ev.type = "transfer" /\ ev.to = me)
    BY <1>8, EventTypes DEF SpendBy
  <2>2. after.spendable = OpenSpendable(me, ev) /\ after.receiving = st.receiving
    BY <1>8, <2>1, ApplyRules
  <2>3. OpenSpendable(me, ev).v \in Nat
    BY <2>1, OpenSpendableType DEF Fr
  <2>. HIDE DEF after, m, n, g
  <2>. QED BY <1>1, <1>8, <2>2, <2>3
<1>9. CASE ev.type = "transfer" /\ ev.to = me
  <2>1. /\ after.receiving = AddOpening(st.receiving, DecryptIncoming(me, ev))
        /\ g = DecryptIncoming(me, ev).v /\ after.spendable = st.spendable
    BY <1>9, ApplyRules
  <2>2. after.receiving.v = r + g
    BY <2>1 DEF AddOpening
  <2>. HIDE DEF after, m, n, g
  <2>. QED BY <1>1, <2>1, <2>2
<1>. QED BY <1>3, <1>4, <1>5, <1>6, <1>7, <1>8, <1>9 DEF Concerns, SpendBy

\* No account holds more than was paid in.
LEMMA WalletCovered ==
  ASSUME NEW l, NEW c, History(l, c), NEW a \in Accounts, NEW k \in 0 .. Len(l)
  PROVE  Covered(WalletOf(l, a, k), k)
<1>. DEFINE G == {n \in Nat : n <= Len(l) => Covered(WalletOf(l, a, n), n)}
<1>0. l \in Seq(ConfidentialEvent) /\ Len(l) \in Nat
  BY DEF History
<1>1. 0 \in G
  <2>1. WalletOf(l, a, 0) = FreshState
    BY <1>0, WalletEquations
  <2>2. Covered(FreshState, 0)
    BY CapGrows DEF Covered, FreshState, ZeroOpening
  <2>. QED BY <2>1, <2>2
<1>2. ASSUME NEW n \in Nat, n \in G PROVE n + 1 \in G
  <2>. SUFFICES ASSUME n + 1 <= Len(l) PROVE Covered(WalletOf(l, a, n + 1), n + 1)
    OBVIOUS
  <2>1. n < Len(l) /\ n <= Len(l)
    BY <1>0
  <2>. DEFINE w == WalletOf(l, a, n)
              ev == l[n + 1]
  <2>2. /\ ev \in ConfidentialEvent /\ n \in 0 .. Len(l)
        /\ Gain(ev) \in Nat /\ Cap(n) + Gain(ev) <= Cap(n + 1)
        /\ SpendBy(a, ev) => OpenSpendable(a, ev).v + Amount <= w.spendable.v
        /\ ev.type = "transfer" => ev.from # ev.to
    BY <2>1, HistoryAt
  <2>3. w \in AccountState
    BY <1>0, <2>2, ReplayTypes
  <2>4. Covered(w, n)
    BY <1>2, <2>1
  <2>5. WalletOf(l, a, n + 1) = Apply(a, w, ev)
    BY <1>0, <2>1, WalletEquations
  <2>6. Covered(Apply(a, w, ev), n + 1)
    <3>. HIDE DEF w, ev
    <3>. QED BY <2>2, <2>3, <2>4, StaysCovered
  <2>. QED BY <2>5, <2>6
<1>3. k \in G
  <2>. HIDE DEF G
  <2>. QED BY <1>1, <1>2, SetInduction
<1>. QED BY <1>3
-----------------------------------------------------------------------------
(* What the archives make of it. *)

SameOpenings(w, t) == w.spendable = t.spendable /\ w.receiving = t.receiving

\* A faithful archive tells the truth.
LEMMA HonestReplica ==
  ASSUME NEW l, NEW c, History(l, c), NEW k \in 0 .. Len(l)
  PROVE  SameOpenings(ReplicaOf(l, "honest", k), WalletOf(l, Judged, k))
<1>. DEFINE G == {n \in Nat : n <= Len(l) =>
                    SameOpenings(ReplicaOf(l, "honest", n), WalletOf(l, Judged, n))}
<1>0. l \in Seq(ConfidentialEvent) /\ Len(l) \in Nat
  BY DEF History
<1>1. 0 \in G
  BY <1>0, WalletEquations, ReplicaEquations DEF SameOpenings
<1>2. ASSUME NEW n \in Nat, n \in G PROVE n + 1 \in G
  <2>. SUFFICES ASSUME n + 1 <= Len(l)
                PROVE SameOpenings(ReplicaOf(l, "honest", n + 1), WalletOf(l, Judged, n + 1))
    OBVIOUS
  <2>. DEFINE w == ReplicaOf(l, "honest", n)
              t == WalletOf(l, Judged, n)
              ev == l[n + 1]
  <2>1. n < Len(l) /\ SameOpenings(w, t)
    BY <1>0, <1>2
  <2>2. ev \in ConfidentialEvent
    BY <2>1, HistoryAt
  <2>3. WalletOf(l, Judged, n + 1) = Apply(Judged, t, ev)
    BY <1>0, <2>1, WalletEquations
  <2>4. ReplicaOf(l, "honest", n + 1) = IF Concerns(Judged, ev) THEN Apply(Judged, w, ev) ELSE w
    <3>1. ReplicaOf(l, "honest", n + 1) =
            IF Serves("honest", ev) THEN Apply(Judged, w, Altered("honest", ev)) ELSE w
      BY <1>0, <2>1, ReplicaEquations
    <3>. QED BY <3>1 DEF Serves, Altered
  <2>. HIDE DEF w, t, ev
  <2>5. CASE Concerns(Judged, ev)
    <3>1. SameOpenings(Apply(Judged, w, ev), Apply(Judged, t, ev))
      BY <2>1 DEF SameOpenings, Apply, SpendableAfter, ReceivingAfter
    <3>. QED BY <2>3, <2>4, <2>5, <3>1
  <2>6. CASE ~ Concerns(Judged, ev)
    <3>1. /\ Apply(Judged, t, ev).spendable = t.spendable
          /\ Apply(Judged, t, ev).receiving = t.receiving
      BY <2>2, <2>6, OthersChangeNothing
    <3>. QED BY <2>1, <2>3, <2>4, <2>6, <3>1 DEF SameOpenings
  <2>. QED BY <2>5, <2>6
<1>3. k \in G
  <2>. HIDE DEF G
  <2>. QED BY <1>1, <1>2, SetInduction
<1>. QED BY <1>3

\* The judged account's last spend of the first k events is a transfer.
ShowsTransfer(l, k) ==
  \E i \in 1 .. k : /\ l[i].type = "transfer" /\ l[i].from = Judged
                    /\ \A j \in i + 1 .. k : ~ SpendBy(Judged, l[j])

\* A corrupted history shows one unit too much after a transfer, and is the truth else.
OneTooMuch(w, t) ==
  /\ w.receiving = t.receiving
  /\ w.spendable.r = t.spendable.r
  /\ w.spendable.v \in {t.spendable.v, t.spendable.v + 1}

\* From states w and t an event leads to x and y: what becomes of the difference.
Corrupts(ev, w, t, x, y) ==
  /\ OneTooMuch(x, y)
  /\ ev.type = "transfer" /\ ev.from = Judged => x.spendable.v = y.spendable.v + 1
  /\ ~ SpendBy(Judged, ev) => x.spendable.v - y.spendable.v = w.spendable.v - t.spendable.v

LEMMA CorruptStep ==
  ASSUME NEW w \in AccountState, NEW t \in AccountState, NEW ev \in ConfidentialEvent,
         OneTooMuch(w, t), Concerns(Judged, ev),
         SpendBy(Judged, ev) => OpenSpendable(Judged, ev).v + 1 < FrModulus,
         ev.type = "transfer" => ev.from # ev.to
  PROVE  Corrupts(ev, w, t, Apply(Judged, w, Altered("corrupting", ev)), Apply(Judged, t, ev))
<1>. DEFINE alt == Altered("corrupting", ev)
            x == Apply(Judged, w, alt)
            y == Apply(Judged, t, ev)
<1>. SUFFICES Corrupts(ev, w, t, x, y)
  OBVIOUS
<1>0. /\ Judged \in Accounts /\ w.spendable.v \in Int /\ t.spendable.v \in Int
      /\ w.receiving.v \in Int /\ t.receiving.v \in Int
  BY VerdictsAssumption DEF AccountState, Opening
<1>1. CASE ev.type # "transfer"
  <2>1. alt = ev
    BY <1>1 DEF Altered
  <2>2. CASE ev.type = "register"
    <3>1. /\ x.spendable = w.spendable /\ x.receiving = w.receiving
          /\ y.spendable = t.spendable /\ y.receiving = t.receiving
      BY <1>0, <2>1, <2>2, ApplyRules
    <3>. HIDE DEF x, y
    <3>. QED BY <1>1, <3>1 DEF OneTooMuch, Corrupts, SpendBy
  <2>3. CASE ev.type = "deposit"
    <3>1. /\ x.spendable = w.spendable /\ y.spendable = t.spendable
          /\ x.receiving = y.receiving
      BY <2>1, <2>3 DEF OneTooMuch, Apply, SpendableAfter, ReceivingAfter
    <3>. HIDE DEF x, y
    <3>. QED BY <1>1, <3>1 DEF OneTooMuch, Corrupts, SpendBy
  <2>4. CASE ev.type = "merge"
    <3>1. ev.account = Judged
      BY <2>4 DEF Concerns
    <3>2. /\ x.spendable = AddOpening(w.spendable, w.receiving) /\ x.receiving = ZeroOpening
          /\ y.spendable = AddOpening(t.spendable, t.receiving) /\ y.receiving = ZeroOpening
      BY <1>0, <2>1, <2>4, <3>1, ApplyRules
    <3>3. /\ x.spendable.v = w.spendable.v + w.receiving.v
          /\ y.spendable.v = t.spendable.v + t.receiving.v
          /\ x.spendable.r = GroupAdd(w.spendable.r, w.receiving.r)
          /\ y.spendable.r = GroupAdd(t.spendable.r, t.receiving.r)
      BY <3>2 DEF AddOpening
    <3>4. w.receiving = t.receiving
      BY DEF OneTooMuch, Corrupts, SpendBy
    <3>. HIDE DEF x, y
    <3>. QED BY <1>0, <1>1, <3>2, <3>3, <3>4 DEF OneTooMuch, Corrupts, SpendBy
  <2>5. CASE ev.type = "withdraw"
    <3>1. SpendBy(Judged, ev)
      BY <2>5 DEF Concerns, SpendBy
    <3>2. /\ x.spendable = OpenSpendable(Judged, ev) /\ y.spendable = OpenSpendable(Judged, ev)
          /\ x.receiving = w.receiving /\ y.receiving = t.receiving
      BY <1>0, <2>1, <2>5, <3>1, ApplyRules
    <3>. HIDE DEF x, y
    <3>. QED BY <1>1, <3>1, <3>2 DEF OneTooMuch, Corrupts, SpendBy
  <2>. QED BY <1>1, <2>2, <2>3, <2>4, <2>5, EventTypes
<1>2. CASE ev.type = "transfer"
  <2>1. ev \in TransferEvent /\ alt = Nudged(ev)
    BY <1>2, EventTypes DEF Altered
  <2>2. /\ alt \in ConfidentialEvent /\ alt.type = "transfer"
        /\ alt.from = ev.from /\ alt.to = ev.to
        /\ alt.rE = ev.rE /\ alt.vTilde = ev.vTilde /\ alt.sigma = ev.sigma
    BY <1>2, <2>1, NudgedType DEF ConfidentialEvent
  <2>3. CASE ev.from = Judged
    <3>1. SpendBy(Judged, ev) /\ SpendBy(Judged, alt) /\ ev.to # Judged /\ alt.to # Judged
      BY <1>2, <2>2, <2>3 DEF SpendBy
    <3>. HIDE DEF alt
    <3>2. /\ x.spendable = OpenSpendable(Judged, alt) /\ y.spendable = OpenSpendable(Judged, ev)
          /\ x.receiving = w.receiving /\ y.receiving = t.receiving
      BY <1>0, <2>2, <3>1, ApplyRules
    <3>3. /\ OpenSpendable(Judged, alt).v = OpenSpendable(Judged, ev).v + 1
          /\ OpenSpendable(Judged, alt).r = OpenSpendable(Judged, ev).r
      BY <1>0, <2>1, <3>1, OpenNudged
    <3>. HIDE DEF x, y
    <3>. QED BY <3>1, <3>2, <3>3 DEF OneTooMuch, Corrupts, SpendBy
  <2>4. CASE ev.from # Judged
    <3>1. ev.to = Judged /\ alt.to = Judged /\ alt.from # Judged /\ ~ SpendBy(Judged, ev)
      BY <1>2, <2>2, <2>4 DEF Concerns, SpendBy
    <3>. HIDE DEF alt
    <3>2. /\ x.receiving = AddOpening(w.receiving, DecryptIncoming(Judged, alt))
          /\ x.spendable = w.spendable
      BY <1>0, <2>2, <3>1, ApplyRules
    <3>3. /\ y.receiving = AddOpening(t.receiving, DecryptIncoming(Judged, ev))
          /\ y.spendable = t.spendable
      BY <1>0, <1>2, <2>4, <3>1, ApplyRules
    <3>4. DecryptIncoming(Judged, alt) = DecryptIncoming(Judged, ev)
      BY <2>2 DEF DecryptIncoming
    <3>. HIDE DEF x, y
    <3>. QED BY <2>4, <3>1, <3>2, <3>3, <3>4 DEF OneTooMuch, Corrupts, SpendBy
  <2>. QED BY <2>3, <2>4
<1>. QED BY <1>1, <1>2

\* A corrupting archive makes the wallet report one unit too much, if its last spend is
\* a transfer, and otherwise the truth.
LEMMA CorruptReplica ==
  ASSUME NEW l, NEW c, History(l, c), NEW k \in 0 .. Len(l)
  PROVE  /\ OneTooMuch(ReplicaOf(l, "corrupting", k), WalletOf(l, Judged, k))
         /\ ShowsTransfer(l, k) =>
              ReplicaOf(l, "corrupting", k).spendable.v = WalletOf(l, Judged, k).spendable.v + 1
<1>. DEFINE Right(n) ==
              /\ OneTooMuch(ReplicaOf(l, "corrupting", n), WalletOf(l, Judged, n))
              /\ ShowsTransfer(l, n) =>
                   ReplicaOf(l, "corrupting", n).spendable.v = WalletOf(l, Judged, n).spendable.v + 1
            G == {n \in Nat : n <= Len(l) => Right(n)}
<1>0. l \in Seq(ConfidentialEvent) /\ Len(l) \in Nat /\ Len(l) <= MaxEvents /\ Judged \in Accounts
  BY VerdictsAssumption DEF History
<1>1. 0 \in G
  <2>1. ReplicaOf(l, "corrupting", 0) = FreshState /\ WalletOf(l, Judged, 0) = FreshState
    BY <1>0, WalletEquations, ReplicaEquations
  <2>2. ~ ShowsTransfer(l, 0)
    BY DEF ShowsTransfer
  <2>. QED BY <2>1, <2>2 DEF OneTooMuch
<1>2. ASSUME NEW n \in Nat, n \in G PROVE n + 1 \in G
  <2>. SUFFICES ASSUME n + 1 <= Len(l) PROVE Right(n + 1)
    OBVIOUS
  <2>. DEFINE w == ReplicaOf(l, "corrupting", n)
              t == WalletOf(l, Judged, n)
              ev == l[n + 1]
              y == Apply(Judged, t, ev)
              x == Apply(Judged, w, Altered("corrupting", ev))
  <2>1. n < Len(l) /\ Right(n) /\ n \in 0 .. Len(l) /\ n \in 0 .. MaxEvents
    BY <1>0, <1>2, Small
  <2>2. /\ ev \in ConfidentialEvent
        /\ SpendBy(Judged, ev) => OpenSpendable(Judged, ev).v + Amount <= t.spendable.v
        /\ ev.type = "transfer" => ev.from # ev.to
    BY <1>0, <2>1, HistoryAt
  <2>3. WalletOf(l, Judged, n + 1) = y
    BY <1>0, <2>1, WalletEquations
  <2>4. ReplicaOf(l, "corrupting", n + 1) = IF Concerns(Judged, ev) THEN x ELSE w
    <3>1. ReplicaOf(l, "corrupting", n + 1) = IF Serves("corrupting", ev) THEN x ELSE w
      BY <1>0, <2>1, ReplicaEquations
    <3>. QED BY <3>1 DEF Serves
  <2>5. w \in AccountState /\ t \in AccountState
    BY <1>0, <2>1, ReplayTypes
  <2>6. SpendBy(Judged, ev) => OpenSpendable(Judged, ev).v + 1 < FrModulus
    <3>. SUFFICES ASSUME SpendBy(Judged, ev) PROVE OpenSpendable(Judged, ev).v + 1 < FrModulus
      OBVIOUS
    <3>1. OpenSpendable(Judged, ev).v \in Nat
      <4>1. ev \in WithdrawEvent \cup TransferEvent
        BY <2>2, EventTypes DEF SpendBy
      <4>. QED BY <1>0, <4>1, OpenSpendableType DEF Fr
    <3>2. Covered(t, n)
      BY <1>0, <2>1, WalletCovered
    <3>3. Cap(n) \in Nat /\ Cap(n) < FrModulus
      BY <2>1, CapGrows
    <3>. DEFINE o == OpenSpendable(Judged, ev).v
                b == t.spendable.v
                q == t.receiving.v
                m == Cap(n)
    <3>4. /\ o \in Nat /\ b \in Nat /\ m \in Nat /\ m < FrModulus /\ b <= m
          /\ o + Amount <= b /\ Amount \in Nat /\ Amount >= 1 /\ FrModulus \in Nat
      <4>1. b \in Nat /\ q \in Nat /\ b + q <= m /\ m \in Nat
        BY <3>2, <3>3 DEF Covered
      <4>2. b <= m
        <5>. HIDE DEF b, q, m
        <5>. QED BY <4>1
      <4>. QED BY <2>2, <3>1, <3>3, <4>1, <4>2, Small
    <3>. HIDE DEF t, ev, o, b, m
    <3>5. o + 1 < FrModulus
      BY <3>4
    <3>. QED BY <3>5 DEF o
  <2>7. ShowsTransfer(l, n + 1) =>
          \/ ev.type = "transfer" /\ ev.from = Judged
          \/ ShowsTransfer(l, n) /\ ~ SpendBy(Judged, ev)
    <3>. SUFFICES ASSUME NEW i \in 1 .. n + 1,
                         l[i].type = "transfer" /\ l[i].from = Judged,
                         \A j \in i + 1 .. n + 1 : ~ SpendBy(Judged, l[j])
                  PROVE  \/ ev.type = "transfer" /\ ev.from = Judged
                         \/ ShowsTransfer(l, n) /\ ~ SpendBy(Judged, ev)
      BY DEF ShowsTransfer
    <3>1. CASE i = n + 1
      BY <3>1
    <3>2. CASE i # n + 1
      <4>1. i \in 1 .. n /\ n + 1 \in i + 1 .. n + 1 /\ \A j \in i + 1 .. n : j \in i + 1 .. n + 1
        BY <3>2
      <4>2. ~ SpendBy(Judged, ev)
        BY <4>1
      <4>. QED BY <4>1, <4>2 DEF ShowsTransfer
    <3>. QED BY <3>1, <3>2
  <2>8. w.spendable.v \in Int /\ t.spendable.v \in Int
    BY <2>5 DEF AccountState, Opening
  <2>9. /\ OneTooMuch(w, t)
        /\ ShowsTransfer(l, n) => w.spendable.v = t.spendable.v + 1
    BY <2>1
  <2>. HIDE DEF w, t, ev
  <2>10. CASE Concerns(Judged, ev)
    <3>1. Corrupts(ev, w, t, x, y)
      BY <2>2, <2>5, <2>6, <2>9, <2>10, CorruptStep
    <3>2. x.spendable.v \in Int /\ y.spendable.v \in Int
      <4>1. x \in AccountState /\ y \in AccountState
        <5>1. Altered("corrupting", ev) \in ConfidentialEvent
          BY <2>2, ServedType
        <5>. QED BY <1>0, <2>2, <2>5, <5>1, ApplyType
      <4>. QED BY <4>1 DEF AccountState, Opening
    <3>. HIDE DEF x, y
    <3>3. OneTooMuch(x, y)
      BY <3>1 DEF Corrupts
    <3>4. ShowsTransfer(l, n + 1) => x.spendable.v = y.spendable.v + 1
      <4>1. CASE ev.type = "transfer" /\ ev.from = Judged
        BY <3>1, <4>1 DEF Corrupts
      <4>2. CASE ShowsTransfer(l, n) /\ ~ SpendBy(Judged, ev)
        <5>1. x.spendable.v - y.spendable.v = w.spendable.v - t.spendable.v
          BY <3>1, <4>2 DEF Corrupts
        <5>2. w.spendable.v = t.spendable.v + 1
          BY <4>2, <2>9
        <5>3. w.spendable.v - t.spendable.v = 1
          BY <2>8, <5>2
        <5>4. x.spendable.v - y.spendable.v = 1
          BY <5>1, <5>3
        <5>. QED BY <5>4, <3>2
      <4>. QED BY <2>7, <4>1, <4>2
    <3>. QED BY <2>3, <2>4, <2>10, <3>3, <3>4
  <2>11. CASE ~ Concerns(Judged, ev)
    <3>1. y.spendable = t.spendable /\ y.receiving = t.receiving
      BY <2>2, <2>11, OthersChangeNothing
    <3>2. ~ (ev.type = "transfer" /\ ev.from = Judged)
      BY <2>11 DEF Concerns
    <3>. HIDE DEF x, y
    <3>3. OneTooMuch(w, y) /\ (ShowsTransfer(l, n + 1) => w.spendable.v = y.spendable.v + 1)
      BY <2>7, <2>9, <3>1, <3>2 DEF OneTooMuch
    <3>. QED BY <2>3, <2>4, <2>11, <3>3
  <2>. QED BY <2>10, <2>11
<1>3. k \in G
  <2>. HIDE DEF G
  <2>. QED BY <1>1, <1>2, SetInduction
<1>. QED BY <1>3

\* A wallet without merges hoards: its receiving side is never emptied.
Hoards(w, t, k) ==
  /\ w.spendable.v \in Nat /\ w.spendable.v <= Cap(k)
  /\ w.receiving.v \in Nat /\ w.receiving.v <= Cap(k)
  /\ t.receiving.v <= w.receiving.v
  /\ k >= 1 => w.receiving.v >= 2 * Amount
  /\ k >= 2 => t.receiving.v < w.receiving.v

LEMMA OmitStep ==
  ASSUME NEW w \in AccountState, NEW t \in AccountState, NEW ev \in ConfidentialEvent,
         NEW k \in Nat, Hoards(w, t, k), Covered(t, k), Concerns(Judged, ev),
         Gain(ev) \in Nat, Cap(k) + Gain(ev) <= Cap(k + 1),
         SpendBy(Judged, ev) => OpenSpendable(Judged, ev).v + Amount <= t.spendable.v,
         ev.type = "transfer" => ev.from # ev.to,
         k = 0 => ev.type = "deposit" /\ ev.to = Judged /\ ev.amount = 2 * Amount,
         k = 1 => ev.type = "merge"
  PROVE  Hoards(IF ev.type = "merge" THEN w ELSE Apply(Judged, w, ev), Apply(Judged, t, ev), k + 1)
<1>. DEFINE x == Apply(Judged, w, ev)
            y == Apply(Judged, t, ev)
            g == Gain(ev)
            m == Cap(k)
            n == Cap(k + 1)
            s == w.spendable.v
            r == w.receiving.v
            rt == t.receiving.v
<1>1. /\ s \in Nat /\ s <= m /\ r \in Nat /\ r <= m /\ rt \in Nat /\ rt <= r
      /\ k >= 1 => r >= 2 * Amount
      /\ k >= 2 => rt < r
      /\ g \in Nat /\ m + g <= n /\ m <= n /\ m \in Nat /\ n \in Nat
      /\ Amount \in Nat /\ Amount >= 1 /\ 2 * Amount \in Nat /\ 2 * Amount >= 1
      /\ t.spendable.v \in Nat /\ t.spendable.v <= m
  <2>1. k + 1 \in Nat
    OBVIOUS
  <2>. QED BY <2>1, CapGrows, Small DEF Hoards, Covered
<1>2. Judged \in Accounts
  BY VerdictsAssumption
<1>3. CASE ev.type = "register"
  <2>1. /\ x.spendable = w.spendable /\ x.receiving = w.receiving
        /\ y.spendable = t.spendable /\ y.receiving = t.receiving
    BY <1>2, <1>3, ApplyRules
  <2>. HIDE DEF x, y, m, n, g
  <2>2. Hoards(x, y, k + 1)
    BY <1>1, <1>3, <2>1 DEF Hoards, n
  <2>. QED BY <1>3, <2>2 DEF x, y
<1>4. CASE ev.type = "deposit"
  <2>1. ev.to = Judged
    BY <1>4 DEF Concerns
  <2>2. /\ x.spendable = w.spendable /\ x.receiving.v = r + ev.amount
        /\ y.spendable = t.spendable /\ y.receiving.v = rt + ev.amount /\ g = ev.amount
    BY <1>2, <1>4, <2>1, ApplyRules
  <2>. HIDE DEF x, y, m, n, g
  <2>3. k = 0 => g = 2 * Amount
    BY <2>2
  <2>4. Hoards(x, y, k + 1)
    BY <1>1, <1>4, <2>2, <2>3 DEF Hoards, n
  <2>. QED BY <1>4, <2>4 DEF x, y
<1>5. CASE ev.type = "merge"
  <2>1. ev.account = Judged /\ k # 0
    BY <1>5 DEF Concerns
  <2>2. y.receiving = ZeroOpening
    BY <1>2, <1>5, <2>1, ApplyRules
  <2>3. y.receiving.v = 0
    BY <2>2 DEF ZeroOpening
  <2>. HIDE DEF x, y, m, n, g
  <2>4. Hoards(w, y, k + 1)
    BY <1>1, <2>1, <2>3 DEF Hoards, n
  <2>. QED BY <1>5, <2>4 DEF x, y
<1>6. CASE SpendBy(Judged, ev)
  <2>1. /\ ev \in WithdrawEvent \cup TransferEvent
        /\ ~ (ev.type = "transfer" /\ ev.to = Judged)
        /\ ev.type # "merge" /\ k # 0 /\ k # 1
    BY <1>6, EventTypes DEF SpendBy
  <2>2. /\ x.spendable = OpenSpendable(Judged, ev) /\ x.receiving = w.receiving
        /\ y.receiving = t.receiving
    BY <1>2, <1>6, <2>1, ApplyRules
  <2>3. OpenSpendable(Judged, ev).v \in Nat
    BY <1>2, <2>1, OpenSpendableType DEF Fr
  <2>. HIDE DEF x, y, m, n, g
  <2>4. Hoards(x, y, k + 1)
    BY <1>1, <1>6, <2>1, <2>2, <2>3 DEF Hoards, n
  <2>. QED BY <2>1, <2>4 DEF x, y
<1>7. CASE ev.type = "transfer" /\ ev.to = Judged
  <2>1. ev.from # Judged /\ k # 0 /\ k # 1
    BY <1>7
  <2>2. /\ x.receiving = AddOpening(w.receiving, DecryptIncoming(Judged, ev))
        /\ x.spendable = w.spendable
        /\ y.receiving = AddOpening(t.receiving, DecryptIncoming(Judged, ev))
        /\ g = DecryptIncoming(Judged, ev).v
    BY <1>2, <1>7, <2>1, ApplyRules
  <2>3. x.receiving.v = r + g /\ y.receiving.v = rt + g
    BY <2>2 DEF AddOpening
  <2>. HIDE DEF x, y, m, n, g
  <2>4. Hoards(x, y, k + 1)
    BY <1>1, <2>1, <2>2, <2>3 DEF Hoards, n
  <2>. QED BY <1>7, <2>4 DEF x, y
<1>. QED BY <1>3, <1>4, <1>5, <1>6, <1>7, EventTypes DEF Concerns, SpendBy

\* An archive that leaves out the merges makes the wallet hoard.
LEMMA OmitReplica ==
  ASSUME NEW l, NEW c, History(l, c), NEW k \in 0 .. Len(l)
  PROVE  Hoards(ReplicaOf(l, "omitting", k), WalletOf(l, Judged, k), k)
<1>. DEFINE G == {n \in Nat : n <= Len(l) =>
                    Hoards(ReplicaOf(l, "omitting", n), WalletOf(l, Judged, n), n)}
<1>0. /\ l \in Seq(ConfidentialEvent) /\ Len(l) \in Nat /\ Judged \in Accounts
      /\ Beginning(l)
  BY VerdictsAssumption DEF History
<1>1. 0 \in G
  <2>1. ReplicaOf(l, "omitting", 0) = FreshState /\ WalletOf(l, Judged, 0) = FreshState
    BY <1>0, WalletEquations, ReplicaEquations
  <2>2. Hoards(FreshState, FreshState, 0)
    BY CapGrows DEF Hoards, FreshState, ZeroOpening
  <2>. QED BY <2>1, <2>2
<1>2. ASSUME NEW n \in Nat, n \in G PROVE n + 1 \in G
  <2>. SUFFICES ASSUME n + 1 <= Len(l)
                PROVE Hoards(ReplicaOf(l, "omitting", n + 1), WalletOf(l, Judged, n + 1), n + 1)
    OBVIOUS
  <2>. DEFINE w == ReplicaOf(l, "omitting", n)
              t == WalletOf(l, Judged, n)
              ev == l[n + 1]
              y == Apply(Judged, t, ev)
              x == Apply(Judged, w, ev)
  <2>1. n < Len(l) /\ Hoards(w, t, n) /\ n \in 0 .. Len(l)
    BY <1>0, <1>2
  <2>2. /\ ev \in ConfidentialEvent
        /\ Gain(ev) \in Nat /\ Cap(n) + Gain(ev) <= Cap(n + 1)
        /\ SpendBy(Judged, ev) => OpenSpendable(Judged, ev).v + Amount <= t.spendable.v
        /\ ev.type = "transfer" => ev.from # ev.to
    BY <1>0, <2>1, HistoryAt
  <2>3. WalletOf(l, Judged, n + 1) = y
    BY <1>0, <2>1, WalletEquations
  <2>4. ReplicaOf(l, "omitting", n + 1) =
          IF Concerns(Judged, ev) /\ ev.type # "merge" THEN x ELSE w
    <3>1. ReplicaOf(l, "omitting", n + 1) =
            IF Serves("omitting", ev) THEN Apply(Judged, w, Altered("omitting", ev)) ELSE w
      BY <1>0, <2>1, ReplicaEquations
    <3>. QED BY <3>1 DEF Serves, Altered
  <2>5. w \in AccountState /\ t \in AccountState
    BY <1>0, <2>1, ReplayTypes
  <2>6. Covered(t, n)
    BY <1>0, <2>1, WalletCovered
  <2>7. /\ n = 0 => ev.type = "deposit" /\ ev.to = Judged /\ ev.amount = 2 * Amount
        /\ n = 1 => ev.type = "merge" /\ ev.account = Judged
    BY <1>0 DEF Beginning
  <2>. HIDE DEF w, t, ev
  <2>8. CASE Concerns(Judged, ev)
    <3>1. Hoards(IF ev.type = "merge" THEN w ELSE x, y, n + 1)
      BY <2>1, <2>2, <2>5, <2>6, <2>7, <2>8, OmitStep
    <3>. HIDE DEF x, y
    <3>. QED BY <2>3, <2>4, <2>8, <3>1
  <2>9. CASE ~ Concerns(Judged, ev)
    <3>1. y.spendable = t.spendable /\ y.receiving = t.receiving
      BY <2>2, <2>9, OthersChangeNothing
    <3>2. n # 0 /\ n # 1
      BY <2>7, <2>9 DEF Concerns
    <3>. HIDE DEF x, y
    <3>. DEFINE a == Cap(n)
                b == Cap(n + 1)
                u == w.spendable.v
                v == w.receiving.v
    <3>3. a \in Nat /\ b \in Nat /\ a <= b
      <4>1. n + 1 \in Nat
        OBVIOUS
      <4>. QED BY <4>1, CapGrows
    <3>4. Hoards(w, y, n + 1)
      <4>1. u \in Nat /\ u <= a /\ v \in Nat /\ v <= a
        BY <2>1 DEF Hoards
      <4>2. u <= b /\ v <= b
        <5>. HIDE DEF a, b, u, v
        <5>. QED BY <4>1, <3>3
      <4>. QED BY <2>1, <3>1, <3>2, <4>1, <4>2 DEF Hoards
    <3>. QED BY <2>3, <2>4, <2>9, <3>4
  <2>. QED BY <2>8, <2>9
<1>3. k \in G
  <2>. HIDE DEF G
  <2>. QED BY <1>1, <1>2, SetInduction
<1>. QED BY <1>3

-----------------------------------------------------------------------------
(* Openings and points. *)

\* An opening below the group order on both sides is the only one of its point.
LEMMA OnlyOpening ==
  ASSUME NEW o \in Opening, NEW p \in Opening,
         o.v \in 0 .. FpModulus - 1, p.v \in 0 .. FpModulus - 1
  PROVE  CommitOpening(o) = CommitOpening(p) <=> o = p
<1>1. o.r \in 0 .. FpModulus - 1 /\ p.r \in 0 .. FpModulus - 1 /\ FpModulus \in Nat \ {0}
  BY FieldAssumption DEF Opening, Fp
<1>2. /\ o.v % FpModulus = o.v /\ p.v % FpModulus = p.v
      /\ o.r % FpModulus = o.r /\ p.r % FpModulus = p.r
  BY <1>1
<1>3. CommitOpening(o) = [g |-> o.v, h |-> o.r] /\ CommitOpening(p) = [g |-> p.v, h |-> p.r]
  BY <1>2 DEF CommitOpening, Commit
<1>4. o = [v |-> o.v, r |-> o.r] /\ p = [v |-> p.v, r |-> p.r]
  BY DEF Opening
<1>5. CommitOpening(o) = CommitOpening(p) => o.v = p.v /\ o.r = p.r
  <2>1. CommitOpening(o).g = o.v /\ CommitOpening(o).h = o.r
        /\ CommitOpening(p).g = p.v /\ CommitOpening(p).h = p.r
    BY <1>3
  <2>. QED BY <2>1
<1>. QED BY <1>4, <1>5

\* An account's commitments stay while no event is about it.
LEMMA Unmoved ==
  ASSUME NEW l, NEW c, History(l, c), NEW a \in Accounts,
         NEW m \in 0 .. Len(l), NEW n \in m .. Len(l),
         \A i \in m + 1 .. n : ~ Concerns(a, l[i])
  PROVE  c[n + 1][a] = c[m + 1][a]
<1>0. l \in Seq(ConfidentialEvent) /\ Len(l) \in Nat
  BY DEF History
<1>. DEFINE G == {d \in Nat : m + d <= n => c[m + d + 1][a] = c[m + 1][a]}
<1>1. 0 \in G
  <2>1. m + 0 + 1 = m + 1
    BY <1>0
  <2>. QED BY <2>1
<1>2. ASSUME NEW d \in Nat, d \in G PROVE d + 1 \in G
  <2>. SUFFICES ASSUME m + (d + 1) <= n PROVE c[m + (d + 1) + 1][a] = c[m + 1][a]
    OBVIOUS
  <2>. DEFINE k == m + d
              ev == l[k + 1]
              before == c[k + 1]
              after == c[k + 2]
  <2>1. /\ k \in Nat /\ k < Len(l) /\ k + 1 \in m + 1 .. n /\ m + (d + 1) + 1 = k + 2
        /\ m + d <= n
    BY <1>0
  <2>2. before[a] = c[m + 1][a]
    BY <1>2, <2>1
  <2>3. /\ ev \in ConfidentialEvent /\ before \in Commitments
        /\ EventExplains(ev, before, after) /\ ~ Concerns(a, ev)
    BY <2>1, HistoryAt
  <2>4. ev.type \in {"register", "deposit", "merge", "withdraw", "transfer"}
    BY <2>3, EventTypes
  <2>. HIDE DEF ev, before, after, k
  <2>5. after[a] = before[a]
    <3>1. CASE ev.type = "register"
      BY <2>3, <3>1 DEF EventExplains
    <3>2. CASE ev.type = "deposit"
      <4>1. ev.to # a /\ ev.to \in Accounts
        BY <2>3, <3>2, EventTypes DEF Concerns, DepositEvent
      <4>2. after = [before EXCEPT ![ev.to].receivingC = PointAdd(@, Commit(ev.amount, 0))]
        BY <2>3, <3>2 DEF EventExplains
      <4>. QED BY <2>3, <4>1, <4>2 DEF Commitments
    <3>3. CASE ev.type = "merge"
      <4>1. ev.account # a
        BY <2>3, <3>3 DEF Concerns
      <4>2. after = [before EXCEPT ![ev.account] =
                      [ spendableC |-> PointAdd(@.spendableC, @.receivingC),
                        receivingC |-> Commit(0, 0) ]]
        BY <2>3, <3>3 DEF EventExplains
      <4>. QED BY <2>3, <4>1, <4>2 DEF Commitments
    <3>4. CASE ev.type = "withdraw"
      <4>1. ev.from # a
        BY <2>3, <3>4 DEF Concerns
      <4>2. after = [before EXCEPT ![ev.from].spendableC =
                      CommitOpening(OpenSpendable(ev.from, ev))]
        BY <2>3, <3>4 DEF EventExplains
      <4>. QED BY <2>3, <4>1, <4>2 DEF Commitments
    <3>5. CASE ev.type = "transfer"
      <4>1. ev.from # a /\ ev.to # a /\ ev.to \in Accounts /\ ev.from \in Accounts
        BY <2>3, <3>5, EventTypes DEF Concerns, TransferEvent
      <4>. DEFINE spent == [before EXCEPT ![ev.from].spendableC =
                              CommitOpening(OpenSpendable(ev.from, ev))]
      <4>2. after = [spent EXCEPT ![ev.to].receivingC =
                       PointAdd(@, CommitOpening(DecryptIncoming(ev.to, ev)))]
        BY <2>3, <3>5 DEF EventExplains
      <4>3. spent[a] = before[a] /\ DOMAIN spent = Accounts
        BY <2>3, <4>1 DEF Commitments
      <4>. HIDE DEF spent
      <4>. QED BY <4>1, <4>2, <4>3
    <3>. QED BY <2>4, <3>1, <3>2, <3>3, <3>4, <3>5
  <2>. QED BY <2>1, <2>2, <2>5 DEF before, after, k
<1>3. n - m \in Nat /\ m + (n - m) = n /\ n - m \in G
  <2>1. n - m \in Nat /\ m + (n - m) = n
    BY <1>0
  <2>. HIDE DEF G
  <2>. QED BY <1>1, <1>2, <2>1, SetInduction
<1>. QED BY <1>0, <1>3
-----------------------------------------------------------------------------
(* Verdicts. *)

\* Whatever the wallet is made to report stays below the group order.
LEMMA InRange ==
  ASSUME NEW l, NEW c, History(l, c), NEW k \in 0 .. Len(l)
  PROVE  /\ \A a \in Accounts :
              /\ WalletOf(l, a, k).spendable \in Opening
              /\ WalletOf(l, a, k).receiving \in Opening
              /\ WalletOf(l, a, k).spendable.v \in 0 .. FpModulus - 1
              /\ WalletOf(l, a, k).receiving.v \in 0 .. FpModulus - 1
         /\ \A kind \in {"honest", "omitting", "corrupting"} :
              /\ ReplicaOf(l, kind, k).spendable \in Opening
              /\ ReplicaOf(l, kind, k).receiving \in Opening
              /\ ReplicaOf(l, kind, k).spendable.v \in 0 .. FpModulus - 1
              /\ ReplicaOf(l, kind, k).receiving.v \in 0 .. FpModulus - 1
<1>0. l \in Seq(ConfidentialEvent) /\ k \in 0 .. MaxEvents /\ Judged \in Accounts
  <2>1. Len(l) \in 2 .. MaxEvents /\ MaxEvents \in Nat
    BY Small DEF History
  <2>. QED BY <2>1, VerdictsAssumption DEF History
<1>. DEFINE m == Cap(k)
<1>1. m \in Nat /\ m < FrModulus /\ FrModulus < FpModulus /\ FrModulus \in Nat /\ FpModulus \in Nat
  BY <1>0, CapGrows, Small
<1>2. ASSUME NEW a \in Accounts
      PROVE  /\ WalletOf(l, a, k).spendable \in Opening
             /\ WalletOf(l, a, k).receiving \in Opening
             /\ WalletOf(l, a, k).spendable.v \in 0 .. m
             /\ WalletOf(l, a, k).receiving.v \in 0 .. m
  <2>. DEFINE w == WalletOf(l, a, k)
              s == w.spendable.v
              r == w.receiving.v
  <2>1. w \in AccountState
    BY <1>0, ReplayTypes
  <2>2. s \in Nat /\ r \in Nat /\ s + r <= m
    <3>1. Covered(w, k)
      BY WalletCovered
    <3>. QED BY <3>1 DEF Covered
  <2>3. s \in 0 .. m /\ r \in 0 .. m
    <3>. HIDE DEF s, r, m
    <3>. QED BY <1>1, <2>2
  <2>. HIDE DEF m
  <2>. QED BY <2>1, <2>3 DEF AccountState
<1>3. ASSUME NEW kind \in {"honest", "omitting", "corrupting"}
      PROVE  /\ ReplicaOf(l, kind, k).spendable \in Opening
             /\ ReplicaOf(l, kind, k).receiving \in Opening
             /\ ReplicaOf(l, kind, k).spendable.v \in 0 .. m + 1
             /\ ReplicaOf(l, kind, k).receiving.v \in 0 .. m
  <2>. DEFINE w == ReplicaOf(l, kind, k)
              t == WalletOf(l, Judged, k)
  <2>1. w.spendable \in Opening /\ w.receiving \in Opening
    BY <1>0, ReplayTypes DEF AccountState
  <2>2. t.spendable.v \in 0 .. m /\ t.receiving.v \in 0 .. m
    BY <1>0, <1>2
  <2>3. CASE kind = "honest"
    <3>1. SameOpenings(w, t)
      BY <2>3, HonestReplica
    <3>. HIDE DEF w, t, m
    <3>2. w.spendable.v \in 0 .. m + 1 /\ w.receiving.v \in 0 .. m
      BY <1>1, <2>2, <3>1 DEF SameOpenings
    <3>. QED BY <2>1, <3>2 DEF w
  <2>4. CASE kind = "omitting"
    <3>1. Hoards(w, t, k)
      BY <2>4, OmitReplica
    <3>. DEFINE s == w.spendable.v
                r == w.receiving.v
    <3>2. s \in Nat /\ r \in Nat /\ s <= m /\ r <= m
      BY <3>1 DEF Hoards
    <3>3. s \in 0 .. m + 1 /\ r \in 0 .. m
      <4>. HIDE DEF s, r, m
      <4>. QED BY <1>1, <3>2
    <3>. QED BY <2>1, <3>3
  <2>5. CASE kind = "corrupting"
    <3>1. OneTooMuch(w, t)
      BY <2>5, CorruptReplica
    <3>2. w.spendable.v \in {t.spendable.v, t.spendable.v + 1} /\ w.receiving = t.receiving
      BY <3>1 DEF OneTooMuch
    <3>. DEFINE s == w.spendable.v
                u == t.spendable.v
    <3>3. s = u \/ s = u + 1
      BY <3>2
    <3>4. u \in 0 .. m
      BY <2>2
    <3>5. s \in 0 .. m + 1
      <4>. HIDE DEF s, u, m
      <4>. QED BY <1>1, <3>3, <3>4
    <3>. HIDE DEF t, m
    <3>. QED BY <2>1, <2>2, <3>2, <3>5
  <2>. QED BY <2>3, <2>4, <2>5
<1>4. \A x \in 0 .. m + 1 : x \in 0 .. FpModulus - 1
  <2>. HIDE DEF m
  <2>. QED BY <1>1
<1>5. \A x \in 0 .. m : x \in 0 .. m + 1
  <2>. HIDE DEF m
  <2>. QED BY <1>1
<1>. HIDE DEF m
<1>. QED BY <1>2, <1>3, <1>4, <1>5

\* What verifies against the chain is the truth of the moment.
LEMMA VerifiedIsTrue ==
  ASSUME NEW l, NEW c, History(l, c), NEW k \in 0 .. Len(l), NEW n \in 0 .. Len(l),
         NEW kind \in {"honest", "omitting", "corrupting"},
         VerifyAgainstChain(ReplicaOf(l, kind, k), c[n + 1][Judged])
  PROVE  SameOpenings(ReplicaOf(l, kind, k), WalletOf(l, Judged, n))
<1>. DEFINE w == ReplicaOf(l, kind, k)
            t == WalletOf(l, Judged, n)
            p == c[n + 1][Judged]
<1>1. /\ w.spendable \in Opening /\ w.receiving \in Opening
      /\ w.spendable.v \in 0 .. FpModulus - 1 /\ w.receiving.v \in 0 .. FpModulus - 1
  BY InRange
<1>2. /\ t.spendable \in Opening /\ t.receiving \in Opening
      /\ t.spendable.v \in 0 .. FpModulus - 1 /\ t.receiving.v \in 0 .. FpModulus - 1
  BY InRange, VerdictsAssumption
<1>3. VerifyAgainstChain(w, p) /\ VerifyAgainstChain(t, p)
  BY WalletOpens, VerdictsAssumption
<1>. HIDE DEF w, t, p
<1>4. /\ CommitOpening(w.spendable) = CommitOpening(t.spendable)
      /\ CommitOpening(w.receiving) = CommitOpening(t.receiving)
  BY <1>3 DEF VerifyAgainstChain, Opens
<1>5. SameOpenings(w, t)
  BY <1>1, <1>2, <1>4, OnlyOpening DEF SameOpenings
<1>. QED BY <1>5 DEF w, t

MovedIn(l, a, k, m) == \E i \in k + 1 .. m : Concerns(a, l[i])

\* A faithful replay that does not verify was made at another moment than the
\* commitments, and the account moved in between.
LEMMA RefusedIsMoved ==
  ASSUME NEW l, NEW c, History(l, c), NEW k \in 0 .. Len(l), NEW n \in 0 .. Len(l),
         ~ VerifyAgainstChain(ReplicaOf(l, "honest", k), c[n + 1][Judged])
  PROVE  MovedIn(l, Judged, n, k) \/ MovedIn(l, Judged, k, n)
<1>. SUFFICES ASSUME ~ MovedIn(l, Judged, n, k), ~ MovedIn(l, Judged, k, n) PROVE FALSE
  OBVIOUS
<1>0. Len(l) \in Nat /\ Judged \in Accounts
  BY VerdictsAssumption DEF History
<1>1. c[n + 1][Judged] = c[k + 1][Judged]
  <2>1. CASE k <= n
    <3>1. n \in k .. Len(l)
      BY <1>0, <2>1
    <3>. QED BY <1>0, <3>1, Unmoved DEF MovedIn
  <2>2. CASE n <= k
    <3>1. k \in n .. Len(l)
      BY <1>0, <2>2
    <3>. QED BY <1>0, <3>1, Unmoved DEF MovedIn
  <2>. QED BY <1>0, <2>1, <2>2
<1>2. VerifyAgainstChain(WalletOf(l, Judged, k), c[k + 1][Judged])
  BY <1>0, WalletOpens
<1>3. SameOpenings(ReplicaOf(l, "honest", k), WalletOf(l, Judged, k))
  BY HonestReplica
<1>. QED BY <1>1, <1>2, <1>3 DEF SameOpenings, VerifyAgainstChain

\* What a verdict on l, from a store through n asked through asked and against the
\* commitments of read, may say.
VerdictSound(l, kind, n, asked, read, v) ==
  /\ v.by \in {"C3", "chain"}
  /\ v.accepted => SameOpenings(v.reported, WalletOf(l, Judged, read))
  /\ kind = "honest" /\ ~ v.accepted /\ v.by = "C3" => n < asked
  /\ kind = "honest" /\ ~ v.accepted /\ v.by = "chain" =>
       MovedIn(l, Judged, read, asked) \/ MovedIn(l, Judged, asked, read)

\* A verdict, in terms of the replica it is about.
LEMMA VerdictSays ==
  ASSUME NEW kind, NEW n, NEW asked, NEW read
  PROVE  /\ ~ Vouches(kind, n, asked) =>
              Verdict(kind, n, asked, read) = [by |-> "C3", accepted |-> FALSE]
         /\ Vouches(kind, n, asked) =>
              LET w == ReplicaOf(log, kind, IF n < asked THEN n ELSE asked) IN
              Verdict(kind, n, asked, read) =
                [ by |-> "chain", accepted |-> VerifyAgainstChain(w, commits[read + 1][Judged]),
                  reported |-> w ]
BY DEF Verdict, Checks, Onchain, View, ReplicaOf

\* Every verdict is sound.
LEMMA VerdictsAreSound ==
  ASSUME History(log, commits), NEW kind \in Archives, NEW n \in 0 .. Len(log),
         NEW asked \in 0 .. Len(log), NEW read \in 0 .. Len(log)
  PROVE  VerdictSound(log, kind, n, asked, read, Verdict(kind, n, asked, read))
<1>. DEFINE v == Verdict(kind, n, asked, read)
            m == IF n < asked THEN n ELSE asked
            w == ReplicaOf(log, kind, m)
<1>. SUFFICES VerdictSound(log, kind, n, asked, read, v)
  OBVIOUS
<1>1. kind \in {"honest", "lagging", "omitting", "corrupting"} /\ Len(log) \in Nat
  BY DEF Archives, History
<1>2. CASE ~ Vouches(kind, n, asked)
  <2>1. v = [by |-> "C3", accepted |-> FALSE]
    BY <1>2, VerdictSays
  <2>2. v.by = "C3" /\ v.accepted = FALSE
    BY <2>1
  <2>3. kind = "honest" => n < asked
    BY <1>1, <1>2 DEF Vouches
  <2>. HIDE DEF v
  <2>. QED BY <2>2, <2>3 DEF VerdictSound
<1>3. CASE Vouches(kind, n, asked)
  <2>1. v = [ by |-> "chain", accepted |-> VerifyAgainstChain(w, commits[read + 1][Judged]),
              reported |-> w ]
    BY <1>3, VerdictSays
  <2>2. /\ v.by = "chain" /\ v.reported = w
        /\ v.accepted = VerifyAgainstChain(w, commits[read + 1][Judged])
    BY <2>1
  <2>3. kind # "lagging" /\ (kind = "honest" => asked <= n)
    BY <1>3 DEF Vouches
  <2>4. m \in 0 .. Len(log) /\ (kind = "honest" => m = asked)
    BY <1>1, <2>3
  <2>5. v.accepted => SameOpenings(w, WalletOf(log, Judged, read))
    <3>. SUFFICES ASSUME VerifyAgainstChain(w, commits[read + 1][Judged])
                  PROVE SameOpenings(w, WalletOf(log, Judged, read))
      BY <2>2
    <3>1. kind \in {"honest", "omitting", "corrupting"}
      BY <1>1, <2>3
    <3>. HIDE DEF m
    <3>. QED BY <2>4, <3>1, VerifiedIsTrue
  <2>6. kind = "honest" /\ ~ v.accepted =>
          MovedIn(log, Judged, read, asked) \/ MovedIn(log, Judged, asked, read)
    <3>. SUFFICES ASSUME kind = "honest", ~ VerifyAgainstChain(w, commits[read + 1][Judged])
                  PROVE MovedIn(log, Judged, read, asked) \/ MovedIn(log, Judged, asked, read)
      BY <2>2
    <3>1. ~ VerifyAgainstChain(ReplicaOf(log, "honest", asked), commits[read + 1][Judged])
      BY <2>4
    <3>. QED BY <3>1, RefusedIsMoved
  <2>. HIDE DEF v, w
  <2>. QED BY <2>2, <2>5, <2>6 DEF VerdictSound
<1>. QED BY <1>2, <1>3

\* While the account rests, an account whose last spend is a transfer catches every lie.
LEMMA LiesAreShown ==
  ASSUME History(log, commits), NEW read \in 0 .. Len(log), NEW n \in read .. Len(log),
         n >= 2, ShowsTransfer(log, read), ~ MovedIn(log, Judged, read, n)
  PROVE  {kind \in Archives : Verdict(kind, n, n, read).accepted} = {"honest"}
<1>0. Judged \in Accounts /\ Len(log) \in Nat /\ n \in 0 .. Len(log)
  BY VerdictsAssumption DEF History
<1>1. commits[n + 1][Judged] = commits[read + 1][Judged]
  BY <1>0, Unmoved DEF MovedIn
<1>. DEFINE p == commits[read + 1][Judged]
            t == WalletOf(log, Judged, n)
            Accepts(kind) == Verdict(kind, n, n, read).accepted
<1>2. ASSUME NEW kind, Vouches(kind, n, n)
      PROVE  Accepts(kind) = VerifyAgainstChain(ReplicaOf(log, kind, n), p)
  <2>1. (IF n < n THEN n ELSE n) = n
    BY <1>0
  <2>. DEFINE w == ReplicaOf(log, kind, n)
  <2>2. Verdict(kind, n, n, read) = [by |-> "chain", accepted |-> VerifyAgainstChain(w, p),
                                     reported |-> w]
    BY <1>2, <2>1, VerdictSays
  <2>. HIDE DEF w, p
  <2>. QED BY <2>2 DEF w
<1>3. Accepts("honest")
  <2>1. Vouches("honest", n, n)
    BY <1>0 DEF Vouches
  <2>2. SameOpenings(ReplicaOf(log, "honest", n), t)
    BY <1>0, HonestReplica
  <2>3. VerifyAgainstChain(t, p)
    BY <1>0, <1>1, WalletOpens
  <2>4. VerifyAgainstChain(ReplicaOf(log, "honest", n), p)
    <3>. HIDE DEF t, p
    <3>. QED BY <2>2, <2>3 DEF SameOpenings, VerifyAgainstChain
  <2>. QED BY <1>2, <2>1, <2>4
<1>4. ~ Accepts("lagging")
  <2>1. ~ Vouches("lagging", n, n)
    BY DEF Vouches
  <2>2. Verdict("lagging", n, n, read) = [by |-> "C3", accepted |-> FALSE]
    BY <2>1, VerdictSays
  <2>. QED BY <2>2
<1>5. ASSUME NEW kind \in {"omitting", "corrupting"}, Accepts(kind)
      PROVE  SameOpenings(ReplicaOf(log, kind, n), t)
  <2>1. Vouches(kind, n, n)
    BY DEF Vouches
  <2>2. VerifyAgainstChain(ReplicaOf(log, kind, n), commits[n + 1][Judged])
    BY <1>1, <1>2, <1>5, <2>1
  <2>. QED BY <1>0, <2>2, VerifiedIsTrue
<1>6. ~ Accepts("omitting")
  <2>1. Hoards(ReplicaOf(log, "omitting", n), t, n)
    BY <1>0, OmitReplica
  <2>2. t.receiving.v < ReplicaOf(log, "omitting", n).receiving.v
        /\ t.receiving.v \in 0 .. FpModulus - 1
    BY <1>0, <2>1, InRange DEF Hoards
  <2>. HIDE DEF t, Accepts
  <2>. QED BY <1>5, <2>2 DEF SameOpenings
<1>7. ~ Accepts("corrupting")
  <2>1. ShowsTransfer(log, n)
    <3>1. PICK i \in 1 .. read : /\ log[i].type = "transfer" /\ log[i].from = Judged
                                 /\ \A j \in i + 1 .. read : ~ SpendBy(Judged, log[j])
      BY DEF ShowsTransfer
    <3>2. ASSUME NEW j \in i + 1 .. n PROVE ~ SpendBy(Judged, log[j])
      <4>1. CASE j \in read + 1 .. n
        <5>1. ~ Concerns(Judged, log[j])
          BY <4>1 DEF MovedIn
        <5>. QED BY <5>1 DEF Concerns, SpendBy
      <4>2. CASE j \in i + 1 .. read
        BY <3>1, <4>2
      <4>. QED BY <1>0, <4>1, <4>2
    <3>3. i \in 1 .. n
      BY <1>0
    <3>. QED BY <3>1, <3>2, <3>3 DEF ShowsTransfer
  <2>2. ReplicaOf(log, "corrupting", n).spendable.v = t.spendable.v + 1
        /\ t.spendable.v \in 0 .. FpModulus - 1
    BY <1>0, <2>1, CorruptReplica, InRange
  <2>. HIDE DEF t, Accepts
  <2>. QED BY <1>5, <2>2 DEF SameOpenings
<1>. HIDE DEF Accepts
<1>8. {kind \in Archives : Accepts(kind)} = {"honest"}
  BY <1>3, <1>4, <1>6, <1>7 DEF Archives
<1>. QED BY <1>8 DEF Accepts
-----------------------------------------------------------------------------
(* The log only grows. *)

\* An event more leaves the wallets at the earlier positions as they were.
LEMMA PositionsStay ==
  ASSUME NEW l \in Seq(ConfidentialEvent), NEW ev \in ConfidentialEvent
  PROVE  /\ Append(l, ev) \in Seq(ConfidentialEvent) /\ Len(Append(l, ev)) = Len(l) + 1
         /\ \A k \in 1 .. Len(l) : Append(l, ev)[k] = l[k]
         /\ Append(l, ev)[Len(l) + 1] = ev
         /\ \A a, k : k \in 0 .. Len(l) => WalletOf(Append(l, ev), a, k) = WalletOf(l, a, k)
<1>1. ASSUME NEW a, NEW k \in 0 .. Len(l)
      PROVE  WalletOf(Append(l, ev), a, k) = WalletOf(l, a, k)
  BY Grown DEF WalletOf
<1>. QED BY <1>1, AppendProperties

\* An entry of the history stays one.
LEMMA EntryStays ==
  ASSUME NEW l \in Seq(ConfidentialEvent), NEW c \in Seq(Commitments), Len(c) = Len(l) + 1,
         NEW ev \in ConfidentialEvent, NEW after \in Commitments,
         NEW k \in 1 .. Len(l), Entry(l, c, k)
  PROVE  Entry(Append(l, ev), Append(c, after), k)
<1>1. k \in 1 .. Len(c) /\ k + 1 \in 1 .. Len(c) /\ k - 1 \in 0 .. Len(l)
  OBVIOUS
<1>. DEFINE m == Append(l, ev)
            d == Append(c, after)
<1>2. m[k] = l[k] /\ \A a : WalletOf(m, a, k - 1) = WalletOf(l, a, k - 1)
  BY <1>1, PositionsStay
<1>3. d[k] = c[k] /\ d[k + 1] = c[k + 1]
  BY <1>1, AppendProperties
<1>. HIDE DEF m, d
<1>4. Entry(m, d, k)
  BY <1>2, <1>3 DEF Entry
<1>. QED BY <1>4 DEF m, d

\* What an event must be for the history to go on with it.
Continues(l, c, ev, after) ==
  /\ ev \in ConfidentialEvent /\ after \in Commitments
  /\ EventExplains(ev, c[Len(l) + 1], after)
  /\ Gain(ev) \in Nat /\ Gain(ev) <= Amount
  /\ \A a \in Accounts : SpendBy(a, ev) =>
       OpenSpendable(a, ev).v + Amount <= WalletOf(l, a, Len(l)).spendable.v
  /\ ev.type = "transfer" => ev.from # ev.to

\* The history goes on with such an event.
LEMMA HistoryGrows ==
  ASSUME NEW l, NEW c, History(l, c), NEW ev, NEW after, Continues(l, c, ev, after),
         Len(l) < MaxEvents
  PROVE  History(Append(l, ev), Append(c, after))
<1>1. /\ l \in Seq(ConfidentialEvent) /\ c \in Seq(Commitments) /\ Len(c) = Len(l) + 1
      /\ Len(l) \in 2 .. MaxEvents /\ MaxEvents \in Nat
      /\ ev \in ConfidentialEvent /\ after \in Commitments
  BY Small DEF History, Continues
<1>. DEFINE m == Append(l, ev)
            d == Append(c, after)
            n == Len(l)
<1>2. /\ m \in Seq(ConfidentialEvent) /\ Len(m) = n + 1 /\ m[n + 1] = ev
      /\ \A k \in 1 .. n : m[k] = l[k]
      /\ \A a : WalletOf(m, a, n) = WalletOf(l, a, n)
  <2>1. n \in 0 .. Len(l)
    BY <1>1
  <2>. QED BY <1>1, <2>1, PositionsStay
<1>3. /\ d \in Seq(Commitments) /\ Len(d) = Len(c) + 1 /\ d[Len(c) + 1] = after
      /\ \A k \in 1 .. Len(c) : d[k] = c[k]
  BY <1>1, AppendProperties
<1>4. /\ n \in Nat /\ n >= 2 /\ n + 1 \in 2 .. MaxEvents /\ 1 \in 1 .. n /\ 2 \in 1 .. n
      /\ 1 \in 1 .. Len(c) /\ n + 1 \in 1 .. Len(c) /\ n + 2 = Len(c) + 1 /\ n + 1 - 1 = n
      /\ n + 1 + 1 = n + 2
  BY <1>1
<1>5. Entry(m, d, n + 1)
  <2>1. m[n + 1] = ev /\ d[n + 1] = c[n + 1] /\ d[n + 2] = after
    BY <1>2, <1>3, <1>4
  <2>2. EventExplains(ev, c[n + 1], after) /\ Gain(ev) \in Nat /\ Gain(ev) <= Amount
        /\ (ev.type = "transfer" => ev.from # ev.to)
    BY DEF Continues
  <2>3. Cap(n) + Gain(ev) <= Cap(n + 1)
    <3>1. Cap(n + 1) = Cap(n) + Amount /\ Cap(n) \in Nat /\ Amount \in Nat
      BY <1>4, CapGrows, Small
    <3>. DEFINE x == Cap(n)
                y == Cap(n + 1)
                g == Gain(ev)
    <3>. HIDE DEF x, y, g
    <3>2. x + g <= y
      BY <2>2, <3>1 DEF x, y, g
    <3>. QED BY <3>2 DEF x, y, g
  <2>4. \A a \in Accounts : SpendBy(a, ev) =>
          OpenSpendable(a, ev).v + Amount <= WalletOf(m, a, n).spendable.v
    <3>1. \A a \in Accounts : SpendBy(a, ev) =>
            OpenSpendable(a, ev).v + Amount <= WalletOf(l, a, n).spendable.v
      BY DEF Continues
    <3>. HIDE DEF m
    <3>. QED BY <1>2, <3>1
  <2>. HIDE DEF m, d, n
  <2>. QED BY <1>4, <2>1, <2>2, <2>3, <2>4 DEF Entry
<1>6. ASSUME NEW k \in 1 .. n PROVE Entry(m, d, k)
  <2>1. Entry(l, c, k)
    BY DEF History
  <2>. QED BY <1>1, <2>1, EntryStays
<1>7. \A k \in 1 .. n + 1 : Entry(m, d, k)
  <2>. HIDE DEF m, d, n
  <2>1. \A k \in 1 .. n + 1 : k \in 1 .. n \/ k = n + 1
    BY <1>4
  <2>. QED BY <1>5, <1>6, <2>1
<1>8. d[1] = Untouched /\ Beginning(m)
  <2>1. d[1] = c[1] /\ m[1] = l[1] /\ m[2] = l[2]
    BY <1>2, <1>3, <1>4
  <2>. HIDE DEF m, d
  <2>. QED BY <2>1 DEF History, Beginning
<1>9. History(m, d)
  <2>1. Len(d) = Len(m) + 1 /\ Len(m) = n + 1
    BY <1>1, <1>2, <1>3
  <2>. HIDE DEF m, d, n
  <2>. QED BY <1>2, <1>3, <1>4, <1>7, <1>8, <2>1 DEF History
<1>. QED BY <1>9
-----------------------------------------------------------------------------
(* The calls of the contract. *)

\* A wallet reads back what it wrote: a spend's event carries the new opening.
LEMMA SpendReadBack ==
  ASSUME NEW a \in Accounts, NEW sigma \in Sigmas, NEW v \in Fr,
         NEW ev, ev.sigma = sigma, ev.bTilde = EncryptBalance(v, a, sigma)
  PROVE  /\ OpenSpendable(a, ev).v = v
         /\ CommitOpening(OpenSpendable(a, ev)) = Commit(v, DeriveSpendR(a, sigma))
         /\ Commit(v, DeriveSpendR(a, sigma)) \in Point
         /\ ev.bTilde \in Fr
<1>. DEFINE mask == Digest("ENCRYPTED_BALANCE", <<a>>, sigma)
<1>1. mask \in Fr /\ DeriveSpendR(a, sigma) \in Fr
  <2>1. /\ "ENCRYPTED_BALANCE" \in Domain /\ "SPEND_RANDOMNESS" \in Domain
        /\ <<a>> \in Secret
    BY DEF Domain, Secret
  <2>. QED BY <2>1, DigestType DEF DeriveSpendR
<1>2. ev.bTilde = FrAdd(v, mask)
  BY DEF EncryptBalance
<1>3. OpenSpendable(a, ev) = [v |-> FrMod(ev.bTilde - mask), r |-> DeriveSpendR(a, sigma)]
  BY DEF OpenSpendable
<1>. HIDE DEF mask
<1>4. ev.bTilde \in Fr /\ FrMod(ev.bTilde - mask) = v
  BY <1>1, <1>2, Unmask
<1>5. OpenSpendable(a, ev).v = v /\ OpenSpendable(a, ev).r = DeriveSpendR(a, sigma)
  BY <1>3, <1>4
<1>6. Commit(v, DeriveSpendR(a, sigma)) \in Point
  BY <1>1, FrInFp, CommitType
<1>. QED BY <1>4, <1>5, <1>6 DEF CommitOpening

\* And the recipient reads the amount of a transfer, under the blinding of its commitment.
LEMMA TransferReadBack ==
  ASSUME NEW a \in Accounts, NEW b \in Accounts, NEW sigma \in Sigmas, NEW v \in Fr,
         NEW ev, ev.sigma = sigma, ev.rE = EphemeralRE(a, sigma),
         ev.vTilde = EncryptAmount(v, Ecdh(b, EphemeralRE(a, sigma)), sigma)
  PROVE  /\ DecryptIncoming(b, ev).v = v
         /\ CommitOpening(DecryptIncoming(b, ev)) =
              Commit(v, DeriveTxBlind(Ecdh(b, EphemeralRE(a, sigma)), sigma))
         /\ Commit(v, DeriveTxBlind(Ecdh(b, EphemeralRE(a, sigma)), sigma)) \in Point
         /\ ev.vTilde \in Fr
<1>. DEFINE s == Ecdh(b, EphemeralRE(a, sigma))
            mask == Digest("TX_AMOUNT", s, sigma)
            blind == DeriveTxBlind(s, sigma)
<1>1. s = <<b, a, sigma>> /\ s \in Secret
  <2>1. EphemeralRE(a, sigma)[1] = a /\ EphemeralRE(a, sigma)[2] = sigma
    BY DEF EphemeralRE
  <2>2. s = <<b, a, sigma>>
    BY <2>1 DEF Ecdh
  <2>. QED BY <2>2, SecretType
<1>2. mask \in Fr /\ blind \in Fr
  <2>1. "TX_AMOUNT" \in Domain /\ "TX_BLINDING" \in Domain
    BY DEF Domain
  <2>. HIDE DEF s
  <2>. QED BY <1>1, <2>1, DigestType DEF DeriveTxBlind
<1>3. ev.vTilde = FrAdd(v, mask)
  BY DEF EncryptAmount
<1>4. DecryptIncoming(b, ev) = [v |-> FrMod(ev.vTilde - mask), r |-> blind]
  BY DEF DecryptIncoming
<1>. HIDE DEF mask, blind
<1>5. ev.vTilde \in Fr /\ FrMod(ev.vTilde - mask) = v
  BY <1>2, <1>3, Unmask
<1>6. DecryptIncoming(b, ev).v = v /\ DecryptIncoming(b, ev).r = blind
  BY <1>4, <1>5
<1>7. Commit(v, blind) \in Point
  BY <1>2, FrInFp, CommitType
<1>. QED BY <1>5, <1>6, <1>7 DEF CommitOpening, blind

\* Where the chain is now, and what a wallet that can spend has left: a field element.
LEMMA AtTheEnd ==
  ASSUME History(log, commits), NEW a \in Accounts
  PROVE  /\ log \in Seq(ConfidentialEvent) /\ Len(log) \in Nat /\ Ledger \in Nat
         /\ Purse(a) = WalletOf(log, a, Len(log)).spendable
         /\ Now = commits[Len(log) + 1] /\ Now \in Commitments
         /\ Amount \in Nat /\ Amount \in Fr
         /\ CanSpend(Purse(a), Amount) =>
              /\ Purse(a).v \in Nat
              /\ Purse(a).v - Amount \in Fr
              /\ Purse(a).v - Amount + Amount = Purse(a).v
<1>1. /\ log \in Seq(ConfidentialEvent) /\ commits \in Seq(Commitments)
      /\ Len(commits) = Len(log) + 1 /\ Len(log) \in 2 .. MaxEvents
  BY DEF History
<1>2. Len(log) \in Nat /\ Len(log) \in 0 .. Len(log) /\ Len(log) \in 0 .. MaxEvents
  BY <1>1, Small
<1>3. Purse(a) = WalletOf(log, a, Len(log)).spendable
  BY DEF Purse, Wallet, WalletOf
<1>4. Now = commits[Len(log) + 1] /\ Now \in Commitments
  <2>1. Len(log) + 1 \in 1 .. Len(commits)
    BY <1>1, <1>2
  <2>. QED BY <1>1, <2>1 DEF Now, Onchain
<1>. DEFINE p == Purse(a).v
            m == Cap(Len(log))
<1>5. p \in Nat /\ p <= m /\ m \in Nat /\ m < FrModulus /\ FrModulus \in Nat
      /\ Amount \in Nat /\ Amount \in Fr
  <2>. DEFINE w == WalletOf(log, a, Len(log))
              x == w.spendable.v
              y == w.receiving.v
  <2>1. x \in Nat /\ y \in Nat /\ x + y <= m
    BY <1>2, WalletCovered DEF Covered
  <2>2. m \in Nat /\ m < FrModulus /\ FrModulus \in Nat /\ Amount \in Nat /\ Amount \in Fr
    BY <1>2, CapGrows, Small
  <2>3. p = x
    BY <1>3
  <2>. HIDE DEF x, y, p, m
  <2>. QED BY <2>1, <2>2, <2>3
<1>6. CanSpend(Purse(a), Amount) => p - Amount >= 0
  BY DEF CanSpend
<1>7. CanSpend(Purse(a), Amount) => p - Amount \in 0 .. FrModulus - 1 /\ p - Amount + Amount = p
  <2>. HIDE DEF p, m
  <2>. QED BY <1>5, <1>6
<1>8. Ledger \in Nat
  BY <1>2 DEF Ledger
<1>. QED BY <1>1, <1>2, <1>3, <1>4, <1>5, <1>7, <1>8 DEF Fr

\* A deposit continues the history.
LEMMA DepositContinues ==
  ASSUME History(log, commits), NEW a \in Accounts, Deposit(a)
  PROVE  \E ev, after : Continues(log, commits, ev, after) /\ Emit(ev, after)
<1>. DEFINE ev == [type |-> "deposit", ledger |-> Ledger, to |-> a, amount |-> Amount]
            after == [Now EXCEPT ![a].receivingC = PointAdd(@, Commit(Amount, 0))]
<1>1. Emit(ev, after)
  BY DEF Deposit
<1>2. /\ Ledger \in Nat /\ Amount \in Nat /\ Now = commits[Len(log) + 1] /\ Now \in Commitments
  BY AtTheEnd
<1>3. ev.type = "deposit" /\ ev.ledger = Ledger /\ ev.to = a /\ ev.amount = Amount
  OBVIOUS
<1>4. ev \in ConfidentialEvent
  BY <1>2 DEF ConfidentialEvent, DepositEvent
<1>. HIDE DEF ev
<1>5. after \in Commitments
  <2>1. Now[a].receivingC \in Point /\ Commit(Amount, 0) \in Point
    BY <1>2, CommitType DEF Commitments
  <2>2. PointAdd(Now[a].receivingC, Commit(Amount, 0)) \in Point
    BY <2>1, PointAddType
  <2>. QED BY <1>2, <2>2 DEF Commitments
<1>6. EventExplains(ev, commits[Len(log) + 1], after)
  BY <1>2, <1>3 DEF EventExplains
<1>7. Gain(ev) \in Nat /\ Gain(ev) <= Amount
  BY <1>2, <1>3 DEF Gain
<1>8. \A b : ~ SpendBy(b, ev)
  BY <1>3 DEF SpendBy
<1>. HIDE DEF after
<1>9. Continues(log, commits, ev, after)
  BY <1>3, <1>4, <1>5, <1>6, <1>7, <1>8 DEF Continues
<1>. QED BY <1>1, <1>9

\* A merge continues the history.
LEMMA MergeContinues ==
  ASSUME History(log, commits), NEW a \in Accounts, Merge(a)
  PROVE  \E ev, after : Continues(log, commits, ev, after) /\ Emit(ev, after)
<1>. DEFINE ev == [type |-> "merge", ledger |-> Ledger, account |-> a]
            after == [Now EXCEPT ![a] = [ spendableC |-> PointAdd(@.spendableC, @.receivingC),
                                          receivingC |-> Commit(0, 0) ]]
<1>1. Emit(ev, after)
  BY DEF Merge
<1>2. /\ Ledger \in Nat /\ Amount \in Nat /\ Now = commits[Len(log) + 1] /\ Now \in Commitments
  BY AtTheEnd
<1>3. ev.type = "merge" /\ ev.ledger = Ledger /\ ev.account = a
  OBVIOUS
<1>4. ev \in ConfidentialEvent
  BY <1>2 DEF ConfidentialEvent, MergeEvent
<1>. HIDE DEF ev
<1>5. after \in Commitments
  <2>1. Now[a].receivingC \in Point /\ Now[a].spendableC \in Point /\ Commit(0, 0) \in Point
    BY <1>2, CommitType DEF Commitments
  <2>2. PointAdd(Now[a].spendableC, Now[a].receivingC) \in Point
    BY <2>1, PointAddType
  <2>. QED BY <1>2, <2>1, <2>2 DEF Commitments
<1>6. EventExplains(ev, commits[Len(log) + 1], after)
  BY <1>2, <1>3 DEF EventExplains
<1>7. Gain(ev) \in Nat /\ Gain(ev) <= Amount
  BY <1>2, <1>3 DEF Gain
<1>8. \A b : ~ SpendBy(b, ev)
  BY <1>3 DEF SpendBy
<1>. HIDE DEF after
<1>9. Continues(log, commits, ev, after)
  BY <1>3, <1>4, <1>5, <1>6, <1>7, <1>8 DEF Continues
<1>. QED BY <1>1, <1>9

\* A withdrawal continues the history.
LEMMA WithdrawContinues ==
  ASSUME History(log, commits), NEW a \in Accounts, Withdraw(a)
  PROVE  \E ev, after : Continues(log, commits, ev, after) /\ Emit(ev, after)
<1>. DEFINE p == BuildWithdrawWitness(a, Purse(a), Amount, Sigma).payload
            ev == [type |-> "withdraw", ledger |-> Ledger, from |-> a, sigma |-> p.sigma,
                   bTilde |-> p.bTilde]
            after == [Now EXCEPT ![a].spendableC = p.cSpendNew]
            left == Purse(a).v - Amount
<1>1. Emit(ev, after) /\ CanSpend(Purse(a), Amount)
  BY DEF Withdraw
<1>2. /\ Ledger \in Nat /\ Amount \in Nat /\ Now = commits[Len(log) + 1] /\ Now \in Commitments
      /\ left \in Fr /\ left + Amount = Purse(a).v /\ Purse(a).v \in Nat
      /\ Purse(a) = WalletOf(log, a, Len(log)).spendable /\ Sigma \in Sigmas
  BY <1>1, AtTheEnd, VerdictsAssumption
<1>3. /\ p.sigma = Sigma /\ p.bTilde = EncryptBalance(left, a, Sigma)
      /\ p.cSpendNew = Commit(left, DeriveSpendR(a, Sigma))
  BY DEF BuildWithdrawWitness
<1>. HIDE DEF p, left
<1>4. ev.type = "withdraw" /\ ev.ledger = Ledger /\ ev.from = a /\ ev.sigma = Sigma
      /\ ev.bTilde = p.bTilde
  BY <1>3
<1>5. /\ OpenSpendable(a, ev).v = left
      /\ CommitOpening(OpenSpendable(a, ev)) = p.cSpendNew
      /\ p.cSpendNew \in Point /\ ev.bTilde \in Fr
  <2>. HIDE DEF ev
  <2>. QED BY <1>2, <1>3, <1>4, SpendReadBack
<1>6. ev \in ConfidentialEvent
  BY <1>2, <1>3, <1>5 DEF ConfidentialEvent, WithdrawEvent
<1>. HIDE DEF ev
<1>7. after \in Commitments
  BY <1>2, <1>5 DEF Commitments
<1>8. EventExplains(ev, commits[Len(log) + 1], after)
  BY <1>2, <1>4, <1>5 DEF EventExplains
<1>9. Gain(ev) \in Nat /\ Gain(ev) <= Amount
  BY <1>2, <1>4 DEF Gain
<1>10. \A b \in Accounts : SpendBy(b, ev) =>
         OpenSpendable(b, ev).v + Amount <= WalletOf(log, b, Len(log)).spendable.v
  <2>1. \A b : SpendBy(b, ev) => b = a
    BY <1>4 DEF SpendBy
  <2>. QED BY <1>2, <1>5, <2>1
<1>. HIDE DEF after
<1>11. Continues(log, commits, ev, after)
  BY <1>4, <1>6, <1>7, <1>8, <1>9, <1>10 DEF Continues
<1>. QED BY <1>1, <1>11

\* A transfer between two accounts continues the history.
LEMMA TransferContinues ==
  ASSUME History(log, commits), NEW a \in Accounts, NEW b \in Accounts, a # b, Transfer(a, b)
  PROVE  \E ev, after : Continues(log, commits, ev, after) /\ Emit(ev, after)
<1>. DEFINE p == BuildTransferWitness(a, Purse(a), b, Amount, Sigma).payload
            ev == [type |-> "transfer", ledger |-> Ledger, from |-> a, to |-> b, rE |-> p.rE,
                   vTilde |-> p.vTilde, sigma |-> p.sigma, bTilde |-> p.bTilde]
            spent == [Now EXCEPT ![a].spendableC = p.cSpendNew]
            after == [spent EXCEPT ![b].receivingC = PointAdd(@, p.cTx)]
            left == Purse(a).v - Amount
            rE == EphemeralRE(a, Sigma)
            s == Ecdh(b, rE)
<1>1. Emit(ev, after) /\ CanSpend(Purse(a), Amount)
  BY DEF Transfer
<1>2. /\ Ledger \in Nat /\ Amount \in Nat /\ Now = commits[Len(log) + 1] /\ Now \in Commitments
      /\ left \in Fr /\ left + Amount = Purse(a).v /\ Purse(a).v \in Nat /\ Amount \in Fr
      /\ Purse(a) = WalletOf(log, a, Len(log)).spendable /\ Sigma \in Sigmas
  BY <1>1, AtTheEnd, VerdictsAssumption
<1>3. /\ p.sigma = Sigma /\ p.bTilde = EncryptBalance(left, a, Sigma)
      /\ p.cSpendNew = Commit(left, DeriveSpendR(a, Sigma))
      /\ p.rE = rE /\ p.vTilde = EncryptAmount(Amount, s, Sigma)
      /\ p.cTx = Commit(Amount, DeriveTxBlind(s, Sigma))
  BY DEF BuildTransferWitness
<1>. HIDE DEF p, left
<1>4. ev.type = "transfer" /\ ev.ledger = Ledger /\ ev.from = a /\ ev.to = b /\ ev.sigma = Sigma
      /\ ev.bTilde = p.bTilde /\ ev.rE = rE /\ ev.vTilde = p.vTilde
  BY <1>3
<1>5. /\ OpenSpendable(a, ev).v = left
      /\ CommitOpening(OpenSpendable(a, ev)) = p.cSpendNew
      /\ p.cSpendNew \in Point /\ ev.bTilde \in Fr
  <2>. HIDE DEF ev
  <2>. QED BY <1>2, <1>3, <1>4, SpendReadBack
<1>6. /\ DecryptIncoming(b, ev).v = Amount
      /\ CommitOpening(DecryptIncoming(b, ev)) = p.cTx
      /\ p.cTx \in Point /\ ev.vTilde \in Fr
  <2>. HIDE DEF ev
  <2>. QED BY <1>2, <1>3, <1>4, TransferReadBack
<1>7. ev \in ConfidentialEvent
  <2>1. rE \in Accounts \X Sigmas
    BY <1>2 DEF EphemeralRE
  <2>. QED BY <1>2, <1>3, <1>5, <1>6, <2>1 DEF ConfidentialEvent, TransferEvent
<1>. HIDE DEF ev
<1>8. after \in Commitments
  <2>1. spent \in Commitments
    BY <1>2, <1>5 DEF Commitments
  <2>. HIDE DEF spent
  <2>2. spent[b].receivingC \in Point
    BY <2>1 DEF Commitments
  <2>3. PointAdd(spent[b].receivingC, p.cTx) \in Point
    BY <1>6, <2>2, PointAddType
  <2>. QED BY <2>1, <2>3 DEF Commitments
<1>9. EventExplains(ev, commits[Len(log) + 1], after)
  BY <1>2, <1>4, <1>5, <1>6 DEF EventExplains
<1>10. Gain(ev) \in Nat /\ Gain(ev) <= Amount
  BY <1>2, <1>4, <1>6 DEF Gain
<1>11. \A d \in Accounts : SpendBy(d, ev) =>
         OpenSpendable(d, ev).v + Amount <= WalletOf(log, d, Len(log)).spendable.v
  <2>1. \A d : SpendBy(d, ev) => d = a
    BY <1>4 DEF SpendBy
  <2>. QED BY <1>2, <1>5, <2>1
<1>. HIDE DEF after
<1>12. Continues(log, commits, ev, after)
  BY <1>4, <1>7, <1>8, <1>9, <1>10, <1>11 DEF Continues
<1>. QED BY <1>1, <1>12

\* Every call of the chain continues the history.
LEMMA ChainContinues ==
  ASSUME History(log, commits), ChainStep
  PROVE  \E ev, after : Continues(log, commits, ev, after) /\ Emit(ev, after)
<1>1. Judged \in Accounts /\ \A a \in Holders : a \in Accounts
  BY VerdictsAssumption DEF Holders
<1>2. CASE Deposit(Judged)
  BY <1>1, <1>2, DepositContinues
<1>3. CASE Withdraw(Judged)
  BY <1>1, <1>3, WithdrawContinues
<1>4. CASE \E a \in Holders : Merge(a)
  BY <1>1, <1>4, MergeContinues
<1>5. CASE \E a \in Holders : \E b \in Holders \ {a} : Transfer(a, b)
  <2>1. PICK a \in Holders : \E b \in Holders \ {a} : Transfer(a, b)
    BY <1>5
  <2>2. PICK b \in Holders \ {a} : Transfer(a, b)
    BY <2>1
  <2>. QED BY <1>1, <2>2, TransferContinues
<1>6. \/ Deposit(Judged) \/ Withdraw(Judged)
      \/ \E a \in Holders : Merge(a)
      \/ \E a \in Holders : \E b \in Holders \ {a} : Transfer(a, b)
  BY DEF ChainStep
<1>. QED BY <1>2, <1>3, <1>4, <1>5, <1>6

\* The judged account's deposit and merge begin a history.
LEMMA HistoryBegins == Init => History(log, commits)
<1>. SUFFICES ASSUME Init PROVE History(log, commits)
  OBVIOUS
<1>. DEFINE e == [type |-> "deposit", ledger |-> 1, to |-> Judged, amount |-> 2 * Amount]
            f == [type |-> "merge", ledger |-> 2, account |-> Judged]
            c1 == Untouched
            c2 == [Untouched EXCEPT ![Judged].receivingC = Funded]
            c3 == [Untouched EXCEPT ![Judged].spendableC = Funded]
            l == << e, f >>
            c == << c1, c2, c3 >>
<1>1. log = l /\ commits = c
  BY DEF Init
<1>2. /\ Judged \in Accounts /\ Amount \in Nat /\ 2 * Amount \in Nat /\ 2 * Amount \in Int
      /\ MaxEvents \in Nat /\ 2 <= MaxEvents /\ 0 \in Int
  BY VerdictsAssumption, Small
<1>3. /\ e.type = "deposit" /\ e.ledger = 1 /\ e.to = Judged /\ e.amount = 2 * Amount
      /\ f.type = "merge" /\ f.ledger = 2 /\ f.account = Judged
  OBVIOUS
<1>4. e \in ConfidentialEvent /\ f \in ConfidentialEvent
  BY <1>2 DEF ConfidentialEvent, DepositEvent, MergeEvent
<1>. HIDE DEF e, f
<1>5. Opening0 \in Point /\ Funded \in Point
  BY <1>2, CommitType DEF Opening0, Funded
<1>6. Opening0 = [g |-> 0, h |-> 0]
  BY FieldAssumption DEF Opening0, Commit
<1>7. PointAdd(Opening0, Funded) = Funded
  <2>1. Funded.g \in Fp /\ Funded.h \in Fp /\ Funded = [g |-> Funded.g, h |-> Funded.h]
    BY <1>5 DEF Point
  <2>2. \A x \in Fp : GroupAdd(0, x) = x
    <3>1. \A x \in Fp : 0 + x = x /\ x % FpModulus = x
      BY FieldAssumption DEF Fp
    <3>. QED BY <3>1 DEF GroupAdd
  <2>. QED BY <1>6, <2>1, <2>2 DEF PointAdd
<1>8. c1 \in Commitments /\ c2 \in Commitments /\ c3 \in Commitments
  BY <1>2, <1>5 DEF Untouched, Commitments
<1>9. EventExplains(e, c1, c2) /\ EventExplains(f, c2, c3)
  <2>1. /\ c1[Judged] = [spendableC |-> Opening0, receivingC |-> Opening0]
        /\ c2[Judged] = [spendableC |-> Opening0, receivingC |-> Funded]
        /\ c3[Judged] = [spendableC |-> Funded, receivingC |-> Opening0]
    BY <1>2 DEF Untouched
  <2>2. EventExplains(e, c1, c2)
    <3>1. [c1 EXCEPT ![Judged].receivingC = PointAdd(@, Commit(2 * Amount, 0))] = c2
      BY <1>2, <1>7, <2>1 DEF Funded
    <3>. QED BY <1>3, <3>1 DEF EventExplains
  <2>3. EventExplains(f, c2, c3)
    <3>1. [ spendableC |-> PointAdd(c2[Judged].spendableC, c2[Judged].receivingC),
            receivingC |-> Commit(0, 0) ] = c3[Judged]
      BY <1>7, <2>1 DEF Opening0
    <3>2. [c2 EXCEPT ![Judged] = [ spendableC |-> PointAdd(@.spendableC, @.receivingC),
                                   receivingC |-> Commit(0, 0) ]] = [c2 EXCEPT ![Judged] = c3[Judged]]
      BY <3>1
    <3>3. [c2 EXCEPT ![Judged] = c3[Judged]] = c3
      BY <1>2 DEF Untouched
    <3>. QED BY <1>3, <3>2, <3>3 DEF EventExplains
  <2>. QED BY <2>2, <2>3
<1>. HIDE DEF c1, c2, c3
<1>10. /\ l \in Seq(ConfidentialEvent) /\ Len(l) = 2 /\ l[1] = e /\ l[2] = f
       /\ c \in Seq(Commitments) /\ Len(c) = 3 /\ c[1] = c1 /\ c[2] = c2 /\ c[3] = c3
  BY <1>4, <1>8
<1>. HIDE DEF l, c
<1>11. Gain(e) = 2 * Amount /\ Gain(f) = 0 /\ (\A a : ~ SpendBy(a, e) /\ ~ SpendBy(a, f))
  BY <1>3 DEF Gain, SpendBy
<1>12. Entry(l, c, 1) /\ Entry(l, c, 2)
  <2>1. Cap(0) = 0 /\ Cap(1) = 2 * Amount /\ Cap(2) = 2 * Amount
    BY CapGrows
  <2>2. 1 - 1 = 0 /\ 1 + 1 = 2 /\ 2 - 1 = 1 /\ 2 + 1 = 3
    OBVIOUS
  <2>3. Entry(l, c, 1)
    BY <1>2, <1>3, <1>9, <1>10, <1>11, <2>1, <2>2 DEF Entry
  <2>4. Entry(l, c, 2)
    BY <1>2, <1>3, <1>9, <1>10, <1>11, <2>1, <2>2 DEF Entry
  <2>. QED BY <2>3, <2>4
<1>13. \A k \in 1 .. Len(l) : Entry(l, c, k)
  <2>1. \A k \in 1 .. 2 : k = 1 \/ k = 2
    OBVIOUS
  <2>. QED BY <1>10, <1>12, <2>1
<1>14. Beginning(l) /\ c[1] = Untouched
  BY <1>3, <1>10 DEF Beginning, c1
<1>. QED BY <1>1, <1>2, <1>10, <1>13, <1>14 DEF History
-----------------------------------------------------------------------------
(* The invariant. *)

\* A finished judgement, audit and demonstration, on log l.
JudgementOK(l, x) ==
  /\ x.kind \in Archives /\ x.by = x.verdict.by
  /\ {x.read, x.asked, x.through} \subseteq 0 .. Len(l)
  /\ VerdictSound(l, x.kind, x.through, x.asked, x.read, x.verdict)

AuditOK(l, x) ==
  /\ x.kind = "audit" /\ x.by = "audit"
  /\ {x.read, x.replayed} \subseteq 0 .. Len(l)
  /\ x.ok => x.total = WalletOf(l, Building, x.read).receiving
  /\ ~ x.ok => MovedIn(l, Building, x.replayed, x.read)

SabotageOK(l, x) ==
  /\ x.kind = "sabotage" /\ x.by = "sabotage"
  /\ {x.read, x.through} \subseteq 0 .. Len(l)
  /\ ShowsTransfer(l, x.read) => x.passed \/ MovedIn(l, Judged, x.read, x.through)

\* What a run may be while the log is l.
RunOK(l, x) ==
  \/ x = Idle \/ x = NoVerdict
  \/ x.phase = "health" /\ x.kind \in Archives /\ x.at \in Isolates /\ x.read \in 0 .. Len(l)
  \/ /\ x.phase = "fetch" /\ x.kind \in Archives /\ x.at \in Isolates
     /\ {x.read, x.asked} \subseteq 0 .. Len(l)
  \/ /\ x.phase = "audit" /\ x.replayed \in 0 .. Len(l)
     /\ x.total = WalletOf(l, Building, x.replayed).receiving
  \/ x.phase = "ingest" /\ x.read \in 0 .. Len(l)
  \/ x.phase = "done" /\ (JudgementOK(l, x) \/ AuditOK(l, x) \/ SabotageOK(l, x))

\* What an isolate may be: it keeps a promise exactly while it scans or has a store.
IsolateOK(l, x) ==
  /\ x.promise \in BOOLEAN /\ x.scans \in {0, 1} /\ x.through \in {Cold} \cup 0 .. Len(l)
  /\ x.promise <=> x.scans = 1 \/ x.through # Cold
  /\ x.scans = 1 => x.through = Cold

VerdictsInv ==
  /\ History(log, commits)
  /\ failures \in 0 .. MaxFailures
  /\ DOMAIN isolate = Isolates /\ \A i \in Isolates : IsolateOK(log, isolate[i])
  /\ DOMAIN run = Runs /\ \A r \in Runs : RunOK(log, run[r])

\* What a run says of the past stays true.
LEMMA RunStays ==
  ASSUME NEW l \in Seq(ConfidentialEvent), NEW ev \in ConfidentialEvent, NEW x, RunOK(l, x)
  PROVE  RunOK(Append(l, ev), x)
<1>. DEFINE m == Append(l, ev)
<1>1. /\ Len(l) \in Nat /\ Len(m) = Len(l) + 1 /\ \A k \in 1 .. Len(l) : m[k] = l[k]
      /\ \A a, k : k \in 0 .. Len(l) => WalletOf(m, a, k) = WalletOf(l, a, k)
  BY PositionsStay
<1>. HIDE DEF m
<1>2. \A k \in 0 .. Len(l) : k \in 0 .. Len(m)
  BY <1>1
<1>3. \A a : \A j, k \in 0 .. Len(l) : MovedIn(l, a, j, k) <=> MovedIn(m, a, j, k)
  <2>1. \A j, k \in 0 .. Len(l) : \A i \in j + 1 .. k : i \in 1 .. Len(l)
    BY <1>1
  <2>. QED BY <1>1, <2>1 DEF MovedIn
<1>4. \A k \in 0 .. Len(l) : ShowsTransfer(l, k) <=> ShowsTransfer(m, k)
  <2>. SUFFICES ASSUME NEW k \in 0 .. Len(l)
                PROVE  ShowsTransfer(l, k) <=> ShowsTransfer(m, k)
    OBVIOUS
  <2>1. \A i \in 1 .. k : i \in 1 .. Len(l) /\ \A j \in i + 1 .. k : j \in 1 .. Len(l)
    BY <1>1
  <2>2. \A i \in 1 .. k : m[i] = l[i] /\ \A j \in i + 1 .. k : m[j] = l[j]
    BY <1>1, <2>1
  <2>. QED BY <2>2 DEF ShowsTransfer
<1>5. CASE x = Idle \/ x = NoVerdict
  BY <1>5 DEF RunOK, m
<1>6. CASE x.phase = "health" /\ x.kind \in Archives /\ x.at \in Isolates /\ x.read \in 0 .. Len(l)
  BY <1>2, <1>6 DEF RunOK, m
<1>7. CASE /\ x.phase = "fetch" /\ x.kind \in Archives /\ x.at \in Isolates
           /\ {x.read, x.asked} \subseteq 0 .. Len(l)
  <2>1. {x.read, x.asked} \subseteq 0 .. Len(m)
    BY <1>2, <1>7
  <2>. QED BY <1>7, <2>1 DEF RunOK, m
<1>8. CASE /\ x.phase = "audit" /\ x.replayed \in 0 .. Len(l)
           /\ x.total = WalletOf(l, Building, x.replayed).receiving
  BY <1>1, <1>2, <1>8 DEF RunOK, m
<1>9. CASE x.phase = "ingest" /\ x.read \in 0 .. Len(l)
  BY <1>2, <1>9 DEF RunOK, m
<1>10. CASE x.phase = "done" /\ JudgementOK(l, x)
  <2>1. /\ x.kind \in Archives /\ x.by = x.verdict.by
        /\ x.read \in 0 .. Len(l) /\ x.asked \in 0 .. Len(l) /\ x.through \in 0 .. Len(l)
        /\ VerdictSound(l, x.kind, x.through, x.asked, x.read, x.verdict)
    BY <1>10 DEF JudgementOK
  <2>2. VerdictSound(m, x.kind, x.through, x.asked, x.read, x.verdict)
    BY <1>1, <1>3, <2>1 DEF VerdictSound
  <2>3. {x.read, x.asked, x.through} \subseteq 0 .. Len(m)
    BY <1>2, <2>1
  <2>. QED BY <1>10, <2>1, <2>2, <2>3 DEF RunOK, JudgementOK, m
<1>11. CASE x.phase = "done" /\ AuditOK(l, x)
  <2>1. /\ x.kind = "audit" /\ x.by = "audit"
        /\ x.read \in 0 .. Len(l) /\ x.replayed \in 0 .. Len(l)
        /\ x.ok => x.total = WalletOf(l, Building, x.read).receiving
        /\ ~ x.ok => MovedIn(l, Building, x.replayed, x.read)
    BY <1>11 DEF AuditOK
  <2>2. {x.read, x.replayed} \subseteq 0 .. Len(m)
    BY <1>2, <2>1
  <2>3. AuditOK(m, x)
    BY <1>1, <1>3, <2>1, <2>2 DEF AuditOK
  <2>. QED BY <1>11, <2>3 DEF RunOK, m
<1>12. CASE x.phase = "done" /\ SabotageOK(l, x)
  <2>1. /\ x.kind = "sabotage" /\ x.by = "sabotage"
        /\ x.read \in 0 .. Len(l) /\ x.through \in 0 .. Len(l)
        /\ ShowsTransfer(l, x.read) => x.passed \/ MovedIn(l, Judged, x.read, x.through)
    BY <1>12 DEF SabotageOK
  <2>2. {x.read, x.through} \subseteq 0 .. Len(m)
    BY <1>2, <2>1
  <2>3. SabotageOK(m, x)
    BY <1>1, <1>3, <1>4, <2>1, <2>2 DEF SabotageOK
  <2>. QED BY <1>12, <2>3 DEF RunOK, m
<1>. QED BY <1>5, <1>6, <1>7, <1>8, <1>9, <1>10, <1>11, <1>12 DEF RunOK

\* The invariant holds at the start.
LEMMA VerdictsInit == Init => VerdictsInv
<1>. SUFFICES ASSUME Init PROVE VerdictsInv
  OBVIOUS
<1>1. History(log, commits)
  BY HistoryBegins
<1>2. failures \in 0 .. MaxFailures
  BY VerdictsAssumption DEF Init
<1>3. DOMAIN isolate = Isolates /\ \A i \in Isolates : IsolateOK(log, isolate[i])
  <2>. DEFINE x == [promise |-> FALSE, scans |-> 0, through |-> Cold]
  <2>1. x.promise = FALSE /\ x.scans = 0 /\ x.through = Cold
    OBVIOUS
  <2>2. DOMAIN isolate = Isolates /\ \A i \in Isolates : isolate[i] = x
    BY DEF Init
  <2>. HIDE DEF x
  <2>3. x.scans \in {0, 1} /\ x.scans # 1 /\ x.through \in {Cold} \cup 0 .. Len(log)
    BY <2>1
  <2>4. IsolateOK(log, x)
    BY <2>1, <2>3, Zenon DEF IsolateOK
  <2>. QED BY <2>2, <2>4
<1>4. DOMAIN run = Runs /\ \A r \in Runs : RunOK(log, run[r])
  BY DEF Init, RunOK
<1>. QED BY <1>1, <1>2, <1>3, <1>4 DEF VerdictsInv

\* A call of the contract preserves the invariant.
LEMMA ChainPreserves ==
  ASSUME VerdictsInv, ChainStep
  PROVE  VerdictsInv'
<1>1. PICK ev, after : Continues(log, commits, ev, after) /\ Emit(ev, after)
  BY ChainContinues DEF VerdictsInv
<1>2. /\ Len(log) < MaxEvents /\ log' = Append(log, ev) /\ commits' = Append(commits, after)
      /\ isolate' = isolate /\ run' = run /\ failures' = failures
  BY <1>1 DEF Emit
<1>3. log \in Seq(ConfidentialEvent) /\ ev \in ConfidentialEvent
  BY <1>1 DEF VerdictsInv, History, Continues
<1>4. History(log', commits')
  BY <1>1, <1>2, HistoryGrows DEF VerdictsInv
<1>5. ASSUME NEW i \in Isolates PROVE IsolateOK(log', isolate'[i])
  <2>1. Len(log') = Len(log) + 1 /\ Len(log) \in Nat
    BY <1>2, <1>3, PositionsStay
  <2>2. \A k \in 0 .. Len(log) : k \in 0 .. Len(log')
    BY <2>1
  <2>3. IsolateOK(log, isolate[i])
    BY DEF VerdictsInv
  <2>. QED BY <1>2, <2>2, <2>3 DEF IsolateOK
<1>6. ASSUME NEW r \in Runs PROVE RunOK(log', run'[r])
  <2>1. RunOK(log, run[r])
    BY DEF VerdictsInv
  <2>. QED BY <1>2, <1>3, <2>1, RunStays
<1>. QED BY <1>2, <1>4, <1>5, <1>6 DEF VerdictsInv

\* Which of them a run is, its phase tells.
LEMMA RunPhases ==
  ASSUME NEW l, NEW x, RunOK(l, x)
  PROVE  /\ x.phase = "health" =>
              x.kind \in Archives /\ x.at \in Isolates /\ x.read \in 0 .. Len(l)
         /\ x.phase = "fetch" =>
              /\ x.kind \in Archives /\ x.at \in Isolates
              /\ x.read \in 0 .. Len(l) /\ x.asked \in 0 .. Len(l)
         /\ x.phase = "audit" =>
              /\ x.replayed \in 0 .. Len(l)
              /\ x.total = WalletOf(l, Building, x.replayed).receiving
         /\ x.phase = "ingest" => x.read \in 0 .. Len(l)
         /\ x.phase = "done" =>
              x = NoVerdict \/ JudgementOK(l, x) \/ AuditOK(l, x) \/ SabotageOK(l, x)
         /\ x.phase \in {"idle", "health", "fetch", "audit", "ingest", "done"}
<1>1. Idle.phase = "idle" /\ NoVerdict.phase = "done"
  BY DEF Idle, NoVerdict
<1>. QED BY <1>1 DEF RunOK

\* A step of a server process preserves the invariant.
LEMMA IsolatePreserves ==
  ASSUME VerdictsInv, NEW i \in Isolates,
         StartIngestion(i) \/ Ingested(i) \/ IngestionFails(i)
  PROVE  VerdictsInv'
<1>1. /\ History(log, commits) /\ failures \in 0 .. MaxFailures /\ MaxFailures \in Nat
      /\ DOMAIN isolate = Isolates /\ \A j \in Isolates : IsolateOK(log, isolate[j])
      /\ DOMAIN run = Runs /\ \A r \in Runs : RunOK(log, run[r])
      /\ Len(log) \in 0 .. Len(log) /\ Len(log) # Cold
  BY VerdictsAssumption DEF VerdictsInv, History, Cold
<1>2. log' = log /\ commits' = commits
  BY DEF StartIngestion, Ingested, IngestionFails, chainVars
<1>3. failures' \in 0 .. MaxFailures
  BY <1>1 DEF StartIngestion, Ingested, IngestionFails
<1>4. DOMAIN isolate' = Isolates /\ (\A j \in Isolates : j # i => isolate'[j] = isolate[j])
  BY <1>1 DEF StartIngestion, Ingested, IngestionFails
<1>. DEFINE x == isolate[i]
            y == isolate'[i]
<1>5. /\ x.promise \in BOOLEAN /\ x.scans \in {0, 1} /\ x.through \in {Cold} \cup 0 .. Len(log)
      /\ x.promise <=> x.scans = 1 \/ x.through # Cold
      /\ x.scans = 1 => x.through = Cold
  BY <1>1 DEF IsolateOK
<1>6. CASE StartIngestion(i)
  <2>1. isolate' = [isolate EXCEPT ![i].promise = TRUE, ![i].scans = @ + 1]
        /\ run' = run /\ x.promise = FALSE
    BY <1>5, <1>6 DEF StartIngestion, MustIngest
  <2>2. x.scans = 0 /\ x.through = Cold
    BY <1>5, <2>1
  <2>3. y = [x EXCEPT !.promise = TRUE, !.scans = @ + 1]
    BY <1>1, <2>1
  <2>4. y.promise = TRUE /\ y.scans = 1 /\ y.through = Cold
    BY <2>2, <2>3, <1>5
  <2>. HIDE DEF x, y
  <2>5. IsolateOK(log, y)
    BY <2>4 DEF IsolateOK
  <2>. QED BY <1>1, <1>2, <1>3, <1>4, <2>1, <2>5 DEF VerdictsInv, y
<1>7. CASE Ingested(i)
  <2>1. isolate' = [isolate EXCEPT ![i].scans = @ - 1, ![i].through = Len(log)]
        /\ run' = run /\ x.scans > 0
    BY <1>7 DEF Ingested
  <2>2. x.scans = 1 /\ x.promise = TRUE
    BY <1>5, <2>1
  <2>3. y = [x EXCEPT !.scans = @ - 1, !.through = Len(log)]
    BY <1>1, <2>1
  <2>4. y.promise = TRUE /\ y.scans = 0 /\ y.through = Len(log)
    BY <2>2, <2>3, <1>5
  <2>. HIDE DEF x, y
  <2>5. y.scans \in {0, 1} /\ y.scans # 1 /\ y.through # Cold
        /\ y.through \in {Cold} \cup 0 .. Len(log)
    BY <1>1, <2>4
  <2>6. IsolateOK(log, y)
    BY <2>4, <2>5, Zenon DEF IsolateOK
  <2>. QED BY <1>1, <1>2, <1>3, <1>4, <2>1, <2>6 DEF VerdictsInv, y
<1>8. CASE IngestionFails(i)
  <2>1. /\ isolate' = [isolate EXCEPT ![i].promise = FALSE, ![i].scans = @ - 1]
        /\ run' = [r \in Runs |-> IF r \in Waiting(i) THEN NoVerdict ELSE run[r]]
        /\ x.scans > 0
    BY <1>8 DEF IngestionFails, PromiseAfterFailure
  <2>2. x.scans = 1 /\ x.through = Cold
    BY <1>5, <2>1
  <2>3. y = [x EXCEPT !.promise = FALSE, !.scans = @ - 1]
    BY <1>1, <2>1
  <2>4. y.promise = FALSE /\ y.scans = 0 /\ y.through = Cold
    BY <2>2, <2>3, <1>5
  <2>. HIDE DEF x, y
  <2>5. y.scans \in {0, 1} /\ y.scans # 1 /\ y.through \in {Cold} \cup 0 .. Len(log)
    BY <2>4
  <2>6. IsolateOK(log, y)
    BY <2>4, <2>5, Zenon DEF IsolateOK
  <2>7. DOMAIN run' = Runs /\ (\A r \in Runs : run'[r] = NoVerdict \/ run'[r] = run[r])
    BY <2>1
  <2>8. \A r \in Runs : RunOK(log, run'[r])
    BY <1>1, <2>7 DEF RunOK
  <2>. QED BY <1>1, <1>2, <1>3, <1>4, <2>6, <2>7, <2>8 DEF VerdictsInv, y
<1>. QED BY <1>6, <1>7, <1>8

\* A step of one run preserves the invariant if what becomes of that run is right.
LEMMA RunMoves ==
  ASSUME VerdictsInv, UNCHANGED <<chainVars, isolate, failures>>,
         NEW r \in Runs, NEW x, run' = [run EXCEPT ![r] = x], RunOK(log, x)
  PROVE  VerdictsInv'
<1>1. log' = log /\ commits' = commits /\ isolate' = isolate /\ failures' = failures
  BY DEF chainVars
<1>2. DOMAIN run' = Runs /\ (\A s \in Runs : run'[s] = IF s = r THEN x ELSE run[s])
  BY DEF VerdictsInv
<1>. QED BY <1>1, <1>2 DEF VerdictsInv

\* A step of a run preserves the invariant.
LEMMA RunPreserves ==
  ASSUME VerdictsInv, NEW r \in Runs, BeginJudging(r) \/ BeginAudit(r) \/ BeginSabotage(r) \/ Answer(r)
  PROVE  VerdictsInv'
<1>0. /\ History(log, commits) /\ Len(log) \in Nat /\ Len(log) \in 0 .. Len(log) /\ Len(log) >= 2
      /\ RunOK(log, run[r]) /\ DOMAIN run = Runs
      /\ \A i \in Isolates : isolate[i].through # Cold => isolate[i].through \in 0 .. Len(log)
  BY DEF VerdictsInv, History, IsolateOK
<1>1. CASE BeginJudging(r)
  <2>1. PICK kind \in Kinds[r] \cap Archives, i \in Isolates :
          /\ run' = [run EXCEPT ![r] = [phase |-> "health", kind |-> kind, at |-> i, read |-> Len(log)]]
          /\ UNCHANGED <<chainVars, isolate, failures>>
    BY <1>1 DEF BeginJudging
  <2>. DEFINE x == [phase |-> "health", kind |-> kind, at |-> i, read |-> Len(log)]
  <2>2. x.phase = "health" /\ x.kind = kind /\ x.at = i /\ x.read = Len(log)
    OBVIOUS
  <2>. HIDE DEF x
  <2>3. RunOK(log, x)
    BY <1>0, <2>2 DEF RunOK
  <2>. QED BY <2>1, <2>3, RunMoves DEF x
<1>2. CASE BeginAudit(r)
  <2>. DEFINE x == [ phase |-> "audit", replayed |-> Len(log),
                     total |-> Wallet(Building, Len(log)).receiving ]
  <2>1. run' = [run EXCEPT ![r] = x] /\ UNCHANGED <<chainVars, isolate, failures>>
    BY <1>2 DEF BeginAudit
  <2>2. x.phase = "audit" /\ x.replayed = Len(log)
        /\ x.total = WalletOf(log, Building, Len(log)).receiving
    BY DEF Wallet, WalletOf
  <2>. HIDE DEF x
  <2>3. RunOK(log, x)
    BY <1>0, <2>2 DEF RunOK
  <2>. QED BY <2>1, <2>3, RunMoves
<1>3. CASE BeginSabotage(r)
  <2>. DEFINE x == [phase |-> "ingest", read |-> Len(log)]
  <2>1. run' = [run EXCEPT ![r] = x] /\ UNCHANGED <<chainVars, isolate, failures>>
    BY <1>3 DEF BeginSabotage
  <2>2. x.phase = "ingest" /\ x.read = Len(log)
    OBVIOUS
  <2>. HIDE DEF x
  <2>3. RunOK(log, x)
    BY <1>0, <2>2 DEF RunOK
  <2>. QED BY <2>1, <2>3, RunMoves
<1>4. CASE Health(r)
  <2>1. PICK i \in Isolates :
          /\ run[r].phase = "health" /\ isolate[run[r].at].through # Cold
          /\ run' = [run EXCEPT ![r] = [ phase |-> "fetch", kind |-> @.kind, at |-> i, read |-> @.read,
                                         asked |-> isolate[run[r].at].through ]]
          /\ UNCHANGED <<chainVars, isolate, failures>>
    BY <1>4 DEF Health
  <2>2. run[r].kind \in Archives /\ run[r].at \in Isolates /\ run[r].read \in 0 .. Len(log)
    BY <1>0, <2>1, RunPhases
  <2>. DEFINE x == [ phase |-> "fetch", kind |-> run[r].kind, at |-> i, read |-> run[r].read,
                     asked |-> isolate[run[r].at].through ]
  <2>3. run' = [run EXCEPT ![r] = x]
    BY <1>0, <2>1
  <2>4. x.phase = "fetch" /\ x.kind \in Archives /\ x.at \in Isolates /\ x.read \in 0 .. Len(log)
        /\ x.asked \in 0 .. Len(log)
    BY <1>0, <2>1, <2>2
  <2>. HIDE DEF x
  <2>5. RunOK(log, x)
    BY <2>4 DEF RunOK
  <2>. QED BY <2>1, <2>3, <2>5, RunMoves
<1>5. CASE Judge(r)
  <2>. DEFINE kind == run[r].kind
              read == run[r].read
              asked == run[r].asked
              n == isolate[run[r].at].through
              v == Verdict(kind, n, asked, read)
              x == Finished(kind, read, asked, n, v)
  <2>1. /\ run[r].phase = "fetch" /\ n # Cold
        /\ run' = [run EXCEPT ![r] = x] /\ UNCHANGED <<chainVars, isolate, failures>>
    BY <1>0, <1>5 DEF Judge
  <2>2. kind \in Archives /\ read \in 0 .. Len(log) /\ asked \in 0 .. Len(log)
        /\ run[r].at \in Isolates
    BY <1>0, <2>1, RunPhases
  <2>3. n \in 0 .. Len(log)
    BY <1>0, <2>1, <2>2
  <2>. HIDE DEF kind, read, asked, n
  <2>4. VerdictSound(log, kind, n, asked, read, v)
    BY <1>0, <2>2, <2>3, VerdictsAreSound
  <2>. HIDE DEF v
  <2>5. /\ x.phase = "done" /\ x.by = v.by /\ x.kind = kind /\ x.read = read /\ x.asked = asked
        /\ x.through = n /\ x.verdict = v
    BY DEF Finished
  <2>. HIDE DEF x
  <2>6. JudgementOK(log, x)
    <3>1. {x.read, x.asked, x.through} \subseteq 0 .. Len(log)
      BY <2>2, <2>3, <2>5
    <3>2. VerdictSound(log, x.kind, x.through, x.asked, x.read, x.verdict)
      BY <2>4, <2>5
    <3>. QED BY <2>2, <2>5, <3>1, <3>2 DEF JudgementOK
  <2>7. RunOK(log, x)
    BY <2>5, <2>6 DEF RunOK
  <2>. QED BY <2>1, <2>7, RunMoves
<1>6. CASE Audit(r)
  <2>. DEFINE total == run[r].total
              k == run[r].replayed
              n == Len(log)
              ok == Opened(total, Building, n)
              x == [ phase |-> "done", by |-> "audit", kind |-> "audit", replayed |-> k,
                     total |-> total, read |-> n, ok |-> ok ]
  <2>1. /\ run[r].phase = "audit" /\ run' = [run EXCEPT ![r] = x]
        /\ UNCHANGED <<chainVars, isolate, failures>>
    BY <1>0, <1>6 DEF Audit
  <2>2. k \in 0 .. Len(log) /\ total = WalletOf(log, Building, k).receiving
    BY <1>0, <2>1, RunPhases
  <2>3. Building \in Accounts /\ n \in k .. Len(log) /\ n \in 0 .. Len(log)
    BY <1>0, <2>2, VerdictsAssumption
  <2>. DEFINE t == WalletOf(log, Building, n).receiving
              p == commits[n + 1][Building].receivingC
  <2>4. ok <=> CommitOpening(total) = p
    BY DEF Opened, Opens, Onchain
  <2>5. CommitOpening(t) = p
    BY <1>0, <2>3, WalletOpens DEF VerifyAgainstChain, Opens
  <2>6. /\ total \in Opening /\ t \in Opening
        /\ total.v \in 0 .. FpModulus - 1 /\ t.v \in 0 .. FpModulus - 1
    <3>1. t \in Opening /\ t.v \in 0 .. FpModulus - 1
      BY <1>0, <2>3, InRange
    <3>2. WalletOf(log, Building, k).receiving \in Opening
          /\ WalletOf(log, Building, k).receiving.v \in 0 .. FpModulus - 1
      BY <1>0, <2>2, <2>3, InRange
    <3>. HIDE DEF t, total
    <3>. QED BY <2>2, <3>1, <3>2
  <2>7. ok => total = t
    <3>. HIDE DEF total, t, p, ok
    <3>. QED BY <2>4, <2>5, <2>6, OnlyOpening
  <2>8. ~ ok => MovedIn(log, Building, k, n)
    <3>. SUFFICES ASSUME ~ MovedIn(log, Building, k, n) PROVE ok
      OBVIOUS
    <3>1. commits[n + 1][Building] = commits[k + 1][Building]
      <4>. HIDE DEF k, n, ok, total, t, p
      <4>1. \A i \in k + 1 .. n : ~ Concerns(Building, log[i])
        BY DEF MovedIn
      <4>2. /\ History(log, commits) /\ Building \in Accounts
            /\ k \in 0 .. Len(log) /\ n \in k .. Len(log)
        BY <1>0, <2>2, <2>3
      <4>. QED BY ONLY <4>1, <4>2, Unmoved
    <3>2. CommitOpening(WalletOf(log, Building, k).receiving) = commits[k + 1][Building].receivingC
      BY <1>0, <2>2, <2>3, WalletOpens DEF VerifyAgainstChain, Opens
    <3>. HIDE DEF ok
    <3>. QED BY <2>2, <2>4, <3>1, <3>2
  <2>9. /\ x.phase = "done" /\ x.by = "audit" /\ x.kind = "audit" /\ x.replayed = k
        /\ x.total = total /\ x.read = n /\ x.ok = ok
    OBVIOUS
  <2>10. {x.read, x.replayed} \subseteq 0 .. Len(log)
    BY <2>2, <2>3, <2>9
  <2>. HIDE DEF x, ok, total, k, n
  <2>11. AuditOK(log, x)
    BY <2>7, <2>8, <2>9, <2>10 DEF AuditOK
  <2>12. RunOK(log, x)
    BY <2>9, <2>11 DEF RunOK
  <2>. QED BY <2>1, <2>12, RunMoves
<1>7. CASE Sabotage(r)
  <2>. DEFINE read == run[r].read
              n == Len(log)
              accepted == {kind \in Archives : Verdict(kind, n, n, read).accepted}
              passed == accepted = {"honest"}
              x == [ phase |-> "done", by |-> "sabotage", kind |-> "sabotage", read |-> read,
                     through |-> n, passed |-> passed ]
  <2>1. /\ run[r].phase = "ingest" /\ run' = [run EXCEPT ![r] = x]
        /\ UNCHANGED <<chainVars, isolate, failures>>
    BY <1>0, <1>7 DEF Sabotage
  <2>2. read \in 0 .. Len(log)
    BY <1>0, <2>1, RunPhases
  <2>3. ShowsTransfer(log, read) => passed \/ MovedIn(log, Judged, read, n)
    <3>. SUFFICES ASSUME ShowsTransfer(log, read), ~ MovedIn(log, Judged, read, n) PROVE passed
      OBVIOUS
    <3>1. n \in read .. Len(log) /\ n >= 2
      BY <1>0, <2>2
    <3>. HIDE DEF read, n
    <3>. QED BY <1>0, <2>2, <3>1, LiesAreShown
  <2>4. /\ x.phase = "done" /\ x.by = "sabotage" /\ x.kind = "sabotage" /\ x.read = read
        /\ x.through = n /\ x.passed = passed
    OBVIOUS
  <2>5. {x.read, x.through} \subseteq 0 .. Len(log)
    BY <1>0, <2>2, <2>4
  <2>. HIDE DEF x, passed, read, n
  <2>6. SabotageOK(log, x)
    BY <2>3, <2>4, <2>5 DEF SabotageOK
  <2>7. RunOK(log, x)
    BY <2>4, <2>6 DEF RunOK
  <2>. QED BY <2>1, <2>7, RunMoves
<1>. QED BY <1>1, <1>2, <1>3, <1>4, <1>5, <1>6, <1>7 DEF Answer

\* The chain's calls, the server processes and the runs preserve the invariant.
LEMMA VerdictsStep == VerdictsInv /\ [Next]_vars => VerdictsInv'
<1>. SUFFICES ASSUME VerdictsInv, [Next]_vars PROVE VerdictsInv'
  OBVIOUS
<1>1. CASE ChainStep
  BY <1>1, ChainPreserves
<1>2. CASE \E i \in Isolates : StartIngestion(i) \/ Ingested(i) \/ IngestionFails(i)
  BY <1>2, IsolatePreserves
<1>3. CASE \E r \in Runs : BeginJudging(r) \/ BeginAudit(r) \/ BeginSabotage(r) \/ Answer(r)
  BY <1>3, RunPreserves
<1>4. CASE UNCHANGED vars
  BY <1>4 DEF vars, chainVars, VerdictsInv
<1>. QED BY <1>1, <1>2, <1>3, <1>4 DEF Next
-----------------------------------------------------------------------------
(* The properties. *)

\* A set of positions that is not empty has a last one.
LEMMA LastPosition ==
  ASSUME NEW k \in Nat, NEW S \in SUBSET (1 .. k), S # {}
  PROVE  \E i \in S : \A j \in S : j <= i
<1>. DEFINE G == {n \in Nat : \A T \in SUBSET (1 .. n) : T # {} => \E i \in T : \A j \in T : j <= i}
<1>1. 0 \in G
  <2>1. 1 .. 0 = {}
    OBVIOUS
  <2>. QED BY <2>1
<1>2. ASSUME NEW n \in Nat, n \in G PROVE n + 1 \in G
  <2>. SUFFICES ASSUME NEW T \in SUBSET (1 .. n + 1), T # {}
                PROVE \E i \in T : \A j \in T : j <= i
    OBVIOUS
  <2>1. CASE n + 1 \in T
    BY <2>1
  <2>2. CASE n + 1 \notin T
    <3>1. T \in SUBSET (1 .. n)
      BY <2>2
    <3>. QED BY <1>2, <3>1
  <2>. QED BY <2>1, <2>2
<1>3. k \in G
  <2>. HIDE DEF G
  <2>. QED BY <1>1, <1>2, SetInduction
<1>. QED BY <1>3

\* An account whose last spend is a transfer shows one.
LEMMA LastSpendShows ==
  ASSUME NEW k \in Nat, LastSpend(k) = "transfer"
  PROVE  ShowsTransfer(log, k)
<1>. DEFINE spends == {i \in 1 .. k : /\ log[i].type \in {"withdraw", "transfer"}
                                      /\ log[i].from = Judged}
            last == CHOOSE i \in spends : \A j \in spends : j <= i
<1>1. spends # {} /\ log[last].type = "transfer"
  BY DEF LastSpend
<1>2. last \in spends /\ \A j \in spends : j <= last
  <2>1. \E i \in spends : \A j \in spends : j <= i
    <3>. DEFINE S == spends
    <3>1. S \in SUBSET (1 .. k) /\ S # {}
      BY <1>1
    <3>. HIDE DEF S
    <3>2. \E i \in S : \A j \in S : j <= i
      BY <3>1, LastPosition
    <3>. QED BY <3>2 DEF S
  <2>. HIDE DEF spends
  <2>. QED BY <2>1
<1>. HIDE DEF last
<1>3. last \in 1 .. k /\ log[last].from = Judged
  BY <1>2
<1>4. \A j \in last + 1 .. k : ~ SpendBy(Judged, log[j])
  <2>. SUFFICES ASSUME NEW j \in last + 1 .. k, SpendBy(Judged, log[j]) PROVE FALSE
    OBVIOUS
  <2>1. j \in 1 .. k /\ ~ (j <= last)
    BY <1>3
  <2>2. j \in spends
    BY <2>1 DEF SpendBy
  <2>. HIDE DEF spends
  <2>. QED BY <1>2, <2>1, <2>2
<1>. QED BY <1>1, <1>3, <1>4 DEF ShowsTransfer

\* The finished runs of each kind.
LEMMA FinishedRuns ==
  ASSUME VerdictsInv
  PROVE  /\ \A r \in Judgements : JudgementOK(log, run[r])
         /\ \A r \in Done({"audit"}) : AuditOK(log, run[r])
         /\ \A r \in Done({"sabotage"}) : SabotageOK(log, run[r])
<1>1. ASSUME NEW r \in Runs, run[r].phase = "done", run[r].by # "error"
      PROVE  JudgementOK(log, run[r]) \/ AuditOK(log, run[r]) \/ SabotageOK(log, run[r])
  <2>1. RunOK(log, run[r])
    BY DEF VerdictsInv
  <2>2. NoVerdict.by = "error"
    BY DEF NoVerdict
  <2>. QED BY <1>1, <2>1, <2>2, RunPhases
<1>2. /\ \A x : JudgementOK(log, x) => x.kind \in Archives
      /\ \A x : AuditOK(log, x) => x.kind = "audit"
      /\ \A x : SabotageOK(log, x) => x.kind = "sabotage"
      /\ "audit" \notin Archives /\ "sabotage" \notin Archives
  BY DEF JudgementOK, AuditOK, SabotageOK, Archives
<1>. QED BY <1>1, <1>2 DEF Judgements, Done

\* The invariant gives the type invariant.
LEMMA TypesFollow == VerdictsInv => TypeOK
<1>. SUFFICES ASSUME VerdictsInv PROVE TypeOK
  OBVIOUS
<1>1. Len(commits) = Len(log) + 1 /\ failures \in 0 .. MaxFailures /\ Len(log) \in Nat
  BY DEF VerdictsInv, History
<1>2. ASSUME NEW i \in Isolates
      PROVE  /\ isolate[i].through \in Cold .. Len(log)
             /\ isolate[i].scans \in {0, 1}
             /\ isolate[i].scans = 1 => isolate[i].through = Cold
  <2>1. IsolateOK(log, isolate[i])
    BY DEF VerdictsInv
  <2>. QED BY <1>1, <2>1 DEF IsolateOK, Cold
<1>3. ASSUME NEW r \in Runs
      PROVE  run[r].phase \in {"idle", "health", "fetch", "audit", "ingest", "done"}
  <2>1. RunOK(log, run[r])
    BY DEF VerdictsInv
  <2>. QED BY <2>1, RunPhases
<1>. QED BY <1>1, <1>2, <1>3 DEF TypeOK

\* A cold isolate that keeps a promise is scanning.
LEMMA WaitingFollows == VerdictsInv => NobodyWaitsInVain
<1>. SUFFICES ASSUME VerdictsInv, NEW i \in Isolates, isolate[i].through = Cold,
                     Waiting(i) # {}, ~ MustIngest(i)
              PROVE  isolate[i].scans > 0
  BY DEF NobodyWaitsInVain
<1>1. IsolateOK(log, isolate[i])
  BY DEF VerdictsInv
<1>2. isolate[i].promise
  BY <1>1 DEF MustIngest
<1>3. isolate[i].scans = 1
  BY <1>1, <1>2 DEF IsolateOK
<1>. QED BY <1>3

\* What was accepted is what the wallet held when the chain was read.
LEMMA AcceptedFollows == VerdictsInv => AcceptedIsTrue
<1>. SUFFICES ASSUME VerdictsInv, NEW r \in Judgements, run[r].verdict.accepted
              PROVE  /\ run[r].verdict.reported.spendable = Wallet(Judged, run[r].read).spendable
                     /\ run[r].verdict.reported.receiving = Wallet(Judged, run[r].read).receiving
  BY DEF AcceptedIsTrue
<1>1. JudgementOK(log, run[r])
  BY FinishedRuns
<1>2. SameOpenings(run[r].verdict.reported, WalletOf(log, Judged, run[r].read))
  BY <1>1 DEF JudgementOK, VerdictSound
<1>. QED BY <1>2 DEF SameOpenings, Wallet, WalletOf

\* A faithful archive is refused for what moved.
LEMMA RefusalFollows == VerdictsInv => HonestRefusedOnlyIfMoved
<1>. SUFFICES ASSUME VerdictsInv, NEW r \in Judgements,
                     run[r].kind = "honest", ~ run[r].verdict.accepted
              PROVE  CASE run[r].by = "C3"    -> run[r].through < run[r].asked
                       [] run[r].by = "chain" -> \/ Moved(Judged, run[r].read, run[r].asked)
                                                 \/ Moved(Judged, run[r].asked, run[r].read)
  BY DEF HonestRefusedOnlyIfMoved
<1>1. JudgementOK(log, run[r])
  BY FinishedRuns
<1>2. /\ run[r].by \in {"C3", "chain"}
      /\ run[r].by = "C3" => run[r].through < run[r].asked
      /\ run[r].by = "chain" => \/ MovedIn(log, Judged, run[r].read, run[r].asked)
                                \/ MovedIn(log, Judged, run[r].asked, run[r].read)
  BY <1>1 DEF JudgementOK, VerdictSound
<1>3. \A k, l : MovedIn(log, Judged, k, l) => Moved(Judged, k, l)
  BY DEF MovedIn, Moved
<1>. QED BY <1>2, <1>3

\* Two halves add up to the total they are of.
LEMMA HalvesOfTotal ==
  ASSUME NEW total \in Nat, NEW rA \in Fr, NEW rB \in Fr
  PROVE  HalvesAddUp(total, rA, rB)
<1>. DEFINE half == total \div 2
            rest == total - half
<1>1. half \in Int /\ rest \in Int /\ half + rest = total
  OBVIOUS
<1>2. rA \in Int /\ rB \in Int
  BY FrInFp
<1>. HIDE DEF half, rest
<1>3. PointAdd(Commit(half, rA), Commit(rest, rB)) = Commit(total, GroupAdd(rA, rB))
  <2>1. Commit(half + rest, GroupAdd(rA, rB)) = PointAdd(Commit(half, rA), Commit(rest, rB))
    BY <1>1, <1>2, CommitAdd
  <2>. QED BY <1>1, <2>1
<1>4. GroupAdd(rA, rB) % FpModulus = (rA + rB) % FpModulus
  <2>1. GroupAdd(rA, rB) \in Fp
    BY <1>2, GroupAddType
  <2>2. \A x \in Fp : x % FpModulus = x
    BY FieldAssumption DEF Fp
  <2>. QED BY <2>1, <2>2 DEF GroupAdd
<1>5. Commit(total, GroupAdd(rA, rB)) = Commit(total, rA + rB)
  BY <1>4 DEF Commit
<1>. QED BY <1>3, <1>5 DEF HalvesAddUp, half, rest

\* The audit is exact.
LEMMA AuditFollows == VerdictsInv => AuditIsExact
<1>. SUFFICES ASSUME VerdictsInv, NEW r \in Done({"audit"})
              PROVE  /\ run[r].ok =>
                          /\ run[r].total = Wallet(Building, run[r].read).receiving
                          /\ \A v \in -1 .. FpModulus - 1 :
                               Tampered(v, run[r].total.r, Building, run[r].read) = "opens"
                                 <=> v = run[r].total.v
                          /\ \A rA, rB \in Fr : HalvesAddUp(run[r].total.v, rA, rB)
                     /\ ~ run[r].ok => Moved(Building, run[r].replayed, run[r].read)
  BY DEF AuditIsExact
<1>. DEFINE t == run[r].total
            k == run[r].read
<1>1. /\ k \in 0 .. Len(log)
      /\ run[r].ok => t = WalletOf(log, Building, k).receiving
      /\ ~ run[r].ok => Moved(Building, run[r].replayed, run[r].read)
  <2>1. AuditOK(log, run[r])
    BY FinishedRuns
  <2>. QED BY <2>1 DEF AuditOK, MovedIn, Moved
<1>. SUFFICES ASSUME run[r].ok
              PROVE  /\ t = Wallet(Building, k).receiving
                     /\ \A v \in -1 .. FpModulus - 1 :
                          Tampered(v, t.r, Building, k) = "opens" <=> v = t.v
                     /\ \A rA, rB \in Fr : HalvesAddUp(t.v, rA, rB)
  BY <1>1
<1>2. t = WalletOf(log, Building, k).receiving /\ Building \in Accounts
  BY <1>1, VerdictsAssumption
<1>3. t \in Opening /\ t.v \in 0 .. FpModulus - 1
  <2>. HIDE DEF t, k
  <2>. QED BY <1>1, <1>2, InRange DEF VerdictsInv
<1>4. CommitOpening(t) = commits[k + 1][Building].receivingC
  <2>. HIDE DEF t, k
  <2>. QED BY <1>1, <1>2, WalletOpens DEF VerdictsInv, VerifyAgainstChain, Opens
<1>. HIDE DEF t, k
<1>5. t = Wallet(Building, k).receiving
  BY <1>2 DEF Wallet, WalletOf
<1>6. t.r \in Fp /\ t.r \in Nat /\ t.v \in Nat /\ t = [v |-> t.v, r |-> t.r]
  BY <1>3, FieldAssumption DEF Opening, Fp
<1>7. ASSUME NEW v \in -1 .. FpModulus - 1
      PROVE  Tampered(v, t.r, Building, k) = "opens" <=> v = t.v
  <2>. DEFINE b == t.r
              o == [v |-> v, r |-> b]
  <2>. SUFFICES Tampered(v, b, Building, k) = "opens" <=> v = t.v
    OBVIOUS
  <2>1. v \in Int /\ b \in Int /\ b >= 0 /\ ~ (b < 0)
    BY <1>6, FieldAssumption
  <2>2. CASE v < 0
    <3>1. Tampered(v, b, Building, k) = "awaiting"
      <4>. HIDE DEF b
      <4>1. ~ (v >= 0)
        BY <2>1, <2>2
      <4>. QED BY <2>1, <2>2, <4>1 DEF Tampered
    <3>2. v # t.v
      BY <1>6, <2>2
    <3>. HIDE DEF b
    <3>. QED BY <3>1, <3>2
  <2>3. CASE v >= 0
    <3>1. o \in Opening /\ o.v = v /\ o.r = b /\ v \in 0 .. FpModulus - 1
      BY <1>6, <2>1, <2>3 DEF Opening
    <3>2. o = t <=> v = t.v
      BY <1>6
    <3>3. Tampered(v, b, Building, k) = "opens" <=> Opened(o, Building, k)
      <4>. HIDE DEF b
      <4>1. ~ (v < 0)
        BY <2>1, <2>3
      <4>. QED BY <2>1, <2>3, <4>1 DEF Tampered
    <3>. HIDE DEF o
    <3>4. Opened(o, Building, k) <=> CommitOpening(o) = CommitOpening(t)
      BY <1>4 DEF Opened, Opens, Onchain
    <3>5. CommitOpening(o) = CommitOpening(t) <=> o = t
      BY <1>3, <3>1, OnlyOpening
    <3>. HIDE DEF b
    <3>. QED BY <3>2, <3>3, <3>4, <3>5
  <2>4. v < 0 \/ v >= 0
    BY <2>1
  <2>. QED BY <2>2, <2>3, <2>4
<1>. QED BY <1>5, <1>6, <1>7, HalvesOfTotal

\* The demonstration succeeds.
LEMMA SabotageFollows == VerdictsInv => SabotageIsShown
<1>. SUFFICES ASSUME VerdictsInv, NEW r \in Done({"sabotage"}),
                     LastSpend(run[r].read) = "transfer"
              PROVE  run[r].passed \/ Moved(Judged, run[r].read, run[r].through)
  BY DEF SabotageIsShown
<1>1. SabotageOK(log, run[r])
  BY FinishedRuns
<1>2. run[r].read \in 0 .. Len(log) /\ Len(log) \in Nat
  BY <1>1 DEF SabotageOK, VerdictsInv, History
<1>3. run[r].read \in Nat
  BY <1>2
<1>4. ShowsTransfer(log, run[r].read)
  BY <1>3, LastSpendShows
<1>. QED BY <1>1, <1>4 DEF SabotageOK, MovedIn, Moved
-----------------------------------------------------------------------------
(* The theorems. *)

\* The log is a history: every event explains how the commitments moved, no account
\* is paid more than the bound and none spends what it has not; every server process
\* and every run is as that history allows.
THEOREM VerdictsInvariance == Spec => []VerdictsInv
BY VerdictsInit, VerdictsStep, PTL DEF Spec

\* An isolate runs one ingestion at a time, and none once it has a store.
THEOREM TypeCorrect == Spec => []TypeOK
BY VerdictsInvariance, TypesFollow, PTL

\* Whoever waits on a cold isolate has an ingestion to wait for, whichever requests
\* and failures came before (worker.js, the web archive route).
THEOREM WaitingIsServed == Spec => []NobodyWaitsInVain
BY VerdictsInvariance, WaitingFollows, PTL

\* An archive the judge accepts made the wallet report what the account held when the
\* commitments were read, whether it left events out, altered them or did neither
\* (verdicts.ts, tamper.js).
THEOREM AcceptedTellTruth == Spec => []AcceptedIsTrue
BY VerdictsInvariance, AcceptedFollows, PTL

\* An honest archive is refused only for what changed between two reads (verdicts.ts).
THEOREM RefusalsExplained == Spec => []HonestRefusedOnlyIfMoved
BY VerdictsInvariance, RefusalFollows, PTL

\* The audit publishes what the building holds, no other total opens its commitment
\* under the published blinding, and the total adds up in the open (audit.ts, tamper.tsx).
THEOREM AuditsExact == Spec => []AuditIsExact
BY VerdictsInvariance, AuditFollows, PTL

\* Run on an account whose last spend is a transfer, and that rests, sabotage.mjs
\* accepts the honest archive and no other.
THEOREM SabotagesShown == Spec => []SabotageIsShown
BY VerdictsInvariance, SabotageFollows, PTL
=============================================================================
