---------------------------- MODULE PaymentProofs ----------------------------
(***************************************************************************)
(* For any number of visitors, requests and amounts: no two payments from  *)
(* the guest's wallet spend one opening, none fails on the ledger, what    *)
(* left the guest is what the building received, a visitor who pays twice  *)
(* did so from an opening that already had the first payment out of it,    *)
(* the page's answers implement the promise of module Settlement, and the  *)
(* receipts it keeps are the latest of the payments it answered.           *)
(*                                                                         *)
(* The argument: the guest's commitment changes once per included          *)
(* transaction, so the number of its openings is the sequence number plus  *)
(* one.  A transaction that passed the simulation and may still land was   *)
(* built for the opening of this moment; once another lands, its sequence  *)
(* number is gone.  Every payment that landed therefore spent the opening  *)
(* whose number is its sequence number, and these do not repeat.  As for   *)
(* the answers: a request has one transaction, so it is enough to know     *)
(* where that is (on its way, in the pool, landed) when the page is told.  *)
(* A receipt is new when it is kept, because its request was unanswered.   *)
(***************************************************************************)
EXTENDS Payment, Induction, SequenceTheorems

Seq0 == account[Guest].seq

-----------------------------------------------------------------------------
(* The invariant. *)

Records(S, T)  == [registered : BOOLEAN, seq : S, receiving : Int, openings : T]
AccountRecords == Records(Nat, Seq(Int))

\* One opening per included transaction, and the one there was.
LedgerInv ==
  /\ DOMAIN account = Accounts
  /\ \A a \in Accounts : account[a] \in AccountRecords
  /\ Len(account[Guest].openings) = Seq0 + 1

\* What landed did not fail, and spent the opening of its sequence number.
LandedInv ==
  /\ \A l \in landed : l.ok /\ l.tx.op.built = l.tx.seq /\ l.tx.seq <= Seq0
  /\ \A l, m \in landed : l # m => l.tx.seq # m.tx.seq

\* What was simulated and may still land will be accepted.
Sent == pool \cup {call[v].tx : v \in {w \in Visitors : call[w].phase = "send"}}
SentInv == \A tx \in Sent : tx.seq = Seq0 + 1 => Accepts(tx.op)

\* A transaction is a payment from guest to building for a request somebody made.
IsPayment(tx) ==
  /\ tx.source = Guest
  /\ tx.op.kind = "transfer" /\ tx.op.of = Guest /\ tx.op.to = Building
  /\ tx.op.amount \in Amounts
  /\ tx.seq \in Nat /\ tx.seq <= Seq0 + 1
  /\ tx.name \in Requests /\ told[tx.name] # "unasked"

\* A request has one transaction, built no earlier than those of the visitor's
\* earlier requests.
TransactionsInv ==
  /\ \A tx \in Transactions : IsPayment(tx)
  /\ \A t, u \in Transactions :
       /\ t.name = u.name => t = u
       /\ t.name[1] = u.name[1] /\ t.name[2] < u.name[2] => t.seq <= u.seq

\* A request that has not come to its call has no transaction, and later ones of the
\* visitor have not been made.
RequestInv(v) ==
  request[v] # NoRequest =>
    /\ request[v].no \in 1 .. MaxTries[v] /\ request[v].amount \in Amounts
    /\ told[Current(v)] # "unasked"
    /\ \A k \in 1 .. MaxTries[v] : request[v].no < k => told[<<v, k>>] = "unasked"
    /\ request[v].phase \in {"rebuild", "prove"} =>
         \A tx \in Transactions : tx.name # Current(v)
    /\ request[v].phase = "prove" =>
         request[v] = [ phase |-> "prove", no |-> request[v].no,
                        amount |-> request[v].amount, built |-> request[v].built ]

\* A call that throws says one of two things, and one that polls counts its polls.
CallInv(v) ==
  /\ call[v].phase = "threw" => call[v].why \in {"refused", "unanswered"}
  /\ call[v].phase = "poll" =>
       call[v] = [phase |-> "poll", tx |-> call[v].tx, polls |-> call[v].polls]

RequestsInv ==
  /\ DOMAIN request = Visitors /\ DOMAIN told = Requests /\ DOMAIN call = Visitors
  /\ \A v \in Visitors : RequestInv(v) /\ CallInv(v)

PaymentInv == LedgerInv /\ LandedInv /\ SentInv /\ TransactionsInv /\ RequestsInv

-----------------------------------------------------------------------------
(* Lemmas. *)

LEMMA RequestsAre ==
  /\ \A v \in Visitors : \A n \in 1 .. MaxTries[v] : <<v, n>> \in Requests
  /\ \A r \in Requests : r = <<r[1], r[2]>> /\ r[1] \in Visitors /\ r[2] \in 1 .. MaxTries[r[1]]
  /\ \A v \in Visitors : MaxTries[v] \in Nat
<1>1. \A v \in Visitors : \A n \in 1 .. MaxTries[v] : <<v, n>> \in Requests
  BY DEF Requests
<1>2. \A r \in Requests : r = <<r[1], r[2]>> /\ r[1] \in Visitors /\ r[2] \in 1 .. MaxTries[r[1]]
  BY DEF Requests
<1>3. \A v \in Visitors : MaxTries[v] \in Nat
  BY PaymentAssumption DEF Visitors
<1>. QED BY <1>1, <1>2, <1>3

\* What the three sets of transactions are.
LEMMA InTransactions ==
  /\ pool \subseteq Transactions
  /\ \A l \in landed : l.tx \in Transactions
  /\ \A v \in Visitors : call[v].phase \in {"simulate", "send", "poll", "returned"} =>
       call[v].tx \in Transactions
BY DEF Transactions

\* Fewer transactions, later, are no harder.
LEMMA FewerTransactions ==
  ASSUME TransactionsInv, Transactions' \subseteq Transactions,
         Seq0 \in Nat, Seq0' \in Nat, Seq0 <= Seq0',
         \A r \in Requests : told[r] # "unasked" => told'[r] # "unasked"
  PROVE  TransactionsInv'
<1>1. \A tx \in Transactions' : IsPayment(tx)'
  BY DEF TransactionsInv, IsPayment
<1>2. (\A tx \in Transactions : IsPayment(tx))'
  BY <1>1
<1>3. (\A t, u \in Transactions :
        /\ t.name = u.name => t = u
        /\ t.name[1] = u.name[1] /\ t.name[2] < u.name[2] => t.seq <= u.seq)'
  BY DEF TransactionsInv
<1>. QED BY <1>2, <1>3 DEF TransactionsInv

\* The typed parts of the ledger.
LEMMA LedgerTyped ==
  ASSUME LedgerInv
  PROVE  Seq0 \in Nat /\ Len(account[Guest].openings) \in Nat
BY PaymentAssumption DEF LedgerInv, AccountRecords, Records, Seq0

\* Steps that leave the ledger's accounts and results alone.
LEMMA LedgerKept ==
  ASSUME LedgerInv, LandedInv, UNCHANGED <<account, landed>>
  PROVE  /\ LedgerInv' /\ LandedInv' /\ Seq0' = Seq0
         /\ \A op : Accepts(op)' <=> Accepts(op)
<1>1. Seq0' = Seq0
  BY DEF Seq0
<1>2. LedgerInv'
  BY <1>1 DEF LedgerInv
<1>3. LandedInv'
  BY <1>1 DEF LandedInv
<1>4. \A op : Accepts(op)' <=> Accepts(op)
  BY DEF Accepts, Spendable
<1>. QED BY <1>1, <1>2, <1>3, <1>4

\* A request ends with an outcome; whatever call it had is over.
LEMMA EndKeeps ==
  ASSUME PaymentInv, NEW v \in Visitors, NEW outcome, outcome # "unasked",
         request[v] # NoRequest, EndRequest(v, outcome), UNCHANGED ledgerVars,
         call' \in {call, [call EXCEPT ![v] = NotCalling]}
  PROVE  PaymentInv'
<1>. USE DEF PaymentInv
<1>1. LedgerInv' /\ LandedInv' /\ Seq0' = Seq0 /\ Seq0 \in Nat /\ \A op : Accepts(op)' <=> Accepts(op)
  BY LedgerKept, LedgerTyped DEF ledgerVars
<1>2. \A w \in Visitors : call'[w] = call[w] \/ call'[w].phase = "idle"
  BY DEF RequestsInv, NotCalling
<1>3. Transactions' \subseteq Transactions /\ Sent' \subseteq Sent
  BY <1>2 DEF Transactions, Sent, ledgerVars
<1>4. SentInv'
  BY <1>1, <1>3 DEF SentInv
<1>5. \A r \in Requests : told[r] # "unasked" => told'[r] # "unasked"
  BY DEF EndRequest, RequestsInv
<1>6. TransactionsInv'
  BY <1>1, <1>3, <1>5, FewerTransactions
<1>7. RequestsInv'
  <2>1. DOMAIN request' = Visitors /\ DOMAIN told' = Requests /\ DOMAIN call' = Visitors
    BY DEF EndRequest, RequestsInv
  <2>2. \A w \in Visitors : CallInv(w)'
    BY <1>2 DEF RequestsInv, CallInv
  <2>3. ASSUME NEW w \in Visitors, request'[w] # NoRequest
        PROVE  RequestInv(w)'
    <3>1. w # v /\ request'[w] = request[w]
      BY <2>3 DEF EndRequest, RequestsInv
    <3>2. RequestInv(w) /\ request[w] # NoRequest
      BY <2>3, <3>1 DEF RequestsInv
    <3>3. Current(v) = <<v, request[v].no>> /\ Current(w) = <<w, request[w].no>>
          /\ Current(w)' = Current(w)
      BY <3>1 DEF Current
    <3>4. \A k : told'[<<w, k>>] = told[<<w, k>>] \/ <<w, k>> \notin Requests
      BY <3>1, <3>3 DEF EndRequest, RequestsInv
    <3>5. \A k \in 1 .. MaxTries[w] : told'[<<w, k>>] = told[<<w, k>>]
      BY <3>4, RequestsAre
    <3>6. told'[Current(w)] # "unasked"
      BY <3>2, <3>3, <3>5 DEF RequestInv
    <3>. QED BY <1>3, <3>1, <3>2, <3>3, <3>5, <3>6 DEF RequestInv
  <2>4. \A w \in Visitors : RequestInv(w)'
    BY <2>3 DEF RequestInv
  <2>5. (DOMAIN request = Visitors /\ DOMAIN told = Requests /\ DOMAIN call = Visitors)'
    BY <2>1 DEF Visitors
  <2>6. (\A w \in Visitors : RequestInv(w) /\ CallInv(w))'
    BY <2>2, <2>4 DEF Visitors
  <2>. QED BY <2>5, <2>6 DEF RequestsInv
<1>. QED BY <1>1, <1>4, <1>6, <1>7

\* The call of c moves on, or throws: its transaction stays the same.
LEMMA CallKeeps ==
  ASSUME PaymentInv, NEW c \in Visitors, NEW next,
         call' = [call EXCEPT ![c] = next],
         next.phase \in {"simulate", "send", "poll", "returned"} =>
           /\ call[c].phase \in {"simulate", "send", "poll", "returned"}
           /\ next.tx = call[c].tx,
         next.phase = "send" => Accepts(next.tx.op),
         next.phase = "threw" => next.why \in {"refused", "unanswered"},
         next.phase = "poll" => next = [phase |-> "poll", tx |-> next.tx, polls |-> next.polls],
         pool' = pool \/ (call[c].phase = "send" /\ pool' = pool \cup {call[c].tx}),
         UNCHANGED <<account, landed, pageVars>>
  PROVE  PaymentInv'
<1>. USE DEF PaymentInv
<1>1. LedgerInv' /\ LandedInv' /\ Seq0' = Seq0 /\ Seq0 \in Nat /\ \A op : Accepts(op)' <=> Accepts(op)
  BY LedgerKept, LedgerTyped
<1>2. call'[c] = next /\ \A w \in Visitors \ {c} : call'[w] = call[w]
  BY DEF RequestsInv
<1>3. \A tx \in pool' : tx \in pool \/ (call[c].phase = "send" /\ tx = call[c].tx)
  OBVIOUS
<1>4. Transactions' \subseteq Transactions
  <2>. SUFFICES ASSUME NEW tx \in Transactions' PROVE tx \in Transactions
    OBVIOUS
  <2>1. CASE tx \in pool'
    BY <2>1, <1>3, InTransactions
  <2>2. CASE \E l \in landed : tx = l.tx
    BY <2>2, InTransactions
  <2>3. CASE \E w \in Visitors : /\ call'[w].phase \in {"simulate", "send", "poll", "returned"}
                                 /\ tx = call'[w].tx
    BY <2>3, <1>2, InTransactions
  <2>. QED BY <2>1, <2>2, <2>3 DEF Transactions, Visitors
<1>5. \A tx \in Sent' : tx \in Sent \/ Accepts(tx.op)
  <2>. SUFFICES ASSUME NEW tx \in Sent' PROVE tx \in Sent \/ Accepts(tx.op)
    OBVIOUS
  <2>1. CASE tx \in pool'
    BY <2>1, <1>3 DEF Sent
  <2>2. CASE \E w \in Visitors : call'[w].phase = "send" /\ tx = call'[w].tx
    BY <2>2, <1>2 DEF Sent
  <2>. QED BY <2>1, <2>2 DEF Sent, Visitors
<1>6. SentInv'
  BY <1>1, <1>5 DEF SentInv
<1>7. TransactionsInv'
  BY <1>1, <1>4, FewerTransactions DEF pageVars
<1>8. RequestsInv'
  <2>1. (DOMAIN request = Visitors /\ DOMAIN told = Requests /\ DOMAIN call = Visitors)'
    BY DEF RequestsInv, pageVars, Visitors
  <2>2. \A w \in Visitors : RequestInv(w)'
    BY <1>4 DEF RequestsInv, RequestInv, Current, pageVars
  <2>3. \A w \in Visitors : CallInv(w)'
    BY <1>2 DEF RequestsInv, CallInv
  <2>4. (\A w \in Visitors : RequestInv(w) /\ CallInv(w))'
    BY <2>2, <2>3 DEF Visitors
  <2>. QED BY <2>1, <2>4 DEF RequestsInv
<1>. QED BY <1>1, <1>6, <1>7, <1>8

-----------------------------------------------------------------------------
(* The steps of invoke. *)

LEMMA InvokeProceeds ==
  ASSUME PaymentInv, NEW c \in Visitors, InvokeStep(c), UNCHANGED pageVars
  PROVE  PaymentInv'
<1>1. CASE Simulate(c)
  <2>1. CASE Accepts(call[c].tx.op)
    BY <1>1, <2>1, CallKeeps DEF Simulate, ledgerVars
  <2>2. CASE ~ Accepts(call[c].tx.op)
    BY <1>1, <2>2, CallKeeps DEF Simulate, Threw, ledgerVars
  <2>. QED BY <2>1, <2>2
<1>2. CASE Send(c)
  BY <1>2, CallKeeps DEF Send, Polling
<1>3. CASE Poll(c)
  <2>. DEFINE next == AfterPoll(call[c])
  <2>1. call[c].phase = "poll" /\ call' = [call EXCEPT ![c] = next] /\ UNCHANGED ledgerVars
    BY <1>3 DEF Poll
  <2>2. call[c] = [phase |-> "poll", tx |-> call[c].tx, polls |-> call[c].polls]
    BY <2>1 DEF PaymentInv, RequestsInv, CallInv
  <2>3. \/ next = Returned(call[c].tx)
        \/ next \in {Threw("refused"), Threw("unanswered")}
        \/ next = [call[c] EXCEPT !.polls = @ + 1]
    BY DEF AfterPoll
  <2>4. CASE next = Returned(call[c].tx)
    BY <2>1, <2>4, CallKeeps DEF Returned, ledgerVars
  <2>5. CASE next \in {Threw("refused"), Threw("unanswered")}
    BY <2>1, <2>5, CallKeeps DEF Threw, ledgerVars
  <2>6. CASE next = [call[c] EXCEPT !.polls = @ + 1]
    <3>1. next = [phase |-> "poll", tx |-> call[c].tx, polls |-> call[c].polls + 1]
      BY <2>2, <2>6
    <3>. QED BY <2>1, <3>1, CallKeeps DEF ledgerVars
  <2>. QED BY <2>3, <2>4, <2>5, <2>6
<1>. QED BY <1>1, <1>2, <1>3 DEF InvokeStep

LEMMA InvokeThrows ==
  ASSUME PaymentInv, NEW c \in Visitors, InvokeFails(c), UNCHANGED pageVars
  PROVE  PaymentInv'
<1>1. CASE SimulateFails(c)
  BY <1>1, CallKeeps DEF SimulateFails, Threw, ledgerVars
<1>2. CASE SendRejected(c)
  BY <1>2, CallKeeps DEF SendRejected, Threw, ledgerVars
<1>3. CASE SendUnanswered(c)
  BY <1>3, CallKeeps DEF SendUnanswered, Threw
<1>4. CASE PollFails(c)
  BY <1>4, CallKeeps DEF PollFails, Threw, ledgerVars
<1>. QED BY <1>1, <1>2, <1>3, <1>4 DEF InvokeFails

-----------------------------------------------------------------------------
(* The steps of the ledger. *)

LEMMA ExpireKeeps ==
  ASSUME PaymentInv, NEW tx \in pool, Expire(tx), UNCHANGED pageVars
  PROVE  PaymentInv'
<1>. USE DEF PaymentInv
<1>1. LedgerInv' /\ LandedInv' /\ Seq0' = Seq0 /\ Seq0 \in Nat /\ \A op : Accepts(op)' <=> Accepts(op)
  BY LedgerKept, LedgerTyped DEF Expire
<1>2. Transactions' \subseteq Transactions /\ Sent' \subseteq Sent
  BY DEF Expire, Transactions, Sent
<1>3. SentInv'
  BY <1>1, <1>2 DEF SentInv
<1>4. TransactionsInv'
  BY <1>1, <1>2, FewerTransactions DEF pageVars
<1>5. RequestsInv'
  BY <1>2 DEF RequestsInv, RequestInv, CallInv, Current, Expire, pageVars
<1>. QED BY <1>1, <1>3, <1>4, <1>5

\* An account whose fields change is one still.
WithOpenings(r, x, n) == [r EXCEPT !.openings = x, !.seq = n]
WithMore(r, m)        == [r EXCEPT !.receiving = @ + m]

LEMMA FieldsChanged ==
  ASSUME NEW S, NEW T, NEW x \in T, NEW n \in S, NEW m \in Int,
         NEW r \in Records(S, T)
  PROVE  /\ WithOpenings(r, x, n) \in Records(S, T)
         /\ WithMore(r, m) \in Records(S, T)
         /\ WithOpenings(r, x, n).openings = x
         /\ WithOpenings(r, x, n).seq = n
         /\ WithMore(r, m).receiving = r.receiving + m
<1>1. WithOpenings(r, x, n) \in Records(S, T)
  BY DEF Records, WithOpenings
<1>2. WithMore(r, m) \in Records(S, T)
  BY DEF Records, WithMore
<1>3. WithOpenings(r, x, n).openings = x
  BY DEF Records, WithOpenings
<1>4. WithOpenings(r, x, n).seq = n
  BY DEF Records, WithOpenings
<1>5. WithMore(r, m).receiving = r.receiving + m
  BY DEF Records, WithMore
<1>. QED BY <1>1, <1>2, <1>3, <1>4, <1>5, Zenon

LEMMA AccountChanged ==
  ASSUME NEW r \in AccountRecords, NEW x \in Seq(Int), NEW n \in Nat, NEW m \in Int
  PROVE  /\ WithOpenings(r, x, n) \in AccountRecords
         /\ WithMore(r, m) \in AccountRecords
         /\ WithOpenings(r, x, n).openings = x
         /\ WithOpenings(r, x, n).seq = n
         /\ WithMore(r, m).receiving = r.receiving + m
<1>. DEFINE S == Nat
            T == Seq(Int)
<1>1. x \in T /\ n \in S /\ AccountRecords = Records(S, T)
  BY DEF AccountRecords
<1>. HIDE DEF S, T
<1>. QED BY <1>1, FieldsChanged

\* What an accepted payment does to the guest.
LEMMA PaymentApplied ==
  ASSUME LedgerInv, NEW tx, IsPayment(tx), tx.seq = Seq0 + 1, Accepts(tx.op),
         account' = [Applied(tx.op) EXCEPT ![tx.source].seq = tx.seq]
  PROVE  /\ LedgerInv' /\ Seq0' = Seq0 + 1
         /\ account'[Guest].openings =
              Append(account[Guest].openings, Spendable(Guest) - tx.op.amount)
         /\ account'[Building].receiving = account[Building].receiving + tx.op.amount
<1>. DEFINE guest == account[Guest]
            building == account[Building]
<1>1. /\ Guest \in Accounts /\ Building \in Accounts /\ Guest # Building
      /\ tx.op.amount \in Nat /\ Seq0 \in Nat
  BY PaymentAssumption, LedgerTyped DEF IsPayment
<1>2. /\ guest \in AccountRecords
      /\ building \in AccountRecords
      /\ Len(guest.openings) = Seq0 + 1 /\ guest.openings \in Seq(Int)
  BY <1>1 DEF LedgerInv, AccountRecords, Records
<1>3. Spendable(Guest) \in Int
  BY <1>1, <1>2, ElementOfSeq DEF Spendable
<1>. DEFINE spent == Append(guest.openings, Spendable(Guest) - tx.op.amount)
<1>4. spent \in Seq(Int) /\ Len(spent) = Seq0 + 2
  BY <1>1, <1>2, <1>3, AppendProperties
<1>5. Applied(tx.op) = [account EXCEPT ![Guest].openings = spent,
                                       ![Building].receiving = @ + tx.op.amount]
  BY DEF Applied, IsPayment
<1>6. /\ account'[Guest] = [guest EXCEPT !.openings = spent, !.seq = tx.seq]
      /\ account'[Building] = [building EXCEPT !.receiving = @ + tx.op.amount]
      /\ \A a \in Accounts \ {Guest, Building} : account'[a] = account[a]
      /\ DOMAIN account' = Accounts
  <2>. DEFINE applied == [account EXCEPT ![Guest].openings = spent,
                                        ![Building].receiving = @ + tx.op.amount]
  <2>1. account' = [applied EXCEPT ![Guest].seq = tx.seq]
    BY <1>5 DEF IsPayment
  <2>2. DOMAIN account = Accounts
    BY DEF LedgerInv
  <2>. HIDE DEF spent, guest, building
  <2>3. /\ applied[Guest] = [account[Guest] EXCEPT !.openings = spent]
        /\ applied[Building] = [account[Building] EXCEPT !.receiving = @ + tx.op.amount]
        /\ \A a \in Accounts \ {Guest, Building} : applied[a] = account[a]
        /\ DOMAIN applied = Accounts
    BY <1>1, <2>2
  <2>. HIDE DEF applied
  <2>4. /\ account'[Guest] = [applied[Guest] EXCEPT !.seq = tx.seq]
        /\ \A a \in Accounts \ {Guest} : account'[a] = applied[a]
        /\ DOMAIN account' = Accounts
    BY <1>1, <2>1, <2>3
  <2>5. account'[Guest] = [account[Guest] EXCEPT !.openings = spent, !.seq = tx.seq]
    BY <2>3, <2>4
  <2>6. /\ account'[Building] = [account[Building] EXCEPT !.receiving = @ + tx.op.amount]
        /\ \A a \in Accounts \ {Guest, Building} : account'[a] = account[a]
    BY <1>1, <2>3, <2>4
  <2>. QED BY <2>4, <2>5, <2>6 DEF guest, building
<1>. HIDE DEF spent, guest, building
<1>7. /\ account'[Guest] \in AccountRecords
      /\ account'[Guest].openings = spent /\ account'[Guest].seq = Seq0 + 1
  <2>1. tx.seq \in Nat /\ tx.seq = Seq0 + 1 /\ 0 \in Int
    BY <1>1
  <2>2. account'[Guest] = WithOpenings(guest, spent, tx.seq)
    BY <1>6, Zenon DEF WithOpenings
  <2>3. WithOpenings(guest, spent, tx.seq) \in AccountRecords
        /\ WithOpenings(guest, spent, tx.seq).openings = spent
        /\ WithOpenings(guest, spent, tx.seq).seq = tx.seq
    BY <1>2, <1>4, <2>1, AccountChanged
  <2>. QED BY <2>1, <2>2, <2>3, Zenon
<1>8. /\ account'[Building] \in AccountRecords
      /\ account'[Building].receiving = building.receiving + tx.op.amount
  <2>1. account'[Building] = WithMore(building, tx.op.amount)
    BY <1>6, Zenon DEF WithMore
  <2>2. tx.op.amount \in Int /\ 0 \in Nat
    BY <1>1
  <2>3. /\ WithMore(building, tx.op.amount) \in AccountRecords
        /\ WithMore(building, tx.op.amount).receiving = building.receiving + tx.op.amount
    BY <1>2, <1>4, <2>2, AccountChanged
  <2>. QED BY <2>1, <2>3, Zenon
<1>9. Seq0' = Seq0 + 1
  BY <1>7 DEF Seq0
<1>10. \A a \in Accounts : account'[a] \in AccountRecords
  BY <1>6, <1>7, <1>8 DEF LedgerInv
<1>11. Len(account'[Guest].openings) = Seq0' + 1
  BY <1>1, <1>4, <1>7, <1>9
<1>12. LedgerInv'
  BY <1>6, <1>9, <1>10, <1>11 DEF LedgerInv
<1>. QED BY <1>7, <1>8, <1>9, <1>12 DEF spent, guest, building

LEMMA IncludeKeeps ==
  ASSUME PaymentInv, NEW tx \in pool, Include(tx), UNCHANGED pageVars
  PROVE  PaymentInv'
<1>. USE DEF PaymentInv
<1>1. IsPayment(tx) /\ tx.seq = Seq0 + 1 /\ Accepts(tx.op)
  BY InTransactions DEF Include, TransactionsInv, IsPayment, SentInv, Sent, Seq0
<1>2. LedgerInv' /\ Seq0' = Seq0 + 1 /\ Seq0 \in Nat /\ Seq0' \in Nat
  <2>1. account' = [Applied(tx.op) EXCEPT ![tx.source].seq = tx.seq]
    BY <1>1 DEF Include
  <2>. QED BY <1>1, <2>1, PaymentApplied, LedgerTyped
<1>3. tx.op.built = tx.seq
  BY <1>1, <1>2 DEF Accepts, IsPayment, LedgerInv
<1>. DEFINE entry == [tx |-> tx, ok |-> Accepts(tx.op)]
<1>4. landed' = landed \cup {entry} /\ entry.tx = tx /\ entry.ok
      /\ pool' = pool \ {tx} /\ UNCHANGED call
  BY <1>1 DEF Include
<1>5. LandedInv'
  <2>1. \A l \in landed : l.ok /\ l.tx.op.built = l.tx.seq /\ l.tx.seq <= Seq0 /\ l.tx.seq \in Nat
    BY InTransactions DEF LandedInv, TransactionsInv, IsPayment
  <2>2. \A l \in landed' : l.ok /\ l.tx.op.built = l.tx.seq /\ l.tx.seq <= Seq0'
    BY <1>1, <1>2, <1>3, <1>4, <2>1
  <2>3. ASSUME NEW l \in landed', NEW m \in landed', l # m
        PROVE  l.tx.seq # m.tx.seq
    <3>1. CASE l \in landed /\ m \in landed
      BY <2>3, <3>1 DEF LandedInv
    <3>2. CASE l = entry /\ m \in landed
      BY <3>2, <1>1, <1>2, <1>4, <2>1
    <3>3. CASE l \in landed /\ m = entry
      BY <3>3, <1>1, <1>2, <1>4, <2>1
    <3>. QED BY <3>1, <3>2, <3>3, <2>3, <1>4
  <2>4. (\A l, m \in landed : l # m => l.tx.seq # m.tx.seq)'
    BY <2>3
  <2>. QED BY <2>2, <2>4 DEF LandedInv
<1>6. Transactions' \subseteq Transactions
  <2>. SUFFICES ASSUME NEW t \in Transactions' PROVE t \in Transactions
    OBVIOUS
  <2>1. t \in pool' \/ (\E l \in landed' : t = l.tx)
        \/ \E w \in Visitors : /\ call[w].phase \in {"simulate", "send", "poll", "returned"}
                               /\ t = call[w].tx
    BY <1>4 DEF Transactions, Visitors
  <2>. QED BY <2>1, <1>4, InTransactions
<1>7. TransactionsInv'
  BY <1>2, <1>6, FewerTransactions DEF pageVars
<1>8. SentInv'
  <2>1. Sent' \subseteq Transactions
    BY <1>4, InTransactions DEF Sent
  <2>2. \A t \in Sent' : t.seq \in Nat /\ t.seq <= Seq0 + 1
    BY <2>1 DEF TransactionsInv, IsPayment
  <2>3. \A t \in Sent' : t.seq # Seq0' + 1
    BY <2>2, <1>2
  <2>. QED BY <2>3 DEF SentInv
<1>9. RequestsInv'
  BY <1>4, <1>6 DEF RequestsInv, RequestInv, CallInv, Current, pageVars
<1>. QED BY <1>2, <1>5, <1>7, <1>8, <1>9
-----------------------------------------------------------------------------
(* The steps of a request. *)

\* The request of v changes, and nothing moves on the ledger or in its calls.
LEMMA RequestMoves ==
  ASSUME PaymentInv, NEW v \in Visitors, NEW next,
         request' = [request EXCEPT ![v] = next],
         UNCHANGED chainVars,
         DOMAIN told' = Requests,
         \A r \in Requests : told[r] # "unasked" => told'[r] # "unasked",
         \A w \in Visitors \ {v} : \A k \in 1 .. MaxTries[w] : told'[<<w, k>>] = told[<<w, k>>],
         RequestInv(v)'
  PROVE  PaymentInv'
<1>. USE DEF PaymentInv
<1>1. LedgerInv' /\ LandedInv' /\ Seq0' = Seq0 /\ Seq0 \in Nat /\ \A op : Accepts(op)' <=> Accepts(op)
  BY LedgerKept, LedgerTyped DEF chainVars
<1>2. Transactions' = Transactions /\ Sent' = Sent
  BY DEF Transactions, Sent, chainVars, Visitors
<1>3. SentInv'
  BY <1>1, <1>2 DEF SentInv
<1>4. TransactionsInv'
  BY <1>1, <1>2, FewerTransactions
<1>5. ASSUME NEW w \in Visitors \ {v}, request'[w] # NoRequest
      PROVE  RequestInv(w)'
  <2>1. request'[w] = request[w]
    BY DEF RequestsInv
  <2>2. Current(w)' = Current(w) /\ Current(w) = <<w, request[w].no>>
    BY <2>1 DEF Current
  <2>3. RequestInv(w)
    BY DEF RequestsInv
  <2>4. told'[Current(w)] # "unasked"
    BY <1>5, <2>1, <2>2, <2>3 DEF RequestInv
  <2>. QED BY <1>2, <1>5, <2>1, <2>2, <2>3, <2>4 DEF RequestInv
<1>6. \A w \in Visitors : RequestInv(w)'
  BY <1>5 DEF RequestInv
<1>7. (DOMAIN request = Visitors /\ DOMAIN told = Requests /\ DOMAIN call = Visitors)'
  BY DEF RequestsInv, chainVars, Visitors
<1>8. (\A w \in Visitors : RequestInv(w) /\ CallInv(w))'
  BY <1>6 DEF RequestsInv, CallInv, chainVars, Visitors
<1>9. RequestsInv'
  BY <1>7, <1>8 DEF RequestsInv
<1>. QED BY <1>1, <1>3, <1>4, <1>9

LEMMA SubmitKeeps ==
  ASSUME PaymentInv, NEW v \in Visitors, NEW amount \in Amounts, Submit(v, amount)
  PROVE  PaymentInv'
<1>1. PICK no \in 1 .. MaxTries[v] :
        /\ \A k \in 1 .. MaxTries[v] : told[<<v, k>>] = "unasked" <=> k >= no
        /\ request' = [request EXCEPT ![v] = [phase |-> "rebuild", no |-> no, amount |-> amount]]
        /\ told' = [told EXCEPT ![<<v, no>>] = "running"]
        /\ UNCHANGED chainVars
  BY DEF Submit
<1>2. no \in Nat /\ told[<<v, no>>] = "unasked" /\ <<v, no>> \in Requests
  BY <1>1, RequestsAre
<1>3. DOMAIN told' = Requests /\ \A r \in Requests \ {<<v, no>>} : told'[r] = told[r]
  BY <1>1 DEF PaymentInv, RequestsInv
<1>4. told'[<<v, no>>] = "running"
  BY <1>1, <1>2 DEF PaymentInv, RequestsInv
<1>5. request'[v] = [phase |-> "rebuild", no |-> no, amount |-> amount]
  BY <1>1 DEF PaymentInv, RequestsInv
<1>6. Current(v)' = <<v, no>>
  BY <1>5 DEF Current
<1>7. Transactions' = Transactions
  BY <1>1 DEF Transactions, chainVars, Visitors
<1>8. \A k \in 1 .. MaxTries[v] : no < k => told'[<<v, k>>] = "unasked"
  <2>. TAKE k \in 1 .. MaxTries[v]
  <2>. HAVE no < k
  <2>1. told[<<v, k>>] = "unasked" /\ <<v, k>> \in Requests /\ k # no
    BY <1>1, <1>2, RequestsAre
  <2>. QED BY <1>3, <2>1
<1>9. \A tx \in Transactions : tx.name # <<v, no>>
  BY <1>2 DEF PaymentInv, TransactionsInv, IsPayment
<1>10. RequestInv(v)'
  BY <1>1, <1>4, <1>5, <1>6, <1>7, <1>8, <1>9 DEF RequestInv
<1>11. \A r \in Requests : told[r] # "unasked" => told'[r] # "unasked"
  BY <1>3, <1>4
<1>12. \A w \in Visitors \ {v} : \A k \in 1 .. MaxTries[w] : told'[<<w, k>>] = told[<<w, k>>]
  BY <1>3, RequestsAre
<1>. QED BY <1>1, <1>3, <1>10, <1>11, <1>12, RequestMoves

LEMMA RebuildKeeps ==
  ASSUME PaymentInv, NEW v \in Visitors, Rebuild(v)
  PROVE  PaymentInv'
<1>1. request[v].phase = "rebuild" /\ request[v] # NoRequest /\ UNCHANGED <<chainVars, kept>>
  BY DEF Rebuild, NoRequest
<1>2. PICK built \in DOMAIN account[Guest].openings :
        \/ EndRequest(v, "refused")
        \/ /\ request' = [request EXCEPT ![v] = [ phase |-> "prove", no |-> @.no,
                                                  amount |-> @.amount, built |-> built ]]
           /\ UNCHANGED told
  BY DEF Rebuild
<1>3. CASE EndRequest(v, "refused")
  BY <1>1, <1>3, EndKeeps DEF chainVars, ledgerVars
<1>4. CASE /\ request' = [request EXCEPT ![v] = [ phase |-> "prove", no |-> @.no,
                                                  amount |-> @.amount, built |-> built ]]
           /\ UNCHANGED told
  <2>. DEFINE next == [ phase |-> "prove", no |-> request[v].no,
                        amount |-> request[v].amount, built |-> built ]
  <2>1. request' = [request EXCEPT ![v] = next] /\ request'[v] = next
    BY <1>4 DEF PaymentInv, RequestsInv
  <2>2. Current(v)' = Current(v)
    BY <2>1 DEF Current
  <2>3. Transactions' = Transactions
    BY <1>1 DEF Transactions, chainVars, Visitors
  <2>4. RequestInv(v)
    BY DEF PaymentInv, RequestsInv
  <2>5. RequestInv(v)'
    BY <1>1, <1>4, <2>1, <2>2, <2>3, <2>4 DEF RequestInv
  <2>6. DOMAIN told' = Requests
    BY <1>4 DEF PaymentInv, RequestsInv
  <2>. QED BY <1>1, <1>4, <2>1, <2>5, <2>6, RequestMoves
<1>. QED BY <1>2, <1>3, <1>4

\* The new transaction is for the next sequence number, and the first of its request.
LEMMA InvokeKeeps ==
  ASSUME PaymentInv, NEW v \in Visitors, ProveAndInvoke(v)
  PROVE  PaymentInv'
<1>. USE DEF PaymentInv
<1>. DEFINE new == [ source |-> Guest, seq |-> Seq0 + 1,
                     op |-> Transfer(Guest, Building, request[v].amount, request[v].built),
                     name |-> Current(v) ]
<1>1. /\ request[v].phase = "prove" /\ request[v] # NoRequest
      /\ call' = [call EXCEPT ![v] = [phase |-> "simulate", tx |-> new]]
      /\ request' = [request EXCEPT ![v].phase = "submit"]
      /\ UNCHANGED <<account, pool, landed, told, kept>>
  BY DEF ProveAndInvoke, Invoke, NoRequest, ledgerVars, Seq0
<1>2. LedgerInv' /\ LandedInv' /\ Seq0' = Seq0 /\ Seq0 \in Nat /\ \A op : Accepts(op)' <=> Accepts(op)
  BY <1>1, LedgerKept, LedgerTyped
<1>3. /\ call'[v] = [phase |-> "simulate", tx |-> new]
      /\ \A w \in Visitors \ {v} : call'[w] = call[w] /\ request'[w] = request[w]
      /\ request'[v] = [request[v] EXCEPT !.phase = "submit"]
  BY <1>1 DEF RequestsInv
<1>4. RequestInv(v) /\ Current(v) = <<v, request[v].no>> /\ request[v].no \in 1 .. MaxTries[v]
      /\ request[v].amount \in Amounts /\ Current(v) \in Requests /\ request[v].no \in Nat
  BY <1>1, RequestsAre DEF RequestsInv, RequestInv, Current
<1>5. /\ request'[v].phase = "submit" /\ request'[v].no = request[v].no
      /\ request'[v].amount = request[v].amount
  <2>1. request[v] = [ phase |-> "prove", no |-> request[v].no,
                       amount |-> request[v].amount, built |-> request[v].built ]
    BY <1>1, <1>4 DEF RequestInv
  <2>. QED BY <1>3, <2>1
<1>6. Transactions' \subseteq Transactions \cup {new}
  <2>. SUFFICES ASSUME NEW t \in Transactions', t # new PROVE t \in Transactions
    OBVIOUS
  <2>1. CASE t \in pool \/ \E l \in landed : t = l.tx
    BY <2>1, InTransactions
  <2>2. CASE \E w \in Visitors : /\ call'[w].phase \in {"simulate", "send", "poll", "returned"}
                                 /\ t = call'[w].tx
    BY <2>2, <1>3, InTransactions
  <2>. QED BY <2>1, <2>2, <1>1 DEF Transactions, Visitors
<1>7. \A tx \in Transactions : tx.name # Current(v)
  BY <1>1, <1>4 DEF RequestInv
<1>8. IsPayment(new)
  BY <1>1, <1>2, <1>4 DEF IsPayment, Transfer, RequestInv
<1>9. SentInv'
  <2>1. Sent' \subseteq Sent
    BY <1>1, <1>3 DEF Sent, Visitors
  <2>. QED BY <1>2, <2>1 DEF SentInv
<1>10. \A t \in Transactions' : IsPayment(t) /\ (t \in Transactions \/ t = new)
  BY <1>6, <1>8 DEF TransactionsInv
<1>. HIDE DEF new
<1>11. new.name = <<v, request[v].no>> /\ new.seq = Seq0 + 1
  BY <1>4 DEF new
<1>12. TransactionsInv'
  <2>1. (\A tx \in Transactions : IsPayment(tx))'
    BY <1>1, <1>2, <1>10 DEF IsPayment
  <2>2. ASSUME NEW t \in Transactions', NEW u \in Transactions'
        PROVE  /\ t.name = u.name => t = u
               /\ t.name[1] = u.name[1] /\ t.name[2] < u.name[2] => t.seq <= u.seq
    <3>1. CASE t \in Transactions /\ u \in Transactions
      BY <3>1 DEF TransactionsInv
    <3>2. CASE t \in Transactions /\ u = new
      BY <3>2, <1>4, <1>7, <1>10, <1>11 DEF IsPayment
    <3>3. CASE t = new /\ u \in Transactions
      <4>1. u.name # t.name
        BY <3>3, <1>4, <1>7, <1>11
      <4>2. ASSUME t.name[1] = u.name[1], t.name[2] < u.name[2] PROVE FALSE
        <5>1. u.name = <<v, u.name[2]>> /\ u.name[2] \in 1 .. MaxTries[v]
              /\ request[v].no < u.name[2] /\ told[u.name] # "unasked"
          BY <3>3, <4>2, <1>10, <1>11, RequestsAre DEF IsPayment
        <5>. QED BY <5>1, <1>1, <1>4 DEF RequestInv
      <4>. QED BY <4>1, <4>2
    <3>4. CASE t = new /\ u = new
      BY <3>4, <1>4, <1>11
    <3>. QED BY <3>1, <3>2, <3>3, <3>4, <1>10
  <2>3. (\A t, u \in Transactions :
          /\ t.name = u.name => t = u
          /\ t.name[1] = u.name[1] /\ t.name[2] < u.name[2] => t.seq <= u.seq)'
    BY <2>2
  <2>. QED BY <2>1, <2>3 DEF TransactionsInv
<1>13. RequestInv(v)'
  <2>1. Current(v)' = Current(v)
    BY <1>4, <1>5 DEF Current
  <2>. QED BY <1>1, <1>4, <1>5, <2>1 DEF RequestInv
<1>14. ASSUME NEW w \in Visitors \ {v} PROVE RequestInv(w)'
  <2>1. Current(w)' = Current(w) /\ Current(w) = <<w, request[w].no>> /\ Current(w) # new.name
    BY <1>3, <1>11 DEF Current
  <2>2. RequestInv(w)
    BY DEF RequestsInv
  <2>. QED BY <1>1, <1>3, <1>10, <2>1, <2>2 DEF RequestInv
<1>15. RequestsInv'
  <2>1. (DOMAIN request = Visitors /\ DOMAIN told = Requests /\ DOMAIN call = Visitors)'
    BY <1>1 DEF RequestsInv, Visitors
  <2>2. \A w \in Visitors : CallInv(w)'
    BY <1>3 DEF RequestsInv, CallInv
  <2>3. (\A w \in Visitors : RequestInv(w) /\ CallInv(w))'
    BY <1>13, <1>14, <2>2 DEF Visitors
  <2>. QED BY <2>1, <2>3 DEF RequestsInv
<1>. QED BY <1>2, <1>9, <1>12, <1>15
\* A request that has ended, one way or another.
LEMMA EndingsKeep ==
  ASSUME PaymentInv, NEW v \in Visitors,
         RefuseAmount(v) \/ StageFails(v) \/ Done(v) \/ Failed(v) \/ CutOff(v)
  PROVE  PaymentInv'
<1>1. CASE RefuseAmount(v) \/ StageFails(v)
  BY <1>1, EndKeeps DEF RefuseAmount, StageFails, NoRequest, chainVars, ledgerVars
<1>2. CASE Done(v)
  <2>1. /\ request[v] # NoRequest /\ EndRequest(v, "done") /\ UNCHANGED ledgerVars
        /\ call' = [call EXCEPT ![v] = NotCalling]
    BY <1>2 DEF Done, NoRequest
  <2>. QED BY <2>1, EndKeeps
<1>3. CASE Failed(v)
  <2>1. call[v].why \in {"refused", "unanswered"}
    BY <1>3 DEF Failed, PaymentInv, RequestsInv, CallInv
  <2>2. /\ request[v] # NoRequest /\ EndRequest(v, call[v].why) /\ UNCHANGED ledgerVars
        /\ call' = [call EXCEPT ![v] = NotCalling]
    BY <1>3 DEF Failed, NoRequest
  <2>. QED BY <2>1, <2>2, EndKeeps
<1>4. CASE CutOff(v)
  BY <1>4, EndKeeps DEF CutOff
<1>. QED BY <1>1, <1>2, <1>3, <1>4

-----------------------------------------------------------------------------
(* The invariant, and what follows from it. *)

LEMMA InitEstablishes == Init => PaymentInv
<1>. SUFFICES ASSUME Init PROVE PaymentInv
  OBVIOUS
<1>. USE DEF Init
<1>1. LedgerInv
  <2>1. \A x \in Int : <<x>> \in Seq(Int) /\ Len(<<x>>) = 1
    OBVIOUS
  <2>2. \A a \in Accounts : account[a] =
          [ registered |-> TRUE, seq |-> 0, receiving |-> 0,
            openings |-> <<IF a = Guest THEN Funds ELSE 0>> ]
    OBVIOUS
  <2>3. \A a \in Accounts : (IF a = Guest THEN Funds ELSE 0) \in Int
    BY PaymentAssumption
  <2>4. \A a \in Accounts : account[a] \in AccountRecords
    BY <2>1, <2>2, <2>3 DEF AccountRecords, Records
  <2>5. Guest \in Accounts
    BY PaymentAssumption
  <2>6. Len(account[Guest].openings) = Seq0 + 1
    <3>1. account[Guest].seq = 0 /\ account[Guest].openings = <<IF Guest = Guest THEN Funds ELSE 0>>
      BY <2>2, <2>5, Zenon
    <3>2. Len(account[Guest].openings) = 1
      BY <2>1, <2>3, <2>5, <3>1, Zenon
    <3>3. Seq0 = 0
      BY <3>1, Zenon DEF Seq0
    <3>4. 1 = 0 + 1
      OBVIOUS
    <3>. QED BY <3>2, <3>3, <3>4, Zenon
  <2>. QED BY <2>4, <2>6 DEF LedgerInv
<1>2. \A v \in Visitors : request[v] = NoRequest /\ call[v].phase = "idle"
  BY DEF NotCalling, Visitors
<1>3. Transactions = {} /\ Sent = {}
  BY <1>2 DEF Transactions, Sent
<1>4. RequestsInv
  BY <1>2 DEF RequestsInv, RequestInv, CallInv, Visitors
<1>. QED BY <1>1, <1>3, <1>4 DEF PaymentInv, LandedInv, SentInv, TransactionsInv

LEMMA NextKeeps == PaymentInv /\ [Next]_vars => PaymentInv'
<1>. SUFFICES ASSUME PaymentInv, [Next]_vars PROVE PaymentInv'
  OBVIOUS
<1>1. ASSUME NEW v \in Visitors, NEW amount \in Amounts, Submit(v, amount) PROVE PaymentInv'
  BY <1>1, SubmitKeeps
<1>2. ASSUME NEW v \in Visitors, ServerStep(v) PROVE PaymentInv'
  <2>1. CASE InvokeStep(v) /\ UNCHANGED pageVars
    BY <2>1, InvokeProceeds DEF Visitors
  <2>. QED BY <1>2, <2>1, EndingsKeep, RebuildKeeps, InvokeKeeps DEF ServerStep
<1>3. ASSUME NEW v \in Visitors,
             StageFails(v) \/ CutOff(v) \/ (InvokeFails(v) /\ UNCHANGED pageVars)
      PROVE  PaymentInv'
  BY <1>3, EndingsKeep, InvokeThrows
<1>4. CASE LedgerStep /\ UNCHANGED pageVars
  BY <1>4, IncludeKeeps, ExpireKeeps DEF LedgerStep
<1>5. CASE UNCHANGED vars
  <2>1. LedgerInv' /\ LandedInv' /\ Seq0' = Seq0 /\ Seq0 \in Nat /\ \A op : Accepts(op)' <=> Accepts(op)
    BY <1>5, LedgerKept, LedgerTyped DEF PaymentInv, vars, chainVars
  <2>2. Transactions' = Transactions /\ Sent' = Sent
    BY <1>5 DEF Transactions, Sent, vars, chainVars, Visitors
  <2>3. SentInv'
    BY <2>1, <2>2 DEF PaymentInv, SentInv
  <2>4. TransactionsInv'
    BY <1>5, <2>1, <2>2, FewerTransactions DEF PaymentInv, vars, pageVars
  <2>5. RequestsInv'
    BY <1>5, <2>2 DEF PaymentInv, RequestsInv, RequestInv, CallInv, Current, vars, chainVars, pageVars
  <2>. QED BY <2>1, <2>3, <2>4, <2>5 DEF PaymentInv
<1>. QED BY <1>1, <1>2, <1>3, <1>4, <1>5 DEF Next

\* The invariant of the payment flow (pay/route.ts, payment-flow.ts, client.ts invoke):
\* a transaction that may still be accepted was built for the opening of this moment.
THEOREM PaymentInvariance == Spec => []PaymentInv
<1>. QED BY InitEstablishes, NextKeeps, PTL DEF Spec

-----------------------------------------------------------------------------
(* The openings are the payments, one by one. *)

SpendInv ==
  /\ \A l \in landed : l.tx.seq \in 1 .. Seq0
  /\ \A l \in landed : account[Guest].openings[l.tx.seq + 1]
                         = account[Guest].openings[l.tx.seq] - l.tx.op.amount
  /\ \A i \in 1 .. Seq0 : \E l \in landed : l.tx.seq = i
  /\ Spendable(Guest) + account[Building].receiving = Funds

LEMMA SpendKept ==
  ASSUME SpendInv, UNCHANGED <<account, landed>>
  PROVE  SpendInv'
BY DEF SpendInv, Spendable, Seq0

LEMMA IncludeSpends ==
  ASSUME PaymentInv, SpendInv, NEW tx \in pool, Include(tx), UNCHANGED pageVars
  PROVE  SpendInv'
<1>. DEFINE before == account[Guest].openings
            after == account'[Guest].openings
            last == Spendable(Guest)
<1>1. IsPayment(tx) /\ tx.seq = Seq0 + 1 /\ Accepts(tx.op) /\ LedgerInv
  BY InTransactions DEF PaymentInv, Include, TransactionsInv, IsPayment, SentInv, Sent, Seq0
<1>2. /\ Seq0' = Seq0 + 1 /\ after = Append(before, last - tx.op.amount)
      /\ account'[Building].receiving = account[Building].receiving + tx.op.amount
  <2>1. account' = [Applied(tx.op) EXCEPT ![tx.source].seq = tx.seq]
    BY <1>1 DEF Include
  <2>. QED BY <1>1, <2>1, PaymentApplied
<1>3. /\ Guest \in Accounts /\ Building \in Accounts /\ Guest # Building
      /\ tx.op.amount \in Nat /\ Seq0 \in Nat /\ tx.seq \in Nat /\ Funds \in Nat
  BY <1>1, PaymentAssumption, LedgerTyped DEF IsPayment
<1>4. /\ before \in Seq(Int) /\ Len(before) = Seq0 + 1
      /\ account[Building].receiving \in Int /\ account[Guest] \in AccountRecords
  BY <1>1, <1>3 DEF LedgerInv, AccountRecords, Records
<1>5. last = before[Seq0 + 1] /\ last \in Int
  <2>1. last = before[Len(before)]
    BY DEF Spendable
  <2>. HIDE DEF before, last
  <2>. QED BY <1>3, <1>4, <2>1, ElementOfSeq
<1>6. account[Guest].openings[Len(account[Guest].openings)]' = after[Len(after)]
  OBVIOUS
<1>7. Spendable(Guest)' = after[Len(after)]
  BY <1>6 DEF Spendable
<1>8. landed' = landed \cup {[tx |-> tx, ok |-> Accepts(tx.op)]}
  BY DEF Include
<1>. HIDE DEF before, after, last
<1>9. /\ Len(after) = Seq0 + 2 /\ after[Seq0 + 2] = last - tx.op.amount
      /\ \A i \in 1 .. Seq0 + 1 : after[i] = before[i]
  BY <1>2, <1>3, <1>4, <1>5, AppendProperties
<1>10. \A l \in landed' : l.tx.seq \in 1 .. Seq0'
  BY <1>1, <1>2, <1>3, <1>8 DEF SpendInv
<1>11. ASSUME NEW l \in landed'
       PROVE  after[l.tx.seq + 1] = after[l.tx.seq] - l.tx.op.amount
  <2>1. CASE l \in landed
    <3>1. l.tx.seq \in 1 .. Seq0 /\ before[l.tx.seq + 1] = before[l.tx.seq] - l.tx.op.amount
      BY <2>1 DEF SpendInv, before
    <3>. QED BY <1>3, <1>9, <3>1
  <2>2. CASE l \notin landed
    <3>1. l.tx = tx
      BY <1>8, <2>2
    <3>2. tx.seq + 1 = Seq0 + 2 /\ tx.seq \in 1 .. Seq0 + 1
      BY <1>1, <1>3
    <3>. QED BY <1>1, <1>5, <1>9, <3>1, <3>2
  <2>. QED BY <2>1, <2>2
<1>12. ASSUME NEW i \in 1 .. Seq0' PROVE \E l \in landed' : l.tx.seq = i
  <2>1. CASE i \in 1 .. Seq0
    BY <1>8, <2>1 DEF SpendInv
  <2>2. CASE i = Seq0 + 1
    <3>. DEFINE entry == [tx |-> tx, ok |-> Accepts(tx.op)]
    <3>1. entry \in landed' /\ entry.tx = tx
      BY <1>8
    <3>. HIDE DEF entry
    <3>. QED BY <1>1, <2>2, <3>1
  <2>. QED BY <1>2, <1>3, <2>1, <2>2
<1>13. (Spendable(Guest) + account[Building].receiving = Funds)'
  <2>1. last + account[Building].receiving = Funds
    BY DEF SpendInv, last
  <2>. QED BY <1>2, <1>3, <1>4, <1>5, <1>7, <1>9, <2>1
<1>14. (\A l \in landed : account[Guest].openings[l.tx.seq + 1]
                            = account[Guest].openings[l.tx.seq] - l.tx.op.amount)'
  BY <1>11 DEF after
<1>15. (\A i \in 1 .. Seq0 : \E l \in landed : l.tx.seq = i)'
  BY <1>12
<1>. QED BY <1>10, <1>13, <1>14, <1>15 DEF SpendInv

LEMMA InitSpends == Init => SpendInv
<1>. SUFFICES ASSUME Init PROVE SpendInv
  OBVIOUS
<1>1. /\ account[Guest].openings = <<Funds>> /\ account[Guest].seq = 0
      /\ account[Building].receiving = 0
  BY PaymentAssumption DEF Init
<1>2. Seq0 = 0 /\ Spendable(Guest) = Funds /\ Funds \in Nat
  BY <1>1, PaymentAssumption DEF Seq0, Spendable
<1>. QED BY <1>1, <1>2 DEF SpendInv, Init

LEMMA NextSpends == PaymentInv /\ SpendInv /\ [Next]_vars => SpendInv'
<1>. SUFFICES ASSUME PaymentInv, SpendInv, [Next]_vars PROVE SpendInv'
  OBVIOUS
<1>1. CASE LedgerStep /\ UNCHANGED pageVars
  BY <1>1, IncludeSpends, SpendKept DEF LedgerStep, Expire
<1>2. CASE ~ (LedgerStep /\ UNCHANGED pageVars)
  <2>1. UNCHANGED <<account, landed>>
    BY <1>2 DEF Next, vars, chainVars, ledgerVars, pageVars, Submit, ServerStep, RefuseAmount,
       Rebuild, ProveAndInvoke, Invoke, Done, Failed, StageFails, CutOff, InvokeStep, InvokeFails,
       Simulate, Send, Poll, SimulateFails, SendRejected, SendUnanswered, PollFails
  <2>. QED BY <2>1, SpendKept
<1>. QED BY <1>1, <1>2

\* However many visitors pay from the shared guest wallet, no two payments that landed
\* spend one opening or serve one request, none failed on the ledger, and what left the
\* guest's openings is, payment by payment, what the building received.
THEOREM OneSpend == Spec => []NothingSpentTwice
<1>1. PaymentInv => OneSpendPerOpening /\ NoneFailsOnTheLedger
  <2>. SUFFICES ASSUME PaymentInv PROVE OneSpendPerOpening /\ NoneFailsOnTheLedger
    OBVIOUS
  <2>. USE DEF PaymentInv
  <2>1. NoneFailsOnTheLedger
    BY DEF LandedInv, NoneFailsOnTheLedger
  <2>2. ASSUME NEW l \in landed, NEW m \in landed, l # m
        PROVE  l.tx.name # m.tx.name /\ l.tx.op.built # m.tx.op.built
    <3>1. l.tx.seq # m.tx.seq /\ l.tx.op.built = l.tx.seq /\ m.tx.op.built = m.tx.seq
      BY <2>2 DEF LandedInv
    <3>2. l.tx.name = m.tx.name => l.tx = m.tx
      BY InTransactions DEF TransactionsInv
    <3>. QED BY <3>1, <3>2
  <2>. QED BY <2>1, <2>2 DEF OneSpendPerOpening
<1>2. PaymentInv /\ SpendInv => OpeningsArePayments
  <2>. SUFFICES ASSUME PaymentInv, SpendInv PROVE OpeningsArePayments
    OBVIOUS
  <2>1. \A l \in landed : l.tx.op.built = l.tx.seq
    BY DEF PaymentInv, LandedInv
  <2>2. Len(account[Guest].openings) - 1 = Seq0
    BY LedgerTyped DEF PaymentInv, LedgerInv
  <2>. QED BY <2>1, <2>2 DEF SpendInv, OpeningsArePayments
<1>3. PaymentInv /\ SpendInv => NothingSpentTwice
  BY <1>1, <1>2 DEF NothingSpentTwice, SpendInv
<1>4. Spec => []PaymentInv /\ []SpendInv
  BY InitEstablishes, NextKeeps, InitSpends, NextSpends, PTL DEF Spec
<1>. QED BY <1>3, <1>4, PTL

\* A visitor who paid twice did so from an opening with the first payment out of it:
\* a retry after an error line that says nothing never pays from what it paid before.
THEOREM RetrySees == Spec => []RetryHasSeenThePayment
<1>1. PaymentInv => RetryHasSeenThePayment
  <2>. SUFFICES ASSUME PaymentInv, NEW v \in Visitors,
                       NEW i \in 1 .. MaxTries[v], NEW j \in 1 .. MaxTries[v],
                       i < j, {<<v, i>>, <<v, j>>} \subseteq Paid
                PROVE  \E l, m \in landed :
                         /\ l.ok /\ l.tx.name = <<v, i>> /\ m.ok /\ m.tx.name = <<v, j>>
                         /\ l.tx.op.built < m.tx.op.built
    BY DEF RetryHasSeenThePayment
  <2>. USE DEF PaymentInv
  <2>1. PICK l \in landed : l.ok /\ l.tx.name = <<v, i>>
    BY DEF Paid
  <2>2. PICK m \in landed : m.ok /\ m.tx.name = <<v, j>>
    BY DEF Paid
  <2>3. l # m
    BY <2>1, <2>2
  <2>4. /\ l.tx.op.built = l.tx.seq /\ m.tx.op.built = m.tx.seq /\ l.tx.seq # m.tx.seq
    BY <2>3 DEF LandedInv
  <2>5. l.tx \in Transactions /\ m.tx \in Transactions /\ l.tx.seq \in Nat /\ m.tx.seq \in Nat
    BY InTransactions DEF TransactionsInv, IsPayment
  <2>6. l.tx.seq <= m.tx.seq
    <3>1. l.tx.name[1] = m.tx.name[1] /\ l.tx.name[2] < m.tx.name[2]
      BY <2>1, <2>2
    <3>. QED BY <2>5, <3>1 DEF TransactionsInv
  <2>7. l.tx.op.built < m.tx.op.built
    BY <2>4, <2>5, <2>6
  <2>. QED BY <2>1, <2>2, <2>7
<1>. QED BY <1>1, PaymentInvariance, PTL

-----------------------------------------------------------------------------
(* The page and the ledger.  What a request is told needs to be known of its *)
(* transaction wherever that is: on its way, in the pool, or landed.         *)

Untouched(r) == \A tx \in Transactions : tx.name # r
Unsent(r)    == \A tx \in pool \cup {l.tx : l \in landed} : tx.name # r

\* A call is of the request that runs; until it sends, the network does not have it;
\* once it returned it is paid, and a call that was refused is nowhere.
CallTells(v) ==
  call[v].phase # "idle" =>
    /\ request[v] # NoRequest /\ request[v].phase = "submit"
    /\ call[v].phase \in {"simulate", "send", "poll", "returned"} => call[v].tx.name = Current(v)
    /\ call[v].phase \in {"simulate", "send"} => Unsent(Current(v))
    /\ call[v].phase = "returned" => Current(v) \in Paid
    /\ call[v].phase = "threw" /\ call[v].why = "refused" => Untouched(Current(v))

SettleInv ==
  /\ \A r \in Requests : told[r] \in {"unasked", "running", "done", "refused", "unanswered"}
  /\ \A v \in Visitors : request[v] # NoRequest => told[Current(v)] = "running"
  /\ \A r \in Requests : told[r] = "done" => r \in Paid
  /\ \A r \in Requests : told[r] = "refused" => Untouched(r)
  /\ \A v \in Visitors : CallTells(v)

LEMMA CurrentIs ==
  ASSUME PaymentInv
  PROVE  /\ \A v \in Visitors : Current(v) = <<v, request[v].no>>
         /\ \A v, w \in Visitors : Current(v) = Current(w) => v = w
         /\ \A v \in Visitors : request[v] # NoRequest => Current(v) \in Requests
<1>1. \A v \in Visitors : Current(v) = <<v, request[v].no>>
  BY DEF Current
<1>2. \A v \in Visitors : request[v] # NoRequest => request[v].no \in 1 .. MaxTries[v]
  BY DEF PaymentInv, RequestsInv, RequestInv
<1>. QED BY <1>1, <1>2, RequestsAre

\* What a step does not touch stays told.
LEMMA TellsStill ==
  ASSUME NEW w \in Visitors, CallTells(w),
         request'[w] = request[w], call'[w] = call[w], Paid \subseteq Paid',
         Transactions' \subseteq Transactions \/ (Untouched(Current(w)) => Untouched(Current(w))'),
         Unsent(Current(w)) => Unsent(Current(w))'
  PROVE  CallTells(w)'
<1>1. Current(w)' = Current(w)
  BY DEF Current
<1>2. Untouched(Current(w)) => Untouched(Current(w))'
  BY <1>1 DEF Untouched
<1>. QED BY <1>1, <1>2 DEF CallTells

\* A request that ends is answered with what happened.
LEMMA EndSettles ==
  ASSUME PaymentInv, SettleInv, NEW v \in Visitors,
         NEW outcome \in {"done", "refused", "unanswered"},
         request[v] # NoRequest, EndRequest(v, outcome), UNCHANGED ledgerVars,
         \/ call' = [call EXCEPT ![v] = NotCalling]
         \/ call' = call /\ call[v].phase = "idle",
         outcome = "done" => Current(v) \in Paid,
         outcome = "refused" => Untouched(Current(v))
  PROVE  SettleInv' /\ Settled!Answer(Current(v), outcome)
<1>. USE DEF PaymentInv
<1>1. /\ Current(v) \in Requests /\ told[Current(v)] = "running"
      /\ told' = [told EXCEPT ![Current(v)] = outcome]
      /\ request'[v] = NoRequest
      /\ \A w \in Visitors \ {v} : request'[w] = request[w] /\ call'[w] = call[w]
      /\ call'[v].phase = "idle"
  BY CurrentIs DEF SettleInv, EndRequest, RequestsInv, NotCalling
<1>2. DOMAIN told = Requests
  BY DEF RequestsInv
<1>3. Transactions' \subseteq Transactions
  <2>1. \A w \in Visitors : call'[w] = call[w] \/ call'[w].phase = "idle"
    BY <1>1
  <2>. QED BY <2>1 DEF Transactions, ledgerVars, Visitors
<1>4. Paid' = Paid
  BY DEF Paid, ledgerVars
<1>5. Untouched(Current(v)) => Current(v) \notin Paid
  BY InTransactions DEF Untouched, Paid
<1>6. Settled!Answer(Current(v), outcome)
  BY <1>1, <1>4, <1>5 DEF Settled!Answer
<1>7. (\A w \in Visitors : request[w] # NoRequest => told[Current(w)] = "running")'
  <2>1. ASSUME NEW w \in Visitors, request'[w] # NoRequest
        PROVE  told'[Current(w)'] = "running"
    <3>1. w # v /\ request[w] # NoRequest /\ Current(w)' = Current(w)
      BY <1>1, <2>1 DEF Current
    <3>2. Current(w) # Current(v) /\ told[Current(w)] = "running" /\ Current(w) \in Requests
      BY <3>1, CurrentIs DEF SettleInv
    <3>. QED BY <3>1, <3>2, <1>1, <1>2
  <2>. QED BY <2>1 DEF Visitors
<1>8. \A r \in Requests : told'[r] = "done" => r \in Paid'
  BY <1>1, <1>2, <1>4 DEF SettleInv
<1>9. \A r \in Requests : told'[r] = "refused" => Untouched(r)'
  BY <1>1, <1>2, <1>3 DEF SettleInv, Untouched
<1>10. ASSUME NEW w \in Visitors PROVE CallTells(w)'
  <2>1. CASE w = v
    BY <1>1, <2>1 DEF CallTells
  <2>2. CASE w # v
    <3>1. Unsent(Current(w)) => Unsent(Current(w))'
      BY <1>1, <2>2 DEF Unsent, Current, ledgerVars
    <3>. QED BY <1>1, <1>3, <1>4, <2>2, <3>1, TellsStill DEF SettleInv
  <2>. QED BY <2>1, <2>2
<1>11. (\A w \in Visitors : CallTells(w))'
  BY <1>10 DEF Visitors
<1>12. \A r \in Requests : told'[r] \in {"unasked", "running", "done", "refused", "unanswered"}
  BY <1>1, <1>2 DEF SettleInv
<1>. QED BY <1>6, <1>7, <1>8, <1>9, <1>11, <1>12 DEF SettleInv

\* Whatever leaves requests, what was told and what was paid alone shows nothing.
LEMMA Unshown ==
  ASSUME PaymentInv, SettleInv, UNCHANGED <<request, told>>, Paid' = Paid,
         Transactions' \subseteq Transactions,
         \A w \in Visitors : CallTells(w)'
  PROVE  SettleInv' /\ told' = told /\ Paid' = Paid
<1>1. (\A w \in Visitors : request[w] # NoRequest => told[Current(w)] = "running")'
  BY DEF SettleInv, Current, Visitors
<1>2. \A r \in Requests : told'[r] = "done" => r \in Paid'
  BY DEF SettleInv
<1>3. \A r \in Requests : told'[r] = "refused" => Untouched(r)'
  BY DEF SettleInv, Untouched
<1>4. (\A w \in Visitors : CallTells(w))'
  BY DEF Visitors
<1>. QED BY <1>1, <1>2, <1>3, <1>4 DEF SettleInv

\* The call of c moves on, or throws: it is refused only before it was sent, and
\* returns only what was paid.
CallMoves(c) ==
  /\ call[c].phase \in {"simulate", "send", "poll"}
  /\ \A w \in Visitors \ {c} : call'[w] = call[w]
  /\ call'[c].phase \in {"simulate", "send", "poll", "returned"} => call'[c].tx = call[c].tx
  /\ (\/ call'[c].phase \in {"simulate", "send"}
      \/ call'[c].phase = "threw" /\ call'[c].why = "refused")
       => call[c].phase \in {"simulate", "send"} /\ pool' = pool
  /\ call'[c].phase = "returned" => call[c].tx.name \in Paid
  /\ pool' = pool \/ (call[c].phase = "send" /\ pool' = pool \cup {call[c].tx})
  /\ UNCHANGED <<account, landed, pageVars>>

LEMMA CallSettles ==
  ASSUME PaymentInv, SettleInv, NEW c \in Visitors, CallMoves(c)
  PROVE  SettleInv' /\ told' = told /\ Paid' = Paid
<1>. USE DEF PaymentInv, CallMoves
<1>1. \A w \in Visitors \ {c} : call'[w] = call[w]
  OBVIOUS
<1>2. \A w \in Visitors : Current(w)' = Current(w)
  BY DEF Current, pageVars
<1>3. \A tx \in pool' : tx \in pool \/ (call[c].phase = "send" /\ tx = call[c].tx)
  OBVIOUS
<1>4. Transactions' \subseteq Transactions
  <2>. SUFFICES ASSUME NEW tx \in Transactions' PROVE tx \in Transactions
    OBVIOUS
  <2>1. CASE tx \in pool'
    BY <2>1, <1>3, InTransactions
  <2>2. CASE \E l \in landed : tx = l.tx
    BY <2>2, InTransactions
  <2>3. CASE \E w \in Visitors : /\ call'[w].phase \in {"simulate", "send", "poll", "returned"}
                                 /\ tx = call'[w].tx
    BY <2>3, <1>1, InTransactions
  <2>. QED BY <2>1, <2>2, <2>3 DEF Transactions, Visitors
<1>5. Paid' = Paid
  BY DEF Paid
<1>6. CallTells(c) /\ call[c].tx.name = Current(c)
  BY DEF SettleInv, CallTells
<1>7. CallTells(c)'
  <2>1. request'[c] # NoRequest /\ request'[c].phase = "submit"
    BY <1>6 DEF CallTells, pageVars
  <2>2. call'[c].phase \in {"simulate", "send", "poll", "returned"} => call'[c].tx.name = Current(c)
    BY <1>6
  <2>3. call'[c].phase \in {"simulate", "send"} => Unsent(Current(c))'
    BY <1>2, <1>6 DEF CallTells, Unsent
  <2>4. call'[c].phase = "returned" => Current(c) \in Paid
    BY <1>6
  <2>5. ASSUME call'[c].phase = "threw", call'[c].why = "refused" PROVE Untouched(Current(c))'
    <3>1. Unsent(Current(c)) /\ pool' = pool
      BY <2>5, <1>6 DEF CallTells
    <3>2. ASSUME NEW w \in Visitors,
                 call'[w].phase \in {"simulate", "send", "poll", "returned"}
          PROVE  call'[w].tx.name # Current(c)
      <4>1. w # c /\ call'[w] = call[w]
        BY <3>2, <2>5, <1>1
      <4>2. CallTells(w) /\ call[w].tx.name = Current(w)
        BY <3>2, <4>1 DEF SettleInv, CallTells
      <4>. QED BY <4>1, <4>2, CurrentIs
    <3>3. \A tx \in Transactions' : tx.name # Current(c)
      BY <3>1, <3>2 DEF Transactions, Unsent, Visitors
    <3>. QED BY <3>3, <1>2 DEF Untouched
  <2>. QED BY <1>1, <1>2, <1>5, <2>1, <2>2, <2>3, <2>4, <2>5 DEF CallTells
<1>8. ASSUME NEW w \in Visitors, w # c PROVE CallTells(w)'
  <2>1. Unsent(Current(w)) => Unsent(Current(w))'
    <3>1. Current(w) # Current(c)
      BY <1>8, CurrentIs
    <3>. QED BY <1>2, <1>3, <1>6, <3>1 DEF Unsent
  <2>2. request'[w] = request[w] /\ CallTells(w)
    BY DEF pageVars, SettleInv
  <2>. QED BY <1>1, <1>4, <1>5, <1>8, <2>1, <2>2, TellsStill
<1>. QED BY <1>4, <1>5, <1>7, <1>8, Unshown DEF pageVars

\* What the poll finds landed was paid, since nothing that landed failed.
LEMMA FoundIsPaid ==
  ASSUME PaymentInv, NEW tx, Result(tx) # {}
  PROVE  Result(tx) = {TRUE} /\ tx.name \in Paid
<1>1. PICK l \in landed : l.tx = tx
  BY DEF Result
<1>2. \A m \in landed : m.ok
  BY DEF PaymentInv, LandedInv
<1>3. \A m \in landed : m.ok = TRUE
  BY <1>2
<1>. QED BY <1>1, <1>2, <1>3 DEF Result, Paid

LEMMA InvokeSettles ==
  ASSUME PaymentInv, SettleInv, NEW c \in Visitors,
         InvokeStep(c) \/ InvokeFails(c), UNCHANGED pageVars
  PROVE  SettleInv' /\ told' = told /\ Paid' = Paid
<1>. USE DEF ledgerVars, CallMoves
<1>. DOMAIN call = Visitors
  BY DEF PaymentInv, RequestsInv
<1>1. CASE Simulate(c)
  <2>1. CallMoves(c)
    BY <1>1 DEF Simulate, Threw
  <2>. QED BY <2>1, CallSettles
<1>2. CASE Send(c)
  <2>1. CallMoves(c)
    BY <1>2 DEF Send, Polling
  <2>. QED BY <2>1, CallSettles
<1>3. CASE Poll(c)
  <2>. DEFINE next == AfterPoll(call[c])
  <2>1. call[c].phase = "poll" /\ call' = [call EXCEPT ![c] = next] /\ UNCHANGED <<account, pool, landed>>
    BY <1>3 DEF Poll
  <2>2. call[c] = [phase |-> "poll", tx |-> call[c].tx, polls |-> call[c].polls]
    BY <2>1 DEF PaymentInv, RequestsInv, CallInv
  <2>3. \/ next.phase = "returned" /\ next.tx = call[c].tx /\ call[c].tx.name \in Paid
        \/ next.phase = "threw" /\ next.why = "unanswered"
        \/ next.phase = "poll" /\ next.tx = call[c].tx
    <3>1. CASE Result(call[c].tx) = {}
      <4>1. next = Threw("unanswered") \/ next = [call[c] EXCEPT !.polls = @ + 1]
        BY <3>1 DEF AfterPoll
      <4>2. next = [call[c] EXCEPT !.polls = @ + 1] => next.phase = "poll" /\ next.tx = call[c].tx
        <5>. HIDE DEF next
        <5>. QED BY <2>2
      <4>. QED BY <4>1, <4>2 DEF Threw
    <3>2. CASE Result(call[c].tx) # {}
      <4>1. Result(call[c].tx) = {TRUE} /\ call[c].tx.name \in Paid
        BY <3>2, FoundIsPaid
      <4>2. next = Returned(call[c].tx)
        BY <4>1 DEF AfterPoll
      <4>. QED BY <4>1, <4>2 DEF Returned
    <3>. QED BY <3>1, <3>2
  <2>. HIDE DEF next
  <2>4. CallMoves(c)
    BY <2>1, <2>3
  <2>. QED BY <2>4, CallSettles
<1>4. CASE InvokeFails(c)
  <2>1. CallMoves(c)
    BY <1>4 DEF InvokeFails, SimulateFails, SendRejected, SendUnanswered, PollFails, Threw
  <2>. QED BY <2>1, CallSettles
<1>. QED BY <1>1, <1>2, <1>3, <1>4 DEF InvokeStep

\* A ledger that closes pays a request, whose visitor is told nothing yet or has
\* had no answer.
LEMMA IncludeSettles ==
  ASSUME PaymentInv, SettleInv, NEW tx \in pool, Include(tx), UNCHANGED pageVars
  PROVE  SettleInv' /\ Settled!Pay(tx.name) /\ tx.name \in Requests
<1>. USE DEF PaymentInv
<1>1. IsPayment(tx) /\ tx.seq = Seq0 + 1 /\ Accepts(tx.op) /\ Seq0 \in Nat /\ tx \in Transactions
  BY InTransactions, LedgerTyped DEF Include, TransactionsInv, IsPayment, SentInv, Sent, Seq0
<1>. DEFINE entry == [tx |-> tx, ok |-> Accepts(tx.op)]
<1>2. landed' = landed \cup {entry} /\ entry.tx = tx /\ entry.ok
      /\ pool' = pool \ {tx} /\ UNCHANGED <<call, request, told>>
  BY <1>1 DEF Include, pageVars
<1>. HIDE DEF entry
<1>3. Paid' = Paid \cup {tx.name}
  BY <1>2 DEF Paid
<1>4. tx.name \notin Paid
  <2>. SUFFICES ASSUME NEW l \in landed, l.tx.name = tx.name PROVE FALSE
    BY DEF Paid
  <2>1. l.tx = tx
    BY <1>1, InTransactions DEF TransactionsInv
  <2>2. l.tx.seq <= Seq0
    BY DEF LandedInv
  <2>. QED BY <1>1, <2>1, <2>2
<1>5. tx.name \in Requests /\ told[tx.name] # "unasked"
  BY <1>1 DEF IsPayment
<1>6. told[tx.name] \in {"running", "unanswered"}
  <2>1. told[tx.name] # "done"
    BY <1>4, <1>5 DEF SettleInv
  <2>2. told[tx.name] # "refused"
    BY <1>1, <1>5 DEF SettleInv, Untouched
  <2>. QED BY <1>5, <2>1, <2>2 DEF SettleInv
<1>7. Transactions' \subseteq Transactions
  <2>. SUFFICES ASSUME NEW t \in Transactions' PROVE t \in Transactions
    OBVIOUS
  <2>1. t \in pool' \/ (\E l \in landed' : t = l.tx)
        \/ \E w \in Visitors : /\ call[w].phase \in {"simulate", "send", "poll", "returned"}
                               /\ t = call[w].tx
    BY <1>2 DEF Transactions, Visitors
  <2>. QED BY <2>1, <1>1, <1>2, InTransactions
<1>8. \A w \in Visitors : CallTells(w)'
  <2>. TAKE w \in Visitors
  <2>1. Unsent(Current(w)) => Unsent(Current(w))'
    BY <1>2 DEF Unsent, Current
  <2>. QED BY <1>2, <1>3, <1>7, <2>1, TellsStill DEF SettleInv
<1>9. SettleInv'
  <2>1. (\A w \in Visitors : request[w] # NoRequest => told[Current(w)] = "running")'
    BY <1>2 DEF SettleInv, Current, Visitors
  <2>2. \A r \in Requests : told'[r] = "done" => r \in Paid'
    BY <1>2, <1>3 DEF SettleInv
  <2>3. \A r \in Requests : told'[r] = "refused" => Untouched(r)'
    BY <1>2, <1>7 DEF SettleInv, Untouched
  <2>4. (\A w \in Visitors : CallTells(w))'
    BY <1>8 DEF Visitors
  <2>. QED BY <1>2, <2>1, <2>2, <2>3, <2>4 DEF SettleInv
<1>10. Settled!Pay(tx.name)
  BY <1>2, <1>3, <1>4, <1>6 DEF Settled!Pay
<1>. QED BY <1>5, <1>9, <1>10

LEMMA ExpireSettles ==
  ASSUME PaymentInv, SettleInv, NEW tx \in pool, Expire(tx), UNCHANGED pageVars
  PROVE  SettleInv' /\ told' = told /\ Paid' = Paid
<1>1. pool' \subseteq pool /\ UNCHANGED <<account, landed, call, request, told>>
  BY DEF Expire, pageVars
<1>2. Transactions' \subseteq Transactions /\ Paid' = Paid
  BY <1>1 DEF Transactions, Paid, Visitors
<1>3. \A w \in Visitors : CallTells(w)'
  <2>. TAKE w \in Visitors
  <2>1. Unsent(Current(w)) => Unsent(Current(w))'
    BY <1>1 DEF Unsent, Current
  <2>. QED BY <1>1, <1>2, <2>1, TellsStill DEF SettleInv
<1>. QED BY <1>1, <1>2, <1>3, Unshown

-----------------------------------------------------------------------------
(* The steps of a request, and the refinement. *)

LEMMA SubmitSettles ==
  ASSUME PaymentInv, SettleInv, NEW v \in Visitors, NEW amount \in Amounts, Submit(v, amount)
  PROVE  SettleInv' /\ \E r \in Requests : Settled!Ask(r)
<1>. USE DEF PaymentInv
<1>1. PICK no \in 1 .. MaxTries[v] :
        /\ request[v] = NoRequest
        /\ \A k \in 1 .. MaxTries[v] : told[<<v, k>>] = "unasked" <=> k >= no
        /\ request' = [request EXCEPT ![v] = [phase |-> "rebuild", no |-> no, amount |-> amount]]
        /\ told' = [told EXCEPT ![<<v, no>>] = "running"]
        /\ UNCHANGED chainVars
  BY DEF Submit
<1>2. no \in Nat /\ told[<<v, no>>] = "unasked" /\ <<v, no>> \in Requests
  BY <1>1, RequestsAre
<1>3. DOMAIN told = Requests /\ DOMAIN request = Visitors
  BY DEF RequestsInv
<1>4. request'[v] = [phase |-> "rebuild", no |-> no, amount |-> amount]
      /\ \A w \in Visitors \ {v} : request'[w] = request[w]
  BY <1>1, <1>3
<1>5. Current(v)' = <<v, no>>
  BY <1>4 DEF Current
<1>6. Transactions' = Transactions /\ Paid' = Paid
  BY <1>1 DEF Transactions, Paid, chainVars, Visitors
<1>7. Settled!Ask(<<v, no>>)
  BY <1>1, <1>2, <1>6 DEF Settled!Ask
<1>8. ASSUME NEW w \in Visitors, request'[w] # NoRequest
      PROVE  told'[Current(w)'] = "running"
  <2>1. CASE w = v
    BY <1>1, <1>2, <1>3, <1>5, <2>1
  <2>2. CASE w # v
    <3>1. /\ Current(w)' = Current(w) /\ Current(w) \in Requests
          /\ told[Current(w)] = "running"
      BY <1>4, <1>8, <2>2, CurrentIs DEF Current, SettleInv
    <3>. QED BY <1>1, <1>2, <1>3, <3>1
  <2>. QED BY <2>1, <2>2
<1>9. ASSUME NEW w \in Visitors PROVE CallTells(w)'
  <2>1. CASE w = v
    <3>1. call'[v].phase = "idle"
      BY <1>1 DEF SettleInv, CallTells, chainVars
    <3>. QED BY <2>1, <3>1 DEF CallTells
  <2>2. CASE w # v
    <3>1. Unsent(Current(w)) => Unsent(Current(w))'
      BY <1>1, <1>4, <2>2 DEF Unsent, Current, chainVars
    <3>. QED BY <1>1, <1>4, <1>6, <2>2, <3>1, TellsStill DEF SettleInv, chainVars
  <2>. QED BY <2>1, <2>2
<1>10. SettleInv'
  <2>1. (\A w \in Visitors : request[w] # NoRequest => told[Current(w)] = "running")'
    BY <1>8 DEF Visitors
  <2>2. \A r \in Requests : told'[r] = "done" => r \in Paid'
    BY <1>1, <1>2, <1>3, <1>6 DEF SettleInv
  <2>3. \A r \in Requests : told'[r] = "refused" => Untouched(r)'
    BY <1>1, <1>2, <1>3, <1>6 DEF SettleInv, Untouched
  <2>4. (\A w \in Visitors : CallTells(w))'
    BY <1>9 DEF Visitors
  <2>5. \A r \in Requests : told'[r] \in {"unasked", "running", "done", "refused", "unanswered"}
    BY <1>1, <1>2, <1>3 DEF SettleInv
  <2>. QED BY <2>1, <2>2, <2>3, <2>4, <2>5 DEF SettleInv
<1>. QED BY <1>2, <1>7, <1>10

LEMMA RebuildSettles ==
  ASSUME PaymentInv, SettleInv, NEW v \in Visitors,
         RefuseAmount(v) \/ Rebuild(v) \/ StageFails(v) \/ ProveAndInvoke(v)
  PROVE  SettleInv' /\ \/ told' = told /\ Paid' = Paid
                       \/ Current(v) \in Requests /\ Settled!Answer(Current(v), "refused")
<1>. USE DEF PaymentInv
<1>1. /\ request[v].phase \in {"rebuild", "prove"} /\ request[v] # NoRequest
      /\ UNCHANGED ledgerVars
  BY DEF RefuseAmount, Rebuild, StageFails, ProveAndInvoke, Invoke, NoRequest, chainVars, ledgerVars
<1>2. /\ call[v].phase = "idle" /\ Untouched(Current(v)) /\ Current(v) \in Requests
      /\ told[Current(v)] = "running"
  BY <1>1, CurrentIs DEF SettleInv, CallTells, Untouched, RequestsInv, RequestInv
<1>3. CASE EndRequest(v, "refused") /\ call' = call
  BY <1>1, <1>2, <1>3, EndSettles
<1>4. CASE ~ (EndRequest(v, "refused") /\ call' = call)
  <2>. DOMAIN request = Visitors
    BY DEF RequestsInv
  <2>1. /\ \A w \in Visitors \ {v} : request'[w] = request[w]
        /\ request'[v].no = request[v].no
        /\ call' = call \/ request'[v].phase = "submit"
        /\ UNCHANGED told
        /\ \/ call' = call
           \/ \E tx : tx.name = Current(v) /\ call' = [call EXCEPT ![v] = [phase |-> "simulate", tx |-> tx]]
    <3>1. CASE RefuseAmount(v) \/ StageFails(v)
      <4>1. EndRequest(v, "refused") /\ call' = call
        BY <3>1 DEF RefuseAmount, StageFails, chainVars
      <4>. QED BY <1>4, <4>1
    <3>2. CASE Rebuild(v)
      <4>1. call' = call
        BY <3>2 DEF Rebuild, chainVars
      <4>2. PICK built \in DOMAIN account[Guest].openings :
              /\ request' = [request EXCEPT ![v] =
                   [ phase |-> "prove", no |-> request[v].no,
                     amount |-> request[v].amount, built |-> built ]]
              /\ UNCHANGED told
        BY <3>2, <1>4, <4>1 DEF Rebuild
      <4>. QED BY <4>1, <4>2
    <3>3. CASE ProveAndInvoke(v)
      <4>. DEFINE next == [request[v] EXCEPT !.phase = "submit"]
      <4>1. request' = [request EXCEPT ![v] = next] /\ UNCHANGED told
        BY <3>3 DEF ProveAndInvoke
      <4>2. request[v] = [ phase |-> "prove", no |-> request[v].no,
                           amount |-> request[v].amount, built |-> request[v].built ]
        BY <1>1, <3>3 DEF ProveAndInvoke, RequestsInv, RequestInv
      <4>3. next.no = request[v].no /\ next.phase = "submit"
        BY <4>2
      <4>4. \E tx : tx.name = Current(v) /\ call' = [call EXCEPT ![v] = [phase |-> "simulate", tx |-> tx]]
        BY <3>3 DEF ProveAndInvoke, Invoke
      <4>. HIDE DEF next
      <4>. QED BY <4>1, <4>3, <4>4
    <3>. QED BY <3>1, <3>2, <3>3
  <2>2. /\ Current(v)' = Current(v) /\ \A w \in Visitors \ {v} : request'[w] = request[w] /\ call'[w] = call[w]
        /\ \/ call' = call
           \/ /\ call'[v].phase = "simulate" /\ call'[v].tx.name = Current(v)
              /\ request'[v] # NoRequest /\ request'[v].phase = "submit"
    BY <2>1 DEF RequestsInv, Current, NoRequest
  <2>3. Paid' = Paid /\ \A w \in Visitors : Current(w)' = Current(w)
    BY <1>1, <2>2 DEF Paid, Current, ledgerVars
  <2>4. \A tx \in Transactions' : tx \in Transactions \/ tx.name = Current(v)
    <3>. SUFFICES ASSUME NEW tx \in Transactions', tx.name # Current(v) PROVE tx \in Transactions
      OBVIOUS
    <3>1. CASE tx \in pool \/ \E l \in landed : tx = l.tx
      BY <3>1, InTransactions
    <3>2. CASE \E w \in Visitors : /\ call'[w].phase \in {"simulate", "send", "poll", "returned"}
                                   /\ tx = call'[w].tx
      BY <3>2, <2>2, InTransactions
    <3>. QED BY <3>1, <3>2, <1>1 DEF Transactions, ledgerVars, Visitors
  <2>5. ASSUME NEW w \in Visitors PROVE CallTells(w)'
    <3>1. Unsent(Current(w)) => Unsent(Current(w))'
      BY <1>1, <2>3 DEF Unsent, ledgerVars
    <3>2. CASE w = v
      <4>1. Unsent(Current(v))
        BY <1>2, InTransactions DEF Untouched, Unsent
      <4>. QED BY <1>2, <2>2, <3>1, <3>2, <4>1 DEF CallTells
    <3>3. CASE w # v
      <4>1. Untouched(Current(w)) => Untouched(Current(w))'
        BY <2>3, <2>4, <3>3, CurrentIs DEF Untouched
      <4>. QED BY <2>2, <2>3, <3>1, <3>3, <4>1, TellsStill DEF SettleInv
    <3>. QED BY <3>2, <3>3
  <2>6. SettleInv'
    <3>1. (\A w \in Visitors : request[w] # NoRequest => told[Current(w)] = "running")'
      BY <1>1, <1>2, <2>1, <2>2, <2>3 DEF SettleInv, Visitors
    <3>2. \A r \in Requests : told'[r] = "done" => r \in Paid'
      BY <2>1, <2>3 DEF SettleInv
    <3>3. \A r \in Requests : told'[r] = "refused" => Untouched(r)'
      BY <1>2, <2>1, <2>4 DEF SettleInv, Untouched
    <3>4. (\A w \in Visitors : CallTells(w))'
      BY <2>5 DEF Visitors
    <3>. QED BY <2>1, <3>1, <3>2, <3>3, <3>4 DEF SettleInv
  <2>. QED BY <2>1, <2>3, <2>6
<1>. QED BY <1>3, <1>4

LEMMA EndingsSettle ==
  ASSUME PaymentInv, SettleInv, NEW v \in Visitors, Done(v) \/ Failed(v) \/ CutOff(v)
  PROVE  SettleInv' /\ Current(v) \in Requests
           /\ \E outcome \in {"done", "refused", "unanswered"} : Settled!Answer(Current(v), outcome)
<1>. DEFINE outcome == IF Done(v) THEN "done" ELSE IF Failed(v) THEN call[v].why ELSE "unanswered"
<1>1. /\ request[v] # NoRequest /\ UNCHANGED ledgerVars
      /\ call' = [call EXCEPT ![v] = NotCalling]
      /\ EndRequest(v, outcome)
  BY DEF Done, Failed, CutOff, NoRequest
<1>2. CallTells(v) /\ CallInv(v)
  BY DEF SettleInv, PaymentInv, RequestsInv
<1>3. outcome \in {"done", "refused", "unanswered"}
  BY <1>2 DEF Failed, CallInv
<1>4. outcome = "done" => Current(v) \in Paid
  BY <1>2 DEF Done, Failed, CallTells, CallInv
<1>5. outcome = "refused" => Untouched(Current(v))
  BY <1>2 DEF Failed, CallTells
<1>. HIDE DEF outcome
<1>. QED BY <1>1, <1>3, <1>4, <1>5, EndSettles, CurrentIs

LEMMA InitSettles == Init => SettleInv /\ Settled!SettlementInit
<1>. SUFFICES ASSUME Init PROVE SettleInv /\ Settled!SettlementInit
  OBVIOUS
<1>1. \A v \in Visitors : request[v] = NoRequest /\ call[v].phase = "idle"
  BY DEF Init, NotCalling, Visitors
<1>2. Paid = {} /\ \A r \in Requests : told[r] = "unasked"
  BY DEF Init, Paid
<1>3. SettleInv
  BY <1>1, <1>2 DEF SettleInv, CallTells
<1>. QED BY <1>2, <1>3 DEF Init, Settled!SettlementInit

LEMMA NextSettles ==
  PaymentInv /\ SettleInv /\ [Next]_vars
    => SettleInv' /\ [Settled!SettlementNext]_(Settled!settlementVars)
<1>. SUFFICES ASSUME PaymentInv, SettleInv, [Next]_vars
              PROVE  SettleInv' /\ [Settled!SettlementNext]_(Settled!settlementVars)
  OBVIOUS
<1>. USE DEF Settled!SettlementNext, Settled!settlementVars
<1>1. ASSUME NEW v \in Visitors, NEW amount \in Amounts, Submit(v, amount)
      PROVE  SettleInv' /\ [Settled!SettlementNext]_(Settled!settlementVars)
  BY <1>1, SubmitSettles
<1>2. ASSUME NEW v \in Visitors,
             InvokeStep(v) \/ InvokeFails(v), UNCHANGED pageVars
      PROVE  SettleInv' /\ [Settled!SettlementNext]_(Settled!settlementVars)
  BY <1>2, InvokeSettles
<1>3. ASSUME NEW v \in Visitors,
             RefuseAmount(v) \/ Rebuild(v) \/ StageFails(v) \/ ProveAndInvoke(v)
      PROVE  SettleInv' /\ [Settled!SettlementNext]_(Settled!settlementVars)
  BY <1>3, RebuildSettles
<1>4. ASSUME NEW v \in Visitors, Done(v) \/ Failed(v) \/ CutOff(v)
      PROVE  SettleInv' /\ [Settled!SettlementNext]_(Settled!settlementVars)
  BY <1>4, EndingsSettle
<1>5. CASE LedgerStep /\ UNCHANGED pageVars
  <2>1. PICK tx \in pool : Include(tx) \/ Expire(tx)
    BY <1>5 DEF LedgerStep
  <2>2. CASE Include(tx)
    BY <1>5, <2>2, IncludeSettles
  <2>3. CASE Expire(tx)
    BY <1>5, <2>3, ExpireSettles
  <2>. QED BY <2>1, <2>2, <2>3
<1>6. CASE UNCHANGED vars
  <2>1. UNCHANGED <<account, pool, landed, call, request, told>>
    BY <1>6 DEF vars, chainVars, pageVars
  <2>2. Transactions' = Transactions /\ Paid' = Paid
    BY <2>1 DEF Transactions, Paid, Visitors
  <2>3. \A w \in Visitors : CallTells(w)'
    <3>. TAKE w \in Visitors
    <3>1. Unsent(Current(w)) => Unsent(Current(w))'
      BY <2>1 DEF Unsent, Current
    <3>. QED BY <2>1, <2>2, <3>1, TellsStill DEF SettleInv
  <2>. QED BY <2>1, <2>2, <2>3, Unshown
<1>. QED BY <1>1, <1>2, <1>3, <1>4, <1>5, <1>6 DEF Next, ServerStep, pageVars

\* The payment flow implements its promise, however many visitors, requests, lost
\* answers and cut-off streams: "done" is said only of a request that was paid, and
\* one said to be refused is never paid afterwards (payment-flow.ts, client.ts invoke).
THEOREM ImplementsSettled == Spec => ImplementsSettlement
<1>1. Init => PaymentInv /\ SettleInv
  BY InitEstablishes, InitSettles
<1>2. PaymentInv /\ SettleInv /\ [Next]_vars => (PaymentInv /\ SettleInv)'
  BY NextKeeps, NextSettles
<1>3. Spec => []PaymentInv /\ []SettleInv
  BY <1>1, <1>2, PTL DEF Spec
<1>4. Spec => Settled!SettlementInit /\ [][Settled!SettlementNext]_(Settled!settlementVars)
  BY <1>3, InitSettles, NextSettles, PTL DEF Spec
<1>. QED BY <1>4 DEF ImplementsSettlement, Settled!Settles

-----------------------------------------------------------------------------
(* The receipts. *)

\* The loop over the receipts, unrolled.
OthersUpTo(tx, receipts) ==
  LET others[n \in 0 .. Len(receipts)] ==
        IF n = 0 THEN << >>
        ELSE IF receipts[n].tx = tx THEN others[n - 1] ELSE Append(others[n - 1], receipts[n])
  IN others

\* It takes the receipts in turn.
LEMMA OthersEquations ==
  ASSUME NEW tx, NEW s, Len(s) \in Nat
  PROVE  /\ OthersUpTo(tx, s)[0] = << >>
         /\ \A n \in 1 .. Len(s) : OthersUpTo(tx, s)[n] =
              IF s[n].tx = tx THEN OthersUpTo(tx, s)[n - 1]
              ELSE Append(OthersUpTo(tx, s)[n - 1], s[n])
         /\ Others(tx, s) = OthersUpTo(tx, s)[Len(s)]
<1>. DEFINE next(u, i) == IF s[i].tx = tx THEN u ELSE Append(u, s[i])
            Step(g, i) == IF i = 0 THEN << >>
                          ELSE IF s[i].tx = tx THEN g[i - 1] ELSE Append(g[i - 1], s[i])
            F(g, n) == [i \in 0 .. n |-> Step(g, i)]
            G == {n \in Nat : \E g : g = F(g, n)}
            R == OthersUpTo(tx, s)
<1>1. R = CHOOSE g : g = F(g, Len(s))
  BY DEF OthersUpTo
<1>2. 0 \in G
  <2>. DEFINE g == [i \in 0 .. 0 |-> << >>]
  <2>1. g = F(g, 0)
    OBVIOUS
  <2>. QED BY <2>1
<1>3. ASSUME NEW n \in Nat, n \in G PROVE n + 1 \in G
  <2>1. PICK f : f = F(f, n)
    BY <1>3
  <2>. DEFINE g == [i \in 0 .. n + 1 |-> IF i = n + 1 THEN next(f[n], n + 1) ELSE f[i]]
  <2>2. ASSUME NEW i \in 0 .. n + 1 PROVE g[i] = Step(g, i)
    <3>1. CASE i = n + 1
      <4>1. g[i] = next(f[n], n + 1) /\ g[n] = f[n]
        BY <3>1
      <4>2. i # 0 /\ i - 1 = n
        BY <3>1
      <4>. HIDE DEF g
      <4>. QED BY <3>1, <4>1, <4>2
    <3>2. CASE i # n + 1
      <4>1. i \in 0 .. n /\ g[i] = f[i]
        BY <3>2
      <4>2. f[i] = Step(f, i)
        <5>. HIDE DEF Step
        <5>. QED BY <2>1, <4>1
      <4>3. i # 0 => g[i - 1] = f[i - 1]
        BY <4>1
      <4>. HIDE DEF g
      <4>. QED BY <4>1, <4>2, <4>3
    <3>. QED BY <3>1, <3>2
  <2>3. g = F(g, n + 1)
    <3>1. F(g, n + 1) = [i \in 0 .. n + 1 |-> g[i]]
      <4>. HIDE DEF g, Step
      <4>. QED BY <2>2
    <3>. HIDE DEF F
    <3>. QED BY <3>1
  <2>. HIDE DEF g, F
  <2>. QED BY <2>3
<1>4. Len(s) \in G
  <2>. HIDE DEF G
  <2>. QED BY <1>2, <1>3, SetInduction
<1>5. R = F(R, Len(s))
  <2>. HIDE DEF F, R
  <2>. QED BY <1>1, <1>4
<1>6. \A i \in 0 .. Len(s) : R[i] = Step(R, i)
  <2>. HIDE DEF Step, R
  <2>. QED BY <1>5
<1>7. Others(tx, s) = R[Len(s)]
  BY DEF Others, OthersUpTo
<1>. HIDE DEF R
<1>8. R[0] = << >>
  BY <1>6
<1>9. \A i \in 1 .. Len(s) : R[i] = IF s[i].tx = tx THEN R[i - 1] ELSE Append(R[i - 1], s[i])
  BY <1>6
<1>. QED BY <1>7, <1>8, <1>9 DEF R

\* A transaction that has no receipt loses none.
LEMMA OthersAreAll ==
  ASSUME NEW S, NEW s \in Seq(S), NEW tx, \A i \in 1 .. Len(s) : s[i].tx # tx
  PROVE  Others(tx, s) = s
<1>. DEFINE N == Len(s)
            R == OthersUpTo(tx, s)
            Copies(u, n) == u \in Seq(S) /\ Len(u) = n /\ \A i \in 1 .. n : u[i] = s[i]
            G == {n \in Nat : n <= N => Copies(R[n], n)}
<1>0. N \in Nat
  OBVIOUS
<1>1. /\ R[0] = << >> /\ Others(tx, s) = R[N]
      /\ \A n \in 1 .. N : R[n] = IF s[n].tx = tx THEN R[n - 1] ELSE Append(R[n - 1], s[n])
  BY <1>0, OthersEquations
<1>. HIDE DEF R
<1>2. 0 \in G
  <2>1. << >> \in Seq(S) /\ Len(<< >>) = 0 /\ 1 .. 0 = {}
    OBVIOUS
  <2>2. Copies(R[0], 0)
    BY <1>1, <2>1
  <2>. HIDE DEF Copies
  <2>. QED BY <2>2
<1>3. ASSUME NEW n \in Nat, n \in G PROVE n + 1 \in G
  <2>. SUFFICES ASSUME n + 1 <= N PROVE Copies(R[n + 1], n + 1)
    OBVIOUS
  <2>1. n + 1 \in 1 .. N /\ n + 1 - 1 = n /\ s[n + 1] \in S
    BY <1>0
  <2>2. Copies(R[n], n)
    BY <1>0, <1>3
  <2>. DEFINE u == R[n]
              x == s[n + 1]
  <2>3. R[n + 1] = Append(u, x)
    <3>1. s[n + 1].tx # tx
      BY <2>1
    <3>2. R[n + 1] = IF s[n + 1].tx = tx THEN R[n + 1 - 1] ELSE Append(R[n + 1 - 1], s[n + 1])
      BY <1>1, <2>1
    <3>. QED BY <2>1, <3>1, <3>2
  <2>. HIDE DEF u, x
  <2>4. /\ Append(u, x) \in Seq(S) /\ Len(Append(u, x)) = n + 1
        /\ Append(u, x)[n + 1] = x /\ \A i \in 1 .. n : Append(u, x)[i] = u[i]
    <3>1. u \in Seq(S) /\ Len(u) = n /\ x \in S
      BY <2>1, <2>2 DEF u, x
    <3>. QED BY <3>1, AppendProperties
  <2>5. \A i \in 1 .. n + 1 : i \in 1 .. n \/ i = n + 1
    OBVIOUS
  <2>. QED BY <2>2, <2>3, <2>4, <2>5 DEF u, x
<1>4. N \in G
  <2>. HIDE DEF G
  <2>. QED BY <1>0, <1>2, <1>3, SetInduction
<1>5. Copies(R[N], N)
  BY <1>0, <1>4
<1>6. R[N] = s
  <2>. DEFINE u == R[N]
  <2>. HIDE DEF u
  <2>1. u \in Seq(S) /\ Len(u) = Len(s) /\ \A i \in 1 .. Len(u) : u[i] = s[i]
    BY <1>5 DEF u
  <2>2. u = s
    BY <2>1, SeqEqual
  <2>. QED BY <2>2 DEF u
<1>. QED BY <1>1, <1>6

\* A new receipt goes to the front; the oldest goes if there are too many.
LEMMA MergedReceipts ==
  ASSUME NEW S, NEW s \in Seq(S), NEW r \in S, \A i \in 1 .. Len(s) : s[i].tx # r.tx,
         Len(s) <= MaxKept
  PROVE  /\ MergeReceipts(r, s) \in Seq(S)
         /\ Len(MergeReceipts(r, s)) = IF MaxKept < Len(s) + 1 THEN MaxKept ELSE Len(s) + 1
         /\ \A i \in 1 .. Len(MergeReceipts(r, s)) :
              MergeReceipts(r, s)[i] = IF i = 1 THEN r ELSE s[i - 1]
<1>. DEFINE t == <<r>> \o s
            n == IF MaxKept < Len(s) + 1 THEN MaxKept ELSE Len(s) + 1
<1>1. /\ Len(s) \in Nat /\ MaxKept \in Nat /\ n \in 0 .. Len(s) + 1
      /\ \A i \in 1 .. Len(s) : s[i] \in S
  BY PaymentAssumption
<1>2. /\ t \in Seq(S) /\ Len(t) = Len(s) + 1
      /\ \A i \in 1 .. Len(t) : t[i] = IF i = 1 THEN r ELSE s[i - 1]
  <2>1. <<r>> \in Seq(S) /\ Len(<<r>>) = 1 /\ <<r>>[1] = r
    OBVIOUS
  <2>. DEFINE q == <<r>>
  <2>. HIDE DEF q
  <2>2. /\ q \o s \in Seq(S) /\ Len(q \o s) = Len(q) + Len(s)
        /\ \A i \in 1 .. Len(q) + Len(s) : (q \o s)[i] = IF i <= Len(q) THEN q[i] ELSE s[i - Len(q)]
    BY <2>1, ConcatProperties DEF q
  <2>3. q \in Seq(S) /\ Len(q) = 1 /\ q[1] = r
    BY <2>1 DEF q
  <2>4. Len(q \o s) = Len(s) + 1
    BY <1>1, <2>2, <2>3
  <2>5. \A i \in 1 .. Len(s) + 1 : (q \o s)[i] = IF i = 1 THEN r ELSE s[i - 1]
    BY <1>1, <2>2, <2>3
  <2>. QED BY <2>2, <2>4, <2>5 DEF q
<1>3. MergeReceipts(r, s) = SubSeq(t, 1, n)
  <2>1. Others(r.tx, s) = s
    BY OthersAreAll
  <2>. QED BY <1>2, <2>1 DEF MergeReceipts, FirstKept
<1>. HIDE DEF t, n
<1>4. /\ SubSeq(t, 1, n) \in Seq(S)
      /\ Len(SubSeq(t, 1, n)) = n
      /\ \A i \in 1 .. n : SubSeq(t, 1, n)[i] = t[i]
  <2>1. n \in Int /\ \A i \in 1 .. n : t[i] \in S
    BY <1>1, <1>2
  <2>2. /\ SubSeq(t, 1, n) \in Seq(S)
        /\ Len(SubSeq(t, 1, n)) = IF 1 <= n THEN n - 1 + 1 ELSE 0
        /\ \A i \in 1 .. n - 1 + 1 : SubSeq(t, 1, n)[i] = t[1 + i - 1]
    BY <1>1, <2>1, SubSeqProperties
  <2>3. \A i \in 1 .. n : i \in 1 .. n - 1 + 1 /\ 1 + i - 1 = i
    BY <1>1
  <2>. QED BY <1>1, <2>2, <2>3
<1>5. \A i \in 1 .. n : i \in 1 .. Len(t)
  BY <1>1, <1>2
<1>. QED BY <1>2, <1>3, <1>4, <1>5 DEF n

\* Receipts as the page keeps them, and what is kept of the stored ones A: they
\* are newest first, and only what is older than all of them is missing.
Receipts   == [tx : Requests, amount : Amounts]
Numbers(s) == {s[i].tx[2] : i \in 1 .. Len(s)}
Latest(A, s) ==
  /\ Len(s) <= MaxKept /\ Numbers(s) \subseteq A
  /\ \A i, j \in 1 .. Len(s) : i < j => s[j].tx[2] < s[i].tx[2]
  /\ \A no \in A \ Numbers(s) : Len(s) = MaxKept /\ \A n \in Numbers(s) : no < n

LEMMA ReceiptNumbers == \A r \in Receipts : r.tx \in Requests /\ r.tx[2] \in Nat
<1>. SUFFICES ASSUME NEW r \in Receipts PROVE r.tx \in Requests /\ r.tx[2] \in Nat
  OBVIOUS
<1>1. r.tx \in Requests
  BY DEF Receipts
<1>2. r.tx[1] \in Visitors /\ r.tx[2] \in 1 .. MaxTries[r.tx[1]] /\ MaxTries[r.tx[1]] \in Nat
  BY <1>1, RequestsAre
<1>. QED BY <1>1, <1>2

\* The receipts with a newer one are the latest of the payments with that one.
LEMMA LatestStill ==
  ASSUME NEW A \in SUBSET Nat, NEW s \in Seq(Receipts), NEW r \in Receipts, Latest(A, s),
         \A k \in A : k < r.tx[2]
  PROVE  MergeReceipts(r, s) \in Seq(Receipts) /\ Latest(A \cup {r.tx[2]}, MergeReceipts(r, s))
<1>. DEFINE t == MergeReceipts(r, s)
            no == r.tx[2]
            N == Len(s)
            M == Len(t)
<1>1. /\ no \in Nat /\ N \in Nat /\ MaxKept \in Nat /\ N <= MaxKept
      /\ \A i \in 1 .. N : s[i] \in Receipts /\ s[i].tx[2] \in A
  BY ReceiptNumbers, PaymentAssumption DEF Latest, Numbers
<1>2. \A i \in 1 .. N : s[i].tx # r.tx
  BY <1>1
<1>3. /\ t \in Seq(Receipts)
      /\ M = IF MaxKept < N + 1 THEN MaxKept ELSE N + 1
      /\ \A i \in 1 .. M : t[i] = IF i = 1 THEN r ELSE s[i - 1]
  BY <1>1, <1>2, MergedReceipts
<1>. HIDE DEF t, no, N, M
<1>4. M \in Nat /\ M <= MaxKept /\ M <= N + 1 /\ (M = N + 1 \/ M = MaxKept) /\ N <= M
  BY <1>1, <1>3
<1>5. \A i \in 1 .. M : \/ i = 1 /\ t[i].tx[2] = no
                        \/ i - 1 \in 1 .. N /\ t[i].tx[2] = s[i - 1].tx[2]
  BY <1>1, <1>3, <1>4 DEF no
<1>6. Numbers(t) \subseteq A \cup {no}
  BY <1>1, <1>5 DEF Numbers, M
<1>7. ASSUME NEW i \in 1 .. M, NEW j \in 1 .. M, i < j PROVE t[j].tx[2] < t[i].tx[2]
  <2>1. j - 1 \in 1 .. N /\ t[j].tx[2] = s[j - 1].tx[2]
    BY <1>4, <1>5, <1>7
  <2>2. CASE i = 1 /\ t[i].tx[2] = no
    BY <1>1, <2>1, <2>2 DEF no
  <2>3. CASE i - 1 \in 1 .. N /\ t[i].tx[2] = s[i - 1].tx[2]
    <3>1. i - 1 < j - 1
      BY <1>4, <1>7
    <3>. QED BY <2>1, <2>3, <3>1 DEF Latest, N
  <2>. QED BY <1>5, <2>2, <2>3
<1>8. ASSUME NEW k \in A \cup {no}, k \notin Numbers(t)
      PROVE  M = MaxKept /\ \A n \in Numbers(t) : k < n
  <2>1. \A i \in 1 .. M : k # t[i].tx[2]
    BY <1>8 DEF Numbers, M
  <2>2. CASE M = 0
    <3>1. MaxKept = 0
      BY <1>1, <1>3, <2>2
    <3>2. Numbers(t) = {}
      BY <2>2 DEF Numbers, M
    <3>. QED BY <2>2, <3>1, <3>2
  <2>3. CASE M # 0
    <3>1. 1 \in 1 .. M /\ t[1].tx[2] = no
      BY <1>3, <1>4, <2>3 DEF no
    <3>2. k \in A /\ k < no
      BY <2>1, <3>1 DEF no
    <3>3. CASE k \notin Numbers(s)
      <4>1. N = MaxKept /\ \A i \in 1 .. N : k < s[i].tx[2]
        BY <3>2, <3>3 DEF Latest, Numbers, N
      <4>2. M = MaxKept
        BY <1>1, <1>3, <4>1
      <4>3. \A i \in 1 .. M : k < t[i].tx[2]
        BY <1>5, <3>2, <4>1
      <4>. QED BY <4>2, <4>3 DEF Numbers, M
    <3>4. CASE k \in Numbers(s)
      <4>1. PICK i \in 1 .. N : k = s[i].tx[2]
        BY <3>4 DEF Numbers, N
      <4>2. i + 1 \notin 1 .. M
        <5>1. SUFFICES ASSUME i + 1 \in 1 .. M PROVE FALSE
          OBVIOUS
        <5>2. t[i + 1] = s[i + 1 - 1] /\ i + 1 - 1 = i
          BY <1>1, <1>3, <5>1
        <5>. QED BY <2>1, <4>1, <5>1, <5>2
      <4>3. i = N /\ M = N /\ M = MaxKept
        BY <1>1, <1>3, <1>4, <2>3, <4>2
      <4>4. ASSUME NEW j \in 1 .. M PROVE k < t[j].tx[2]
        <5>1. CASE j = 1 /\ t[j].tx[2] = no
          BY <3>2, <5>1
        <5>2. CASE j - 1 \in 1 .. N /\ t[j].tx[2] = s[j - 1].tx[2]
          <6>1. j - 1 < i
            BY <1>1, <4>3
          <6>. QED BY <4>1, <5>2, <6>1 DEF Latest, N
        <5>. QED BY <1>5, <5>1, <5>2
      <4>. QED BY <4>3, <4>4 DEF Numbers, M
    <3>. QED BY <3>3, <3>4
  <2>. QED BY <2>2, <2>3
<1>9. M <= MaxKept
  BY <1>1, <1>4
<1>10. Latest(A \cup {no}, t)
  BY <1>6, <1>7, <1>8, <1>9 DEF Latest, M
<1>. QED BY <1>3, <1>10 DEF t, no

\* Each receipt of v is of an answered request that was paid the amount on it.
IsHonest(v, r) ==
  /\ r.tx[1] = v /\ told[r.tx] = "done"
  /\ \E l \in landed : l.ok /\ l.tx.name = r.tx /\ l.tx.op.amount = r.amount

ReceiptsInv(v) ==
  /\ kept[v] \in Seq(Receipts)
  /\ \A i \in 1 .. Len(kept[v]) : IsHonest(v, kept[v][i])
  /\ lost[v] \subseteq Answered(v) /\ Latest(Stored(v), kept[v])

\* The call of a request is for the amount asked for.
CallAsks(v) ==
  call[v].phase \in {"simulate", "send", "poll", "returned"} =>
    call[v].tx.op.amount = request[v].amount

KeptInv ==
  /\ DOMAIN kept = Visitors /\ DOMAIN lost = Visitors
  /\ \A v \in Visitors : ReceiptsInv(v) /\ CallAsks(v)

\* A step that keeps the receipts and answers no request as paid.
NothingAnswered ==
  /\ kept' = kept /\ lost' = lost /\ landed \subseteq landed'
  /\ \A r \in Requests : told'[r] = "done" <=> told[r] = "done"

LEMMA ReceiptsStill ==
  ASSUME KeptInv, NothingAnswered, NEW v \in Visitors
  PROVE  ReceiptsInv(v)'
<1>1. ReceiptsInv(v) /\ kept'[v] = kept[v] /\ lost'[v] = lost[v]
  BY DEF KeptInv, NothingAnswered
<1>2. Answered(v)' = Answered(v) /\ Stored(v)' = Stored(v)
  BY <1>1, RequestsAre DEF Answered, Stored, NothingAnswered
<1>3. \A i \in 1 .. Len(kept[v]) : kept[v][i] \in Receipts
  BY <1>1 DEF ReceiptsInv
<1>4. ASSUME NEW i \in 1 .. Len(kept[v]) PROVE IsHonest(v, kept[v][i])'
  <2>. DEFINE r == kept[v][i]
  <2>1. r.tx \in Requests /\ IsHonest(v, r) /\ kept'[v][i] = r
    BY <1>1, <1>3, ReceiptNumbers DEF ReceiptsInv
  <2>. HIDE DEF r
  <2>2. told'[r.tx] = "done"
    BY <2>1 DEF IsHonest, NothingAnswered
  <2>3. \E l \in landed' : l.ok /\ l.tx.name = r.tx /\ l.tx.op.amount = r.amount
    BY <2>1 DEF IsHonest, NothingAnswered
  <2>. QED BY <2>1, <2>2, <2>3 DEF IsHonest
<1>5. (\A i \in 1 .. Len(kept[v]) : IsHonest(v, kept[v][i]))'
  BY <1>1, <1>4
<1>. QED BY <1>1, <1>2, <1>5 DEF ReceiptsInv

\* A call asks for the amount of its request until both are over.
LEMMA CallStillAsks ==
  ASSUME KeptInv, NEW v \in Visitors,
         \/ call'[v].phase \notin {"simulate", "send", "poll", "returned"}
         \/ /\ call[v].phase \in {"simulate", "send", "poll", "returned"}
            /\ call'[v].tx = call[v].tx /\ request'[v].amount = request[v].amount
         \/ call'[v].tx.op.amount = request'[v].amount
  PROVE  CallAsks(v)'
BY DEF KeptInv, CallAsks

\* A call that returned is the payment it was for.
LEMMA ReturnedIsPaid ==
  ASSUME PaymentInv, SettleInv, KeptInv, NEW v \in Visitors, call[v].phase = "returned"
  PROVE  /\ call[v].tx.name = Current(v) /\ request[v].amount \in Amounts
         /\ Current(v) \in Requests /\ request[v] # NoRequest
         /\ \E l \in landed : l.ok /\ l.tx.name = Current(v) /\ l.tx.op.amount = request[v].amount
<1>. USE DEF PaymentInv
<1>1. /\ call[v].tx.name = Current(v) /\ Current(v) \in Paid /\ request[v] # NoRequest
      /\ call[v].tx.op.amount = request[v].amount /\ call[v].tx \in Transactions
  BY InTransactions DEF SettleInv, CallTells, KeptInv, CallAsks
<1>2. PICK l \in landed : l.ok /\ l.tx.name = Current(v)
  BY <1>1 DEF Paid
<1>3. l.tx = call[v].tx
  BY <1>1, <1>2, InTransactions DEF TransactionsInv
<1>4. IsPayment(call[v].tx)
  BY <1>1 DEF TransactionsInv
<1>5. request[v].amount \in Amounts /\ Current(v) \in Requests
  BY <1>1, <1>4 DEF IsPayment
<1>. QED BY <1>1, <1>2, <1>3, <1>5

\* The page answers a request as paid; sessionStorage takes its receipt or refuses it.
LEMMA DoneKeeps ==
  ASSUME PaymentInv, SettleInv, KeptInv, NEW v \in Visitors, Done(v), NEW w \in Visitors
  PROVE  ReceiptsInv(w)'
<1>. DEFINE r == [tx |-> call[v].tx.name, amount |-> request[v].amount]
            no == request[v].no
            s == kept[v]
            t == MergeReceipts(r, s)
<1>1. /\ call[v].tx.name = Current(v) /\ request[v].amount \in Amounts
      /\ Current(v) \in Requests /\ request[v] # NoRequest
      /\ \E l \in landed : l.ok /\ l.tx.name = Current(v) /\ l.tx.op.amount = request[v].amount
  BY ReturnedIsPaid DEF Done
<1>2. /\ told' = [told EXCEPT ![Current(v)] = "done"] /\ DOMAIN told = Requests
      /\ DOMAIN kept = Visitors /\ DOMAIN lost = Visitors /\ landed' = landed
      /\ \/ kept' = [kept EXCEPT ![v] = t] /\ lost' = lost
         \/ kept' = kept /\ lost' = [lost EXCEPT ![v] = @ \cup {r.tx[2]}]
  BY DEF Done, SaveReceipt, EndRequest, ledgerVars, PaymentInv, RequestsInv, KeptInv
<1>3. /\ no \in 1 .. MaxTries[v] /\ MaxTries[v] \in Nat /\ Current(v) = <<v, no>>
      /\ \A k \in 1 .. MaxTries[v] : no < k => told[<<v, k>>] = "unasked"
      /\ told[<<v, no>>] = "running"
  BY <1>1, RequestsAre DEF PaymentInv, RequestsInv, RequestInv, SettleInv, Current
<1>4. r \in Receipts /\ r.tx = <<v, no>> /\ r.tx[2] = no /\ r.amount = request[v].amount
  BY <1>1, <1>3 DEF Receipts
<1>. HIDE DEF r, no, s, t
<1>5. \A x \in Requests : told'[x] = IF x = <<v, no>> THEN "done" ELSE told[x]
  BY <1>2, <1>3
\* Receipts that were kept and stay are as good as they were.
<1>6. ASSUME kept'[w] = kept[w] PROVE (\A i \in 1 .. Len(kept[w]) : IsHonest(w, kept[w][i]))'
  <2>1. ASSUME NEW i \in 1 .. Len(kept[w]) PROVE IsHonest(w, kept[w][i])'
    <3>. DEFINE x == kept[w][i]
    <3>1. x \in Receipts /\ x.tx \in Requests /\ IsHonest(w, x) /\ kept'[w][i] = x
      BY <1>6, ReceiptNumbers DEF KeptInv, ReceiptsInv
    <3>. HIDE DEF x
    <3>2. told'[x.tx] = "done"
      BY <1>5, <3>1 DEF IsHonest
    <3>. QED BY <1>2, <3>1, <3>2 DEF IsHonest
  <2>. QED BY <1>6, <2>1
<1>7. CASE w # v
  <2>1. kept'[w] = kept[w] /\ lost'[w] = lost[w] /\ ReceiptsInv(w)
    BY <1>2, <1>7 DEF KeptInv
  <2>2. \A k \in 1 .. MaxTries[w] : <<w, k>> \in Requests /\ <<w, k>> # <<v, no>>
    BY <1>7, RequestsAre
  <2>3. Answered(w)' = Answered(w)
    BY <1>5, <2>2 DEF Answered
  <2>4. Stored(w)' = Stored(w)
    BY <2>1, <2>3 DEF Stored
  <2>. QED BY <1>6, <2>1, <2>3, <2>4 DEF ReceiptsInv
<1>8. /\ s \in Seq(Receipts) /\ Latest(Stored(v), s) /\ \A i \in 1 .. Len(s) : IsHonest(v, s[i])
      /\ lost[v] \subseteq Answered(v)
  BY DEF KeptInv, ReceiptsInv, s
<1>9. /\ Answered(v) \in SUBSET Nat /\ no \notin Answered(v) /\ \A k \in Answered(v) : k < no
      /\ Stored(v) \subseteq Answered(v)
  BY <1>3 DEF Answered, Stored
<1>10. Answered(v)' = Answered(v) \cup {no}
  BY <1>3, <1>5, RequestsAre DEF Answered
<1>11. CASE w = v /\ kept' = kept /\ lost' = [lost EXCEPT ![v] = @ \cup {r.tx[2]}]
  <2>1. kept'[v] = kept[v] /\ lost'[v] = lost[v] \cup {no}
    BY <1>2, <1>4, <1>11
  <2>2. Stored(v)' = Stored(v) /\ lost'[v] \subseteq Answered(v)'
    BY <1>8, <1>9, <1>10, <2>1 DEF Stored
  <2>. QED BY <1>6, <1>8, <1>11, <2>1, <2>2 DEF ReceiptsInv, s
<1>12. CASE w = v /\ kept' = [kept EXCEPT ![v] = t] /\ lost' = lost
  <2>1. s \in Seq(Receipts) /\ Latest(Stored(v), s) /\ \A i \in 1 .. Len(s) : IsHonest(v, s[i])
    BY <1>8
  <2>2. Stored(v) \in SUBSET Nat /\ \A k \in Stored(v) : k < no
    BY <1>9
  <2>3. t \in Seq(Receipts) /\ Latest(Stored(v) \cup {no}, t)
    BY <1>4, <2>1, <2>2, LatestStill DEF t
  <2>4. Stored(v)' = Stored(v) \cup {no} /\ lost'[v] = lost[v] /\ lost[v] \subseteq Answered(v)'
    BY <1>8, <1>9, <1>10, <1>12 DEF Stored
  <2>5. \A i \in 1 .. Len(s) : s[i] \in Receipts /\ s[i].tx # r.tx /\ IsHonest(v, s[i])
    <3>. SUFFICES ASSUME NEW i \in 1 .. Len(s)
                  PROVE  s[i] \in Receipts /\ s[i].tx # r.tx /\ IsHonest(v, s[i])
      OBVIOUS
    <3>1. s[i] \in Receipts /\ IsHonest(v, s[i])
      BY <2>1
    <3>2. told[s[i].tx] = "done"
      BY <3>1 DEF IsHonest
    <3>. QED BY <1>3, <1>4, <3>1, <3>2
  <2>6. \A i \in 1 .. Len(t) : t[i] = r \/ \E j \in 1 .. Len(s) : t[i] = s[j]
    <3>1. Len(s) <= MaxKept /\ Len(s) \in Nat /\ MaxKept \in Nat
      BY <2>1, PaymentAssumption DEF Latest
    <3>2. /\ Len(t) = IF MaxKept < Len(s) + 1 THEN MaxKept ELSE Len(s) + 1
          /\ \A i \in 1 .. Len(t) : t[i] = IF i = 1 THEN r ELSE s[i - 1]
      BY <1>4, <2>1, <2>5, <3>1, MergedReceipts DEF t
    <3>3. \A i \in 1 .. Len(t) : i = 1 \/ i - 1 \in 1 .. Len(s)
      BY <3>1, <3>2
    <3>. QED BY <3>2, <3>3
  <2>7. kept'[v] = t
    BY <1>2, <1>12
  <2>8. ASSUME NEW i \in 1 .. Len(t) PROVE IsHonest(v, kept[v][i])'
    <3>. kept'[v][i] = t[i]
      BY <2>7
    <3>1. CASE t[i] = r
      <4>1. told'[r.tx] = "done" /\ r.tx[1] = v
        BY <1>1, <1>3, <1>4, <1>5
      <4>2. \E l \in landed' : l.ok /\ l.tx.name = r.tx /\ l.tx.op.amount = r.amount
        BY <1>1, <1>2, <1>3, <1>4
      <4>. QED BY <3>1, <2>7, <4>1, <4>2 DEF IsHonest
    <3>2. CASE \E j \in 1 .. Len(s) : t[i] = s[j]
      <4>1. t[i] \in Receipts /\ t[i].tx # <<v, no>> /\ IsHonest(v, t[i]) /\ t[i].tx \in Requests
        BY <1>4, <2>5, <3>2, ReceiptNumbers
      <4>2. told'[t[i].tx] = "done"
        BY <1>5, <4>1 DEF IsHonest
      <4>. QED BY <1>2, <2>7, <4>1, <4>2 DEF IsHonest
    <3>. QED BY <2>6, <3>1, <3>2
  <2>9. (\A i \in 1 .. Len(kept[v]) : IsHonest(v, kept[v][i]))'
    BY <2>7, <2>8
  <2>. QED BY <1>12, <2>3, <2>4, <2>7, <2>9 DEF ReceiptsInv
<1>. QED BY <1>2, <1>7, <1>11, <1>12

\* A request that ends, other than as paid.
LEMMA OtherEndings ==
  ASSUME PaymentInv, SettleInv, NEW v \in Visitors,
         RefuseAmount(v) \/ StageFails(v) \/ Failed(v) \/ CutOff(v)
            \/ (Rebuild(v) /\ EndRequest(v, "refused"))
  PROVE  /\ NothingAnswered
         /\ call'[v].phase = "idle"
         /\ \A w \in Visitors \ {v} : request'[w] = request[w] /\ call'[w] = call[w]
<1>. USE DEF PaymentInv
<1>1. PICK outcome \in {"refused", "unanswered"} : EndRequest(v, outcome)
  BY DEF RefuseAmount, StageFails, Failed, CutOff, RequestsInv, CallInv
<1>2. /\ kept' = kept /\ lost' = lost /\ landed' = landed /\ request[v] # NoRequest
      /\ \/ call' = [call EXCEPT ![v] = NotCalling]
         \/ call' = call /\ request[v].phase \in {"rebuild", "prove"}
  BY DEF RefuseAmount, StageFails, Failed, CutOff, Rebuild, ledgerVars, chainVars, NoRequest
<1>3. call'[v].phase = "idle" /\ \A w \in Visitors \ {v} : call'[w] = call[w]
  BY <1>2 DEF NotCalling, RequestsInv, SettleInv, CallTells
<1>4. told[Current(v)] = "running" /\ Current(v) \in Requests /\ DOMAIN told = Requests
      /\ \A w \in Visitors \ {v} : request'[w] = request[w]
  BY <1>1, <1>2, CurrentIs DEF SettleInv, RequestsInv, EndRequest
<1>5. \A r \in Requests : told'[r] = "done" <=> told[r] = "done"
  BY <1>1, <1>4 DEF EndRequest
<1>. QED BY <1>2, <1>3, <1>4, <1>5 DEF NothingAnswered

\* A request that starts, or goes on to its call.
LEMMA RequestGoesOn ==
  ASSUME PaymentInv, SettleInv, NEW v \in Visitors,
         (\E amount \in Amounts : Submit(v, amount)) \/ Rebuild(v) \/ ProveAndInvoke(v),
         ~ (Rebuild(v) /\ EndRequest(v, "refused"))
  PROVE  /\ NothingAnswered
         /\ \/ call'[v].phase \notin {"simulate", "send", "poll", "returned"}
            \/ call'[v].tx.op.amount = request'[v].amount
         /\ \A w \in Visitors \ {v} : request'[w] = request[w] /\ call'[w] = call[w]
<1>. USE DEF PaymentInv
<1>0. DOMAIN request = Visitors /\ DOMAIN call = Visitors /\ DOMAIN told = Requests
  BY DEF RequestsInv
<1>1. CASE \E amount \in Amounts : Submit(v, amount)
  <2>1. PICK amount \in Amounts, no \in 1 .. MaxTries[v] :
          /\ request[v] = NoRequest
          /\ \A k \in 1 .. MaxTries[v] : told[<<v, k>>] = "unasked" <=> k >= no
          /\ request' = [request EXCEPT ![v] = [phase |-> "rebuild", no |-> no, amount |-> amount]]
          /\ told' = [told EXCEPT ![<<v, no>>] = "running"]
          /\ UNCHANGED <<chainVars, kept, lost>>
    BY <1>1 DEF Submit
  <2>2. told[<<v, no>>] = "unasked"
    <3>1. no >= no
      BY RequestsAre
    <3>. QED BY <2>1, <3>1
  <2>3. call'[v].phase = "idle"
    BY <2>1 DEF SettleInv, CallTells, chainVars
  <2>4. NothingAnswered
    BY <1>0, <2>1, <2>2 DEF NothingAnswered, chainVars
  <2>. QED BY <1>0, <2>1, <2>3, <2>4 DEF chainVars
<1>2. CASE Rebuild(v)
  <2>1. PICK built \in DOMAIN account[Guest].openings :
          /\ request' = [request EXCEPT ![v] =
               [ phase |-> "prove", no |-> request[v].no,
                 amount |-> request[v].amount, built |-> built ]]
          /\ UNCHANGED told
    BY <1>2 DEF Rebuild
  <2>2. call' = call /\ landed' = landed /\ kept' = kept /\ lost' = lost /\ request[v].phase = "rebuild"
    BY <1>2 DEF Rebuild, chainVars
  <2>3. call[v].phase = "idle"
    BY <2>2 DEF SettleInv, CallTells
  <2>. QED BY <1>0, <2>1, <2>2, <2>3 DEF NothingAnswered
<1>3. CASE ProveAndInvoke(v)
  <2>. DEFINE op == Transfer(Guest, Building, request[v].amount, request[v].built)
              tx == [source |-> Guest, seq |-> account[Guest].seq + 1, op |-> op, name |-> Current(v)]
              next == [request[v] EXCEPT !.phase = "submit"]
  <2>1. /\ call' = [call EXCEPT ![v] = [phase |-> "simulate", tx |-> tx]]
        /\ request' = [request EXCEPT ![v] = next] /\ UNCHANGED <<told, kept, lost, landed>>
        /\ request[v].phase = "prove" /\ request[v] # NoRequest
    BY <1>3 DEF ProveAndInvoke, Invoke, ledgerVars, NoRequest
  <2>2. request[v] = [ phase |-> "prove", no |-> request[v].no,
                       amount |-> request[v].amount, built |-> request[v].built ]
    BY <2>1 DEF RequestsInv, RequestInv
  <2>3. next.amount = request[v].amount
    BY <2>2
  <2>4. tx.op.amount = request[v].amount
    BY DEF Transfer
  <2>. HIDE DEF tx, next
  <2>. QED BY <1>0, <2>1, <2>3, <2>4 DEF NothingAnswered
<1>. QED BY <1>1, <1>2, <1>3

\* The steps of invoke leave the transaction of the call as it is.
LEMMA CallGoesOn ==
  ASSUME PaymentInv, NEW v \in Visitors, InvokeStep(v) \/ InvokeFails(v), UNCHANGED pageVars
  PROVE  /\ NothingAnswered
         /\ \/ call'[v].phase \notin {"simulate", "send", "poll", "returned"}
            \/ /\ call[v].phase \in {"simulate", "send", "poll", "returned"}
               /\ call'[v].tx = call[v].tx /\ request'[v].amount = request[v].amount
         /\ \A w \in Visitors \ {v} : request'[w] = request[w] /\ call'[w] = call[w]
<1>. USE DEF PaymentInv
<1>0. DOMAIN call = Visitors /\ UNCHANGED <<request, told, kept, lost>>
  BY DEF RequestsInv, pageVars
<1>1. PICK next : call' = [call EXCEPT ![v] = next] /\ landed' = landed /\
        (\/ next.phase = "threw"
         \/ call[v].phase \in {"simulate", "send", "poll"} /\ next.tx = call[v].tx)
  <2>1. CASE Simulate(v)
    <3>. DEFINE next == IF Accepts(call[v].tx.op) THEN [phase |-> "send", tx |-> call[v].tx]
                        ELSE Threw("refused")
    <3>1. /\ call' = [call EXCEPT ![v] = next] /\ landed' = landed
          /\ call[v].phase = "simulate"
      BY <2>1 DEF Simulate, ledgerVars
    <3>2. next.phase = "threw" \/ next.tx = call[v].tx
      BY DEF Threw
    <3>. HIDE DEF next
    <3>. QED BY <3>1, <3>2
  <2>2. CASE Send(v)
    <3>. DEFINE next == Polling(call[v].tx)
    <3>1. /\ call' = [call EXCEPT ![v] = next] /\ landed' = landed
          /\ call[v].phase = "send"
      BY <2>2 DEF Send
    <3>2. next.tx = call[v].tx
      BY DEF Polling
    <3>. HIDE DEF next
    <3>. QED BY <3>1, <3>2
  <2>3. CASE Poll(v)
    <3>1. call[v].phase = "poll" /\ call' = [call EXCEPT ![v] = AfterPoll(call[v])] /\ landed' = landed
      BY <2>3 DEF Poll, ledgerVars
    <3>2. call[v] = [phase |-> "poll", tx |-> call[v].tx, polls |-> call[v].polls]
      BY <3>1 DEF RequestsInv, CallInv
    <3>3. AfterPoll(call[v]).phase = "threw" \/ AfterPoll(call[v]).tx = call[v].tx
      BY <3>2 DEF AfterPoll, Returned, Threw
    <3>. QED BY <3>1, <3>3
  <2>4. CASE InvokeFails(v)
    BY <2>4 DEF InvokeFails, SimulateFails, SendRejected, SendUnanswered, PollFails, Threw, ledgerVars
  <2>. QED BY <2>1, <2>2, <2>3, <2>4 DEF InvokeStep
<1>. QED BY <1>0, <1>1 DEF NothingAnswered

LEMMA NextKeepsReceipts == PaymentInv /\ SettleInv /\ KeptInv /\ [Next]_vars => KeptInv'
<1>. SUFFICES ASSUME PaymentInv, SettleInv, KeptInv, [Next]_vars PROVE KeptInv'
  OBVIOUS
<1>1. ASSUME NothingAnswered, \A w \in Visitors : CallAsks(w)' PROVE KeptInv'
  <2>1. \A w \in Visitors : ReceiptsInv(w)'
    BY <1>1, ReceiptsStill
  <2>2. (\A w \in Visitors : ReceiptsInv(w) /\ CallAsks(w))'
    BY <1>1, <2>1 DEF Visitors
  <2>3. (DOMAIN kept = Visitors /\ DOMAIN lost = Visitors)'
    BY <1>1 DEF NothingAnswered, KeptInv, Visitors
  <2>. QED BY <2>2, <2>3 DEF KeptInv
<1>2. ASSUME NEW v \in Visitors, CallAsks(v)',
             \A w \in Visitors \ {v} : request'[w] = request[w] /\ call'[w] = call[w]
      PROVE  \A w \in Visitors : CallAsks(w)'
  BY <1>2, CallStillAsks
<1>3. ASSUME NEW v \in Visitors,
             \/ RefuseAmount(v) \/ StageFails(v) \/ Failed(v) \/ CutOff(v)
             \/ Rebuild(v) /\ EndRequest(v, "refused")
      PROVE  KeptInv'
  <2>1. /\ NothingAnswered /\ call'[v].phase = "idle"
        /\ \A w \in Visitors \ {v} : request'[w] = request[w] /\ call'[w] = call[w]
    BY <1>3, OtherEndings
  <2>2. CallAsks(v)'
    BY <2>1, CallStillAsks
  <2>. QED BY <1>1, <1>2, <2>1, <2>2
<1>4. ASSUME NEW v \in Visitors,
             (\E amount \in Amounts : Submit(v, amount)) \/ Rebuild(v) \/ ProveAndInvoke(v),
             ~ (Rebuild(v) /\ EndRequest(v, "refused"))
      PROVE  KeptInv'
  <2>1. /\ NothingAnswered
        /\ \/ call'[v].phase \notin {"simulate", "send", "poll", "returned"}
           \/ call'[v].tx.op.amount = request'[v].amount
        /\ \A w \in Visitors \ {v} : request'[w] = request[w] /\ call'[w] = call[w]
    BY <1>4, RequestGoesOn
  <2>2. CallAsks(v)'
    BY <2>1, CallStillAsks
  <2>. QED BY <1>1, <1>2, <2>1, <2>2
<1>5. ASSUME NEW v \in Visitors, InvokeStep(v) \/ InvokeFails(v), UNCHANGED pageVars
      PROVE  KeptInv'
  <2>1. /\ NothingAnswered
        /\ \/ call'[v].phase \notin {"simulate", "send", "poll", "returned"}
           \/ /\ call[v].phase \in {"simulate", "send", "poll", "returned"}
              /\ call'[v].tx = call[v].tx /\ request'[v].amount = request[v].amount
        /\ \A w \in Visitors \ {v} : request'[w] = request[w] /\ call'[w] = call[w]
    BY <1>5, CallGoesOn
  <2>2. CallAsks(v)'
    BY <2>1, CallStillAsks
  <2>. QED BY <1>1, <1>2, <2>1, <2>2
<1>6. ASSUME NEW v \in Visitors, Done(v) PROVE KeptInv'
  <2>1. \A w \in Visitors : ReceiptsInv(w)'
    BY <1>6, DoneKeeps
  <2>2. /\ call'[v].phase = "idle" /\ DOMAIN kept' = Visitors /\ DOMAIN lost' = Visitors
        /\ \A w \in Visitors \ {v} : request'[w] = request[w] /\ call'[w] = call[w]
    BY <1>6 DEF Done, SaveReceipt, EndRequest, NotCalling, PaymentInv, RequestsInv, KeptInv
  <2>3. CallAsks(v)'
    BY <2>2, CallStillAsks
  <2>4. \A w \in Visitors : CallAsks(w)'
    BY <1>2, <2>2, <2>3
  <2>5. (\A w \in Visitors : ReceiptsInv(w) /\ CallAsks(w))' /\ (DOMAIN kept = Visitors /\ DOMAIN lost = Visitors)'
    BY <2>1, <2>2, <2>4 DEF Visitors
  <2>. QED BY <2>5 DEF KeptInv
<1>7. CASE (LedgerStep /\ UNCHANGED pageVars) \/ UNCHANGED vars
  <2>1. UNCHANGED <<call, request, told, kept, lost>> /\ landed \subseteq landed'
    BY <1>7 DEF LedgerStep, Include, Expire, vars, pageVars, chainVars
  <2>2. NothingAnswered
    BY <2>1 DEF NothingAnswered
  <2>3. \A w \in Visitors : CallAsks(w)'
    BY <2>1 DEF KeptInv, CallAsks
  <2>. QED BY <1>1, <2>2, <2>3
<1>. QED BY <1>3, <1>4, <1>5, <1>6, <1>7 DEF Next, ServerStep

LEMMA InitReceipts == Init => KeptInv
<1>. SUFFICES ASSUME Init PROVE KeptInv
  OBVIOUS
<1>1. /\ DOMAIN kept = Visitors /\ DOMAIN lost = Visitors
      /\ \A v \in Visitors : kept[v] = << >> /\ lost[v] = {} /\ call[v].phase = "idle"
  BY DEF Init, NotCalling, Visitors
<1>2. \A v \in Visitors : Answered(v) = {} /\ Stored(v) = {}
  BY RequestsAre DEF Init, Answered, Stored
<1>3. << >> \in Seq(Receipts) /\ Len(<< >>) = 0 /\ 1 .. 0 = {}
  OBVIOUS
<1>4. Latest({}, << >>)
  BY <1>3, PaymentAssumption DEF Latest, Numbers
<1>. QED BY <1>1, <1>2, <1>3, <1>4 DEF KeptInv, ReceiptsInv, CallAsks

\* What the page shows a visitor is what happened: each receipt is of an answered
\* payment that landed for its amount, and the answered payments that have none are
\* those whose own write sessionStorage refused and those older than MaxKept that have
\* one (receipt.ts mergeReceipts and saveReceipt, pay-button.tsx).
THEOREM ReceiptsTrue == Spec => []ReceiptsTellTheTruth
<1>1. Spec => [](PaymentInv /\ SettleInv /\ KeptInv)
  <2>1. Init => PaymentInv /\ SettleInv /\ KeptInv
    BY InitEstablishes, InitSettles, InitReceipts
  <2>2. PaymentInv /\ SettleInv /\ KeptInv /\ [Next]_vars => (PaymentInv /\ SettleInv /\ KeptInv)'
    BY NextKeeps, NextSettles, NextKeepsReceipts
  <2>. QED BY <2>1, <2>2, PTL DEF Spec
<1>2. PaymentInv /\ SettleInv /\ KeptInv => ReceiptsTellTheTruth
  <2>. SUFFICES ASSUME PaymentInv, SettleInv, KeptInv PROVE ReceiptsTellTheTruth
    OBVIOUS
  <2>. SUFFICES ASSUME NEW v \in Visitors
                PROVE  /\ Len(kept[v]) <= MaxKept
                       /\ \A i \in DOMAIN kept[v] :
                            /\ kept[v][i].tx \in Paid /\ kept[v][i].amount = PaidAmount(kept[v][i].tx)
                            /\ kept[v][i].tx[1] = v /\ kept[v][i].tx[2] \in Stored(v)
                            /\ \A j \in DOMAIN kept[v] : i < j => kept[v][j].tx[2] < kept[v][i].tx[2]
                       /\ \A no \in Stored(v) \ Shown(v) :
                            Len(kept[v]) = MaxKept /\ \A n \in Shown(v) : no < n
    BY DEF ReceiptsTellTheTruth
  <2>1. /\ kept[v] \in Seq(Receipts) /\ DOMAIN kept[v] = 1 .. Len(kept[v])
        /\ Latest(Stored(v), kept[v])
        /\ \A i \in 1 .. Len(kept[v]) : IsHonest(v, kept[v][i])
    BY DEF KeptInv, ReceiptsInv
  <2>2. Shown(v) = Numbers(kept[v])
    BY <2>1 DEF Shown, Numbers
  <2>3. ASSUME NEW i \in DOMAIN kept[v]
        PROVE  /\ kept[v][i].tx \in Paid /\ kept[v][i].amount = PaidAmount(kept[v][i].tx)
               /\ kept[v][i].tx[1] = v /\ kept[v][i].tx[2] \in Stored(v)
    <3>. DEFINE r == kept[v][i]
    <3>1. r \in Receipts /\ IsHonest(v, r) /\ r.tx[2] \in Stored(v)
      BY <2>1, <2>3 DEF Latest, Numbers
    <3>. HIDE DEF r
    <3>2. PICK l \in landed : l.ok /\ l.tx.name = r.tx /\ l.tx.op.amount = r.amount
      BY <3>1 DEF IsHonest
    <3>3. r.amount \in Amounts
      BY <3>1 DEF Receipts
    <3>4. \A m \in landed : m.ok /\ m.tx.name = r.tx => m.tx.op.amount = r.amount
      BY <3>2, InTransactions DEF PaymentInv, TransactionsInv
    <3>5. PaidAmount(r.tx) = r.amount
      BY <3>2, <3>3, <3>4 DEF PaidAmount
    <3>. QED BY <3>1, <3>2, <3>5 DEF IsHonest, Paid, r
  <2>. QED BY <2>1, <2>2, <2>3 DEF Latest
<1>. QED BY <1>1, <1>2, PTL
=============================================================================
