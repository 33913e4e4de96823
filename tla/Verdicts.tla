------------------------------- MODULE Verdicts -------------------------------
(***************************************************************************)
(* Whom the client believes.  Archives ingest the contract's events once   *)
(* per isolate (apps/indexer worker.js, the web archive route) and serve   *)
(* them, faithfully or not (tamper.js); judges rebuild an account from an  *)
(* archive and hold the result against the commitments they read from the  *)
(* chain (verdicts.ts, sabotage.mjs); the audit of the building does the   *)
(* same from the RPC (audit.ts).  Meanwhile the chain goes on: what is     *)
(* read at different moments may differ.                                   *)
(*                                                                         *)
(* The wallets that call the contract have replayed the log so far: see    *)
(* WalletReplay for those that have not.  Every call has its own ledger.   *)
(***************************************************************************)
EXTENDS StateEngine, FiniteSets

CONSTANTS
  Judged,      \* the account the archives are judged on (DEMO.alice)
  Building,    \* the account that is audited
  Sigma,       \* the nonce of every transfer
  Amount,      \* what a transfer or a withdrawal moves
  Isolates,    \* server processes that may serve an archive
  Runs,        \* judgements and audits in flight
  Kinds,       \* what each run may be: an archive to judge, "audit" or "sabotage"
  MaxEvents,   \* bound on the log
  MaxFailures  \* bound on failed ingestions

\* How an archive may serve what it has.
Archives == {"honest", "lagging", "omitting", "corrupting"}

ASSUME VerdictsAssumption ==
  /\ {Judged, Building} \subseteq Accounts /\ Judged # Building
  /\ Sigma \in Sigmas /\ Amount \in 1 .. MaxValue
  /\ Kinds \in [Runs -> SUBSET (Archives \cup {"audit", "sabotage"})]
  /\ MaxEvents \in Nat /\ MaxFailures \in Nat
  /\ 2 <= MaxEvents                     \* the log begins with two events
  /\ MaxEvents * Amount < FrModulus     \* amounts are 128-bit integers, far below the moduli

VARIABLES
  log,        \* the events of the closed ledgers; the position is the ledger
  commits,    \* commits[k + 1]: the commitments after the first k events
  isolate,    \* of each isolate: the promise it keeps, its scans, how far its store goes
  run,        \* of each run: where it is, then its verdict
  failures

chainVars == <<log, commits>>
vars      == <<chainVars, isolate, run, failures>>

-----------------------------------------------------------------------------
(* The chain. *)

Holders == {Judged, Building}
Wallet(a, k) == IngestEvents(a, FreshState, SubSeq(log, 1, k))
Purse(a)     == Wallet(a, Len(log)).spendable

Onchain(k) == commits[k + 1]

Emit(ev, after) ==
  /\ Len(log) < MaxEvents
  /\ log' = Append(log, ev)
  /\ commits' = Append(commits, after)
  /\ UNCHANGED <<isolate, run, failures>>

Now    == Onchain(Len(log))
Ledger == Len(log) + 1

Deposit(a) ==
  Emit([type |-> "deposit", ledger |-> Ledger, to |-> a, amount |-> Amount],
       [Now EXCEPT ![a].receivingC = PointAdd(@, Commit(Amount, 0))])

Merge(a) ==
  Emit([type |-> "merge", ledger |-> Ledger, account |-> a],
       [Now EXCEPT ![a] = [ spendableC |-> PointAdd(@.spendableC, @.receivingC),
                            receivingC |-> Commit(0, 0) ]])

Withdraw(a) ==
  /\ CanSpend(Purse(a), Amount)
  /\ LET p == BuildWithdrawWitness(a, Purse(a), Amount, Sigma).payload IN
     Emit([type |-> "withdraw", ledger |-> Ledger, from |-> a, sigma |-> p.sigma,
           bTilde |-> p.bTilde],
          [Now EXCEPT ![a].spendableC = p.cSpendNew])

Transfer(a, b) ==
  /\ CanSpend(Purse(a), Amount)
  /\ LET p == BuildTransferWitness(a, Purse(a), b, Amount, Sigma).payload IN
     Emit([type |-> "transfer", ledger |-> Ledger, from |-> a, to |-> b, rE |-> p.rE,
           vTilde |-> p.vTilde, sigma |-> p.sigma, bTilde |-> p.bTilde],
          [Now EXCEPT ![a].spendableC = p.cSpendNew,
                      ![b].receivingC = PointAdd(@, p.cTx)])

ChainStep ==
  \/ Deposit(Judged) \/ Withdraw(Judged)
  \/ \E a \in Holders : Merge(a) \/ \E b \in Holders \ {a} : Transfer(a, b)

Concerns(a, ev) ==
  CASE ev.type \in {"register", "merge"} -> ev.account = a
    [] ev.type = "deposit"  -> ev.to = a
    [] ev.type = "withdraw" -> ev.from = a
    [] ev.type = "transfer" -> a \in {ev.from, ev.to}

\* An event of a in a ledger after k, up to l.
Moved(a, k, l) == \E i \in k + 1 .. l : Concerns(a, log[i])

-----------------------------------------------------------------------------
(* The archives. *)

Cold == -1

Idle == [phase |-> "idle"]

\* The judged account has deposited and merged before anybody looks at it.
Opening0 == Commit(0, 0)
Funded   == Commit(2 * Amount, 0)
Untouched == [a \in Accounts |-> [spendableC |-> Opening0, receivingC |-> Opening0]]

Init ==
  /\ log = << [type |-> "deposit", ledger |-> 1, to |-> Judged, amount |-> 2 * Amount],
              [type |-> "merge", ledger |-> 2, account |-> Judged] >>
  /\ commits = << Untouched, [Untouched EXCEPT ![Judged].receivingC = Funded],
                  [Untouched EXCEPT ![Judged].spendableC = Funded] >>
  /\ isolate = [i \in Isolates |-> [promise |-> FALSE, scans |-> 0, through |-> Cold]]
  /\ run = [r \in Runs |-> Idle]
  /\ failures = 0

\* The requests an isolate has to answer: those routed to it.
Waiting(i) == {r \in Runs : run[r].phase \in {"health", "fetch"} /\ run[r].at = i}

\* ingestOnce: the first request that finds no promise starts one; once it is
\* fulfilled nothing is ever ingested again.
MustIngest(i) == ~ isolate[i].promise /\ Waiting(i) # {}

StartIngestion(i) ==
  /\ MustIngest(i)
  /\ isolate' = [isolate EXCEPT ![i].promise = TRUE, ![i].scans = @ + 1]
  /\ UNCHANGED <<chainVars, run, failures>>

\* The scan ends at the ledger that is the latest by then.
Ingested(i) ==
  /\ isolate[i].scans > 0
  /\ isolate' = [isolate EXCEPT ![i].scans = @ - 1, ![i].through = Len(log)]
  /\ UNCHANGED <<chainVars, run, failures>>

\* Mutant: a failed ingestion stays.
PromiseKept == TRUE

PromiseAfterFailure == FALSE

NoVerdict == [phase |-> "done", by |-> "error"]

\* The scan throws: the promise is forgotten, and who awaited it is answered 503.
IngestionFails(i) ==
  /\ isolate[i].scans > 0
  /\ failures < MaxFailures
  /\ failures' = failures + 1
  /\ isolate' = [isolate EXCEPT ![i].promise = PromiseAfterFailure, ![i].scans = @ - 1]
  /\ run' = [r \in Runs |-> IF r \in Waiting(i) THEN NoVerdict ELSE run[r]]
  /\ UNCHANGED chainVars

\* Mutant: the value is written back unchanged.
Unchanged(ev) == [ev EXCEPT !.bTilde = FrMod(@)]

\* corruptField: the last byte of b_tilde, nudged: one more.  (The byte wraps, 255 to 0,
\* where this adds one in the field: another value, and a canonical one, either way.)
Nudged(ev) == [ev EXCEPT !.bTilde = FrAdd(@, 1)]

\* dishonestStore: whether an archive of this kind serves an event, and as what.
Serves(kind, ev)  == Concerns(Judged, ev) /\ ~ (kind = "omitting" /\ ev.type = "merge")
Altered(kind, ev) == IF kind = "corrupting" /\ ev.type = "transfer" THEN Nudged(ev) ELSE ev

Serve(kind, answer, ev) ==
  IF Serves(kind, ev) THEN Append(answer, Altered(kind, ev)) ELSE answer

Served(kind, events) ==
  LET served[n \in 0 .. Len(events)] ==
        IF n = 0 THEN << >> ELSE Serve(kind, served[n - 1], events[n])
  IN served[Len(events)]

\* What it serves of the first n events.
View(kind, n) == Served(kind, SubSeq(log, 1, n))

\* Mutant: the last ledger of the range is left out of the vouching.
VouchesBelow(kind, n, asked) ==
  CASE kind = "lagging" -> FALSE
    [] kind = "honest"  -> asked < n
    [] OTHER            -> TRUE

\* isComplete for the range through asked, of a store that goes through n.
Vouches(kind, n, asked) ==
  CASE kind = "lagging" -> FALSE
    [] kind = "honest"  -> asked <= n
    [] OTHER            -> TRUE

-----------------------------------------------------------------------------
(* The judges. *)

\* confidentialBalance comes first.
BeginJudging(r) ==
  \E kind \in Kinds[r] \cap Archives, i \in Isolates :
    /\ run[r] = Idle
    /\ run' = [run EXCEPT ![r] = [phase |-> "health", kind |-> kind, at |-> i, read |-> Len(log)]]
    /\ UNCHANGED <<chainVars, isolate, failures>>

\* health: the range to ask for is the one the archive claims.  The next request may
\* be routed to another isolate.
Health(r) ==
  \E i \in Isolates :
    /\ run[r].phase = "health" /\ isolate[run[r].at].through # Cold
    /\ run' = [run EXCEPT ![r] = [ phase |-> "fetch", kind |-> @.kind, at |-> i, read |-> @.read,
                                   asked |-> isolate[run[r].at].through ]]
    /\ UNCHANGED <<chainVars, isolate, failures>>

\* Mutant: the wallet is held against the receiving commitment only.
ChecksReceivingOnly(state, k) == Opens(state.receiving, Onchain(k)[Judged].receivingC)

\* verifyAgainstChain with the commitments read after the first k ledgers.
Checks(state, k) == VerifyAgainstChain(state, Onchain(k)[Judged])

\* Replay what is served and hold it against the chain, or refuse a gap (C3).
Verdict(kind, n, asked, read) ==
  IF ~ Vouches(kind, n, asked) THEN [by |-> "C3", accepted |-> FALSE]
  ELSE LET wallet == IngestEvents(Judged, FreshState, View(kind, IF n < asked THEN n ELSE asked))
       IN [by |-> "chain", accepted |-> Checks(wallet, read), reported |-> wallet]

Finished(kind, read, asked, n, verdict) ==
  [ phase |-> "done", by |-> verdict.by, kind |-> kind, read |-> read, asked |-> asked,
    through |-> n, verdict |-> verdict ]

Judge(r) ==
  /\ run[r].phase = "fetch" /\ isolate[run[r].at].through # Cold
  /\ LET n == isolate[run[r].at].through
         v == Verdict(run[r].kind, n, run[r].asked, run[r].read)
     IN run' = [run EXCEPT ![r] = Finished(@.kind, @.read, @.asked, n, v)]
  /\ UNCHANGED <<chainVars, isolate, failures>>

\* auditBuilding: the replay comes first and the commitment afterwards.
BeginAudit(r) ==
  /\ "audit" \in Kinds[r] /\ run[r] = Idle
  /\ run' = [run EXCEPT ![r] = [ phase |-> "audit", replayed |-> Len(log),
                                 total |-> Wallet(Building, Len(log)).receiving ]]
  /\ UNCHANGED <<chainVars, isolate, failures>>

\* Mutant: the published total is committed to without its blinding.
OpenedUnblinded(opening, a, k) == Commit(opening.v, 0) = Onchain(k)[a].receivingC

Opened(opening, a, k) == Opens(opening, Onchain(k)[a].receivingC)

\* tamper.tsx: what the page says of a total and a blinding its reader enters.
Tampered(v, r, a, k) ==
  CASE v < 0 \/ r < 0   -> "awaiting"
    [] v >= 0 /\ r >= 0 -> IF Opened([v |-> v, r |-> r], a, k) THEN "opens" ELSE "mismatch"

\* demonstrateHomomorphism: a total in two halves, each under its own blinding.
HalvesAddUp(total, rA, rB) ==
  LET half == total \div 2 IN
  PointAdd(Commit(half, rA), Commit(total - half, rB)) = Commit(total, rA + rB)

Audit(r) ==
  /\ run[r].phase = "audit"
  /\ run' = [run EXCEPT ![r] =
       [ phase |-> "done", by |-> "audit", kind |-> "audit", replayed |-> @.replayed,
         total |-> @.total, read |-> Len(log), ok |-> Opened(@.total, Building, Len(log)) ]]
  /\ UNCHANGED <<chainVars, isolate, failures>>

\* sabotage.mjs: one ingestion after the commitments were read, served four ways.
BeginSabotage(r) ==
  /\ "sabotage" \in Kinds[r] /\ run[r] = Idle
  /\ run' = [run EXCEPT ![r] = [phase |-> "ingest", read |-> Len(log)]]
  /\ UNCHANGED <<chainVars, isolate, failures>>

Sabotage(r) ==
  /\ run[r].phase = "ingest"
  /\ LET n == Len(log)
         accepted == {kind \in Archives : Verdict(kind, n, n, run[r].read).accepted}
     IN run' = [run EXCEPT ![r] =
          [ phase |-> "done", by |-> "sabotage", kind |-> "sabotage", read |-> @.read,
            through |-> n, passed |-> accepted = {"honest"} ]]
  /\ UNCHANGED <<chainVars, isolate, failures>>

Answer(r) == Health(r) \/ Judge(r) \/ Audit(r) \/ Sabotage(r)

Next ==
  \/ ChainStep
  \/ \E i \in Isolates : StartIngestion(i) \/ Ingested(i) \/ IngestionFails(i)
  \/ \E r \in Runs : BeginJudging(r) \/ BeginAudit(r) \/ BeginSabotage(r) \/ Answer(r)

Spec == Init /\ [][Next]_vars

-----------------------------------------------------------------------------
(* Properties. *)

Done(kinds) == {r \in Runs : run[r].phase = "done" /\ run[r].by # "error" /\ run[r].kind \in kinds}
Judgements  == Done(Archives)

\* Type invariant; an isolate runs one ingestion at a time, however many requests
\* came while it was cold, and none once it has a store.
TypeOK ==
  /\ Len(commits) = Len(log) + 1
  /\ failures \in 0 .. MaxFailures
  /\ \A i \in Isolates :
       /\ isolate[i].through \in Cold .. Len(log)
       /\ isolate[i].scans \in {0, 1}
       /\ isolate[i].scans = 1 => isolate[i].through = Cold
  /\ \A r \in Runs : run[r].phase \in {"idle", "health", "fetch", "audit", "ingest", "done"}

\* A failed ingestion does not pin an isolate "into a broken state for the rest of its
\* life": whoever waits on a cold isolate has an ingestion to wait for, under way or
\* about to be started (MustIngest is all that StartIngestion asks for).
NobodyWaitsInVain ==
  \A i \in Isolates : isolate[i].through = Cold /\ Waiting(i) # {} =>
    isolate[i].scans > 0 \/ MustIngest(i)

\* An archive that is believed told the truth, whatever it left out or altered: the
\* openings it made the wallet report are those of the moment the chain was read.
AcceptedIsTrue ==
  \A r \in Judgements : run[r].verdict.accepted =>
    LET truth == Wallet(Judged, run[r].read) IN
    /\ run[r].verdict.reported.spendable = truth.spendable
    /\ run[r].verdict.reported.receiving = truth.receiving

\* A faithful archive is refused only for what changed between the reads: an event
\* of the account between the commitments and the archive's last ledger, or a second
\* isolate whose store ends before the range the first one claimed.
HonestRefusedOnlyIfMoved ==
  \A r \in Judgements : run[r].kind = "honest" /\ ~ run[r].verdict.accepted =>
    CASE run[r].by = "C3"    -> run[r].through < run[r].asked
      [] run[r].by = "chain" -> \/ Moved(Judged, run[r].read, run[r].asked)
                                \/ Moved(Judged, run[r].asked, run[r].read)

\* The audit publishes what the building holds; it reports a mismatch only if a
\* payment came in between the replay and the read of the commitment.  Its reader
\* cannot lie about it: of the totals below the group order only the published one
\* opens the commitment with the published blinding (tamper.tsx), and that total adds
\* up in the open as the payments did in secret, under any blindings (audit.ts).
AuditIsExact ==
  \A r \in Done({"audit"}) :
    /\ run[r].ok =>
         /\ run[r].total = Wallet(Building, run[r].read).receiving
         /\ \A v \in -1 .. FpModulus - 1 :
              Tampered(v, run[r].total.r, Building, run[r].read) = "opens" <=> v = run[r].total.v
         /\ \A rA, rB \in Fr : HalvesAddUp(run[r].total.v, rA, rB)
    /\ ~ run[r].ok => Moved(Building, run[r].replayed, run[r].read)

\* The events whose lies a later event of the account covers: a spend carries the
\* balance itself.
LastSpend(k) ==
  LET spends == {i \in 1 .. k : log[i].type \in {"withdraw", "transfer"} /\ log[i].from = Judged}
  IN IF spends = {} THEN "none"
     ELSE log[CHOOSE i \in spends : \A j \in spends : j <= i].type

\* The demonstration succeeds for an account whose last spend is a transfer, unless
\* the account moved while the script ran.
SabotageIsShown ==
  \A r \in Done({"sabotage"}) :
    LastSpend(run[r].read) = "transfer" =>
      run[r].passed \/ Moved(Judged, run[r].read, run[r].through)

\* What sabotage.mjs asks of the account it is run on: that it "has already made a
\* confidential transfer".
AnyTransferIsEnough ==
  \A r \in Done({"sabotage"}) :
    (\E i \in 1 .. run[r].read : log[i].type = "transfer" /\ log[i].from = Judged) =>
      run[r].passed \/ Moved(Judged, run[r].read, run[r].through)
=============================================================================
