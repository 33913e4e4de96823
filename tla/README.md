# A verification project for the Stellar confidential token SDK

TLA+ models, model-checking runs and machine-checked proofs about the SDK, the
archive, the payment flow and the disclosure protocol in this repository. TLC
checks small instances of every module; TLAPS proves, for every value of the
constants, the wallet's central invariants, every property of the archive and its
readers, every safety property of disclosures and of the scripts, and of payments one
spend per opening and the refinement of `Settlement`.

Paths below are relative to the repository root. `sdk/` stands for
`packages/sdk/src/`, `web/` for `apps/web/`.

## 1. Inventory

| Component | Source | State it keeps | Operations | Modules |
|---|---|---|---|---|
| Fields and commitments | `sdk/crypto/field.ts`, `grumpkin.ts` | none | `frMod`, `groupAdd`, `commit`, `ecdh` | `Field`, `Masks` |
| Digests and masks | `sdk/crypto/poseidon2.ts`, `circuits/lib` | none | spend, transfer, auditor and disclosure masks | `Witness`, `Masks` |
| Keys | `sdk/crypto/keys.ts`, `sk-derivation.ts` | none | `deriveSkFromRoot`, `vkFromSk` | `Masks` |
| Witness builders | `sdk/witness/*.ts` | none | withdraw, transfer, the two disclosures | `Witness`, `Disclosure` |
| State engine | `sdk/state/engine.ts` | one account's two openings and `lastLedger` | `load`, `ingestEvents`, `buildTransferWitness`, `verifyAgainstChain` | `StateEngine`, `WalletReplay` |
| State stores | `sdk/state/store.ts`, `json-store.ts` | openings per address | `load`, `save` | `WalletReplay` |
| Contract and circuits | external | commitments per account | register, deposit, merge, withdraw, transfer | `WalletReplay`, `PlainToken`, `ChainClient` |
| Archive store | `apps/indexer/src/store.js` | sorted events, examined ranges, latest ledger | `ingest`, `query`, `checkpoint`, `isComplete` | `EventStore` |
| Archive ingestion | `apps/indexer/src/ingest.js`, `server.js` | scan cursor, collected events, head at the start | `poll`, `ingestFromRpc` | `Archive` |
| Archive API | `apps/indexer/src/handler.js` | none | `health`, `events`, `checkpoint` | `ArchiveReader` |
| Archive client | `sdk/chain/indexer-v1.ts` | pages so far, their completeness | `fetchEvents` | `ArchiveReader`, `Verdicts` |
| Archive worker, web archive route | `apps/indexer/src/worker.js`, `web/app/api/archive` | one ingestion promise per isolate | `ingestOnce` | `Verdicts` |
| RPC reader, hybrid source | `sdk/chain/events.ts`, `event-source.ts`, `indexer.ts` | none; the caller keeps the resume cursor | `hybridFetchEvents`, row decoding, `resolveEventRef` | `Rpc`, `HybridSource`, `EventRows`, `Disclosure` |
| Chain client | `sdk/chain/client.ts` | none | `invoke` | `ChainClient` |
| Payment flow | `web/app/demo/payment-flow.ts`, `web/app/api/pay` | none between requests | `runPayment` | `Payment` |
| Receipts and pay button | `web/lib/receipt.ts`, `pay-button.tsx` | bounded list in session storage | submit, read the stream, keep a receipt | `Payment` |
| Scripts that pay | `examples/condominium.mjs`, `live-payment.mjs`, `setup-guest.mjs` | the state file | register, deposit, merge, pay, save | `PayScripts` |
| Verification page, audit | `web/app/verify/verdicts.ts`, `web/app/demo/audit.ts`, `tamper.tsx` | none across requests | `judge`, `auditBuilding` | `Verdicts` |
| Dishonest archives | `apps/indexer/src/tamper.js`, `examples/sabotage.mjs` | none | `dishonestStore` | `Verdicts` |
| Selective disclosure | `sdk/disclosure/*.ts`, `circuits/disclose_*` | none: nothing is recorded | request, prove, verify, decrypt | `Disclosure` |
| Auditor | `sdk/auditor/decrypt.ts` | none | decrypt both channels | `Masks`, `Disclosure` |
| Proving, sealing, pages, build scripts | `sdk/proving`, `sdk/crypto/seal.ts`, `web/app/page.tsx`, ... | none | see section 7 | not modelled |

How the parts meet. The contract emits one event per call. The archive copies
events from a Soroban RPC that forgets old ledgers, and serves them in pages with a
completeness flag. A wallet fetches events (from the archive, the RPC or both),
feeds them to its `StateEngine`, which rebuilds the two openings `(v, r)` of its
commitments, and checks them against the chain. A spend builds a witness from the
rebuilt opening, proves it and submits it through `invoke`; the resulting event is
what the next replay reads. Nothing but the event stream connects the wallets: what
one builder encrypts, another engine must be able to decrypt and add up. An auditor
decrypts the same events with another key, and a holder may prove to a desk what one
of them was worth.

What is hard about it:

* two moduli: digests live modulo `r`, commitments add modulo `p > r`;
* `#apply` is neither idempotent nor order-independent, so every component between
  the chain and the engine must keep order, lose nothing and repeat nothing;
* the engine's save is fired and not awaited, and only `lastLedger` is kept;
* polls overlap, the RPC's window moves under a running scan, restarts empty the
  archive, clients page while all of that happens;
* a transaction may land after its sender stopped waiting for it, and the guest
  wallet is shared: what was rebuilt may be spent before it is used;
* the scripts record what they did after they did it, in a file rewritten in place;
* what a judge reads from an archive and from the chain are two moments;
* a bundle travels: it may arrive late, relabelled, or against another request.

`PROJECT.json` lists every hazard with its line and the properties that cover it.

What makes the components correct, in one line each: the engine's openings open the
chain's commitments; a stored state can be resumed from; what a caught-up wallet
builds, the circuits accept; value is conserved; a range called complete is held; a
served history is in order and without repeats; the archive catches up; an opening is
spent once and the page's outcome is the ledger's; what a script recorded has
happened; an archive that is believed told the truth; an accepted disclosure is true
and its holder's own; an auditor reads what its key entitles it to, and no more.

## 2. Modules

```
Field -> Witness -> StateEngine -> WalletReplay -> MCWalletReplay
                        |              |  refines PlainToken
                        +-> Verdicts -> MCVerdicts
EventStore, Rpc -> Archive -> ArchiveReader    MCArchive, MCArchiveReader
EventStore, Rpc -> HybridSource                MCHybridSource
ChainClient -> Payment -> MCPayment            Payment refines Settlement
ChainClient -> PayScripts -> MCPayScripts
Masks, EventRows -> Disclosure -> MCDisclosure

proofs: StateEngineProofs -> WalletReplayProofs, VerdictsProofs   (Field, Witness too)
        EventReadersProofs (EventStore, Rpc, Archive, ArchiveReader, HybridSource)
        DisclosureProofs    PaymentProofs    PayScriptsProofs
        Induction: induction over an interval, and what an iteration reaches
```

**Field** has the two moduli as constants, `FrModulus < FpModulus`. A point
`v*G + r*H` is the pair of its scalars modulo the group order: nobody knows the
logarithm of `H`, so no run of the program equates two different pairs. `FieldIn` is
what a circuit input goes through (`toHex32` reduces modulo `r`).

**Witness** keeps of Poseidon2 that it is a function: `Poseidon` is a constant that
maps domain, secret and sigma to a digest. A shared secret is written
`<<viewer, sender, sigma>>`; both ends compute the same one. The withdraw and
transfer builders produce circuit inputs and payload, with the code's guards
(`CanSpend`). The auditor channels are left out.

**StateEngine** is `engine.ts` as operators: `Apply` is `#apply`, `IngestEvents` the
fold over a batch (a recursive function, so that it can be reasoned about),
`VerifyAgainstChain` the comparison of commitments.

**WalletReplay** closes the loop. Its variables: the open `ledger`, the `log` of
events, `commits` (the contract's commitments after each prefix of the log),
`registered`, `escrow`, and per account the engine's `state`, the number `fed` of
log events it has replayed and what its store would load (`saved`). Actions:
`Register`, `Deposit`, `Merge`, `Withdraw`, `Transfer` (contract calls, the last two
with a witness built from the engine's current opening, stale or not), `Ingest`
(any closed prefix of the rest of the log in one batch; the save succeeds or is
lost), `Restart` (`load`, then resume after `lastLedger`), `CloseLedger`. The
contract accepts a spend when the inputs open the stored commitment, the range
checks hold and the payload matches: `SpendAccepted`, `TransferAccepted`.

**PlainToken** is the abstract promise: two visible pockets per account, credit,
collect, debit, send. `WalletReplay` implements it under the mapping that reads each
commitment's value coordinate.

**EventStore** is `store.js` on a value `[events, ranges, latestLedger]`. An event
carries its coordinates `[ledger, tx, op, index]`, its family and participants; the
cursor is `<<ledger, op, index>>`, as in the code. The sort is an insertion that keeps
the order of equal cursors, the set of known cursors is applied by `Keep`, and the
loops over ranges are `JoinAll`: recursive functions, so that they can be reasoned
about.

**Rpc** is the environment of both readers: a chain that grows by whole ledgers
(`CloseLedger`), a window that slides (`Expire`), and `getEvents` with its two limits,
events per page and ledgers per call. `InLedger` stamps what a ledger emits with its
sequence number. A full page's cursor stands after its last
event, a short page's at the end of the ledgers examined; the comments in
`fetchEvents` and `ingestFromRpc` rely on both.

**Archive** adds what fills the store: `StartPass` (`poll` up to `getHealth`),
`Health` (its answer), `ScanPage` (one loop turn, with the three exits),
`ScanExpired`, `FinishPass` (`store.ingest`), `RpcError`, `Restart`. Each `await` is a boundary between actions.
`cut` is a history variable: events that a pass claimed to have examined but never
read.

**ArchiveReader** adds `IndexerV1Client.fetchEvents` against the handler's events
route (`Serve`), one page per step, so that ingests and restarts happen between
pages. It asks either for the range `health` vouches for (as `verdicts.ts` does) or
for everything from a ledger on (as `sabotage.mjs` does).

**HybridSource** is a client that calls `hybridFetchEvents` again and again with the
cursor of the last successful call. `StartSync` runs to the first await, `HealthAnswers` and
`HealthFails` are the answers of `getHealth`, after which `Plan` takes one of the
three branches; `Backfill` and `BackfillFallsShort` are the indexer's answers (the
latter covers a lagging indexer and a call that throws); `ReadPage` is one turn of
`fetchEvents`, the last of which delivers; `ReadRejected` and `ReadFails` are the
exceptions that reach the caller, who keeps the old cursor. `delivered` collects what
all calls returned. `skipped` is a history variable: what successful calls passed
over, by reason. Whether an indexer is configured is chosen once, in `HybridInit`.

**ChainClient** is `invoke` for any number of callers over a ledger of accounts,
each with a sequence number and the list of its spendable balances, one per change
of its commitment. `Invoke` reads the account, `Simulate`, `Send` and `Poll` are the
awaited calls, `SimulateFails`, `SendRejected`, `SendUnanswered` and `PollFails` what
may come back instead. A pooled transaction is included (`Include`) or dropped
(`Expire`) at any time, also after its caller threw. A transfer's proof names the
commitment it was built for (`built`), and the contract accepts only the current one.

**Payment** puts visitors on top: `Submit`, `RefuseAmount`, `Rebuild` (an RPC that
lags yields an older opening), `StageFails`, `ProveAndInvoke`, `Done`, `Failed`, and
`CutOff`, the platform's limit on a request. `told` is what the page knows of each
request, `kept` its receipts: `SaveReceipt` is what `saveReceipt` may leave in session
storage, the list `MergeReceipts` makes or, when the storage fails, the list as it was.
`lost` is a history variable: the answered payments whose receipt a failing storage dropped.

**Settlement** is the abstract promise of a request: done only if paid, refused only
if never paid, otherwise open. `Payment` implements it with `paid` the requests
whose transfer landed.

**PayScripts** runs the three scripts as lists of steps over `ChainClient`: what each
checks first (`Done`, `AlreadyThere`, `CanPay`), calls, records and saves. `Crash`
may tear the file inside `writeFileSync`; `Start` runs the script again. `calm` marks
the point after which nothing goes wrong, so that progress can be stated.

**Verdicts** has archives on several isolates, each with the ingestion promise of
`worker.js`, honest or with one of the lies of `tamper.js` (`View`: the stored
events as they are, without the merges, or with a nudged checkpoint in every transfer;
`Vouches`), and runs that judge them: `BeginJudging` reads the commitments, `Health` and
`Judge` ask the archive, perhaps another isolate each time; `BeginAudit` and `Audit` are
`auditBuilding`, in the other order; `BeginSabotage` and `Sabotage` are the script.
Payments continue between any two of these steps. Wallets replay with the operators
of `StateEngine`.

**Masks** is the cryptography of the auditors and of disclosure, symbolically: a
scalar is a term with a sign, a point `H * k` has the name of `k`, a shared secret
is the pair of names with the product of the signs, a pad is domain, squeeze, secret
and nonce, and a ciphertext opens only with its own pad. The sign is there because
both coordinates are absorbed on purpose (finding L-03 of the sources), the squeeze
because a checkpoint must not be masked like an amount (N-07).

**EventRows** reads one event in two notations: `RpcEventCoords` and `IndexerEventId`
give an event its id, `ParseIndexerEvent` decodes an indexer row, every field of a
transfer's or a withdrawal's, in each of the shapes the code admits (`Forms`), down to
widths and missing values. A withdrawal's amount is read by `ScvI128`: a bare or tagged
string, or a bare `{hi, lo}`.

**Disclosure** has the token's calls (`Transfer`, `Withdraw`), the desk's requests
(`NewDisclosureRequest`), the holder's answers in both roles (`ProveDisclosure`, with
the circuit's constraints as `RecipientCircuit` and `SenderCircuit`) and `Verify`,
which resolves the event from the RPC or the indexer and answers as
`VerifyDisclosure` does, stage by stage, for a bundle that may arrive under another
reference, circuit (also one nobody pinned), request or key. Both resolvers read one page
of their ledger, `RpcPage` and `IndexerPage`, of at most `ResolveLimit` events (200 in the
code) and follow no cursor; one row that cannot be parsed makes the indexer's whole page
fail. `Coordinates` gives each event its place in the ledger, in the RPC (`nth`) and in the
indexer's answer (`row`: the order in which the Worker pages is external).

Operators introduced by a comment `Mutant:` are deliberate mistakes. No
specification uses them; each is a plausible bug that the property named in
`PROJECT.json` is known to catch.

## 3. Runs

| Run | Configuration | Distinct states | Shows |
|---|---|---|---|
| `wallet_replay` | `MCWalletReplay.cfg` | 245,619 | all wallet properties, the inductive invariant, the refinement of `PlainToken` |
| `archive` | `MCArchive.cfg` | 19,232 | `CatchesUp`: what the RPC still serves is claimed in the end |
| `archive_reader` | `MCArchiveReader.cfg` | 1,581,726 | overlapping polls and a paging client: ranges, order, checkpoints, accepted answers |
| `hybrid` | `MCHybridSource.cfg` | 529,641 | repeated syncs: order, no repeats, no unnamed loss |
| `hybrid_live` | `MCHybridLive.cfg` | 3,500 | `ClientCatchesUp`: with an indexer every wanted event is delivered or passed over by name |
| `payment` | `MCPayment.cfg` | 30,353 | one spend per opening, true receipts, retries that know of the first payment, `Settlement`, an end for every request |
| `scripts` | `MCPayScripts.cfg` | 63,401 | records are true, a finished run paid once, a step is repeated only where its return was lost, keys outlive funds, calm runs finish |
| `verdicts` | `MCVerdicts.cfg` | 507,136 | nobody waits for a failed ingestion, no lie is believed, honest archives are refused for what moved only, the audit is exact, the demonstration shows its lies |
| `disclosure` | `MCDisclosure.cfg` | 71,127 | accepted is true, honest is accepted, the sources agree, auditors, pads |
| `archive_cut` | `ArchiveCut.cfg` | violation | finding 1 |
| `hybrid_stuck` | `HybridStuck.cfg` | violation | finding 2 |
| `script_twice` | `ScriptTwice.cfg` | violation | finding 3 |

Bounds, and why they are enough.

* `wallet_replay`: two accounts (self-transfers, transfers both ways), four events,
  three ledgers, moduli 5 < 7, values to 3. Four events suffice for deposit, merge,
  transfer, merge, the shortest log in which blindings add up past both moduli; the
  fixed digest table is chosen so that both wraps occur. One account has a store,
  the other has none; one registers inside the log. One sigma: nothing in the model
  compares sigmas, and the proofs cover any set of them. The system stops when the
  log and the ledgers are full, except that a wallet can always ingest.
* `archive`: four ledgers, each quiet or with two events that share a cursor, one
  poll (the fairness is per poll), one RPC error, one restart.
* `archive_reader`: three ledgers, each quiet or with two transactions whose events
  are reversed by the cursor or share it; pages of two, a scan window of two
  ledgers, two scan calls: a scan takes several calls, pages fill exactly, the call
  bound ends scans early, and two polls overlap in every way. The client gets one
  event per page, so every two-event history takes two requests; one restart.
  `PassSymmetry` only permutes polls; no liveness is checked here.
* `hybrid`: a window of two ledgers, five more that close with none, one or two
  events, a seam one ledger above the floor, pages of two events, a scan window of two
  ledgers, two failures. So the window passes a cold client, a stored cursor and a
  running sync, a page ends inside the head ledger, and all three reasons of `skipped`
  occur. `hybrid_live` is the same with four ledgers, single events and one failure.
* `payment`: two visitors, one of whom may ask twice; amounts to 3 with a limit of 2
  and 3 in the wallet, so that requests are out of range, compete for one opening, or
  together exceed the funds; one receipt is kept of two, and storing any of them may
  fail; polling gives up at its second answer, so every transaction may land before, during and after the polls.
* `scripts`: every script, two runs in which anything may fail and two calm ones; one
  deposit covers two payments of the dues, so that paying twice is possible.
* `verdicts`: two isolates, one judged account and the building, four events of which
  two are there at the start, moduli 7 < 11, two runs: one of any kind, the other only
  to warm an isolate up. Four events suffice for a lie before and after a spend that
  covers it, and for a payment between any two reads.
* `disclosure`: two accounts with an auditor each, two contracts, two desks, two salts
  (which a wallet may repeat), derived and random ephemeral scalars, two events of one
  transaction, two requests, one bundle; row forms that together use every branch of
  the decoder, one of them with an id of another shape; the indexer lags by one
  event. A resolver's page ends after two events: the second event is past the RPC's page,
  not past the indexer's, and shares the latter with the first, whose row can be read or
  not (the proof covers every other order). One bundle is enough because bundles do not meet: a verification reads one
  and writes none. `SigmaSymmetry` only permutes salts.
* the violation runs drop every failure they can: no errors, no restarts, one poll.
  `script_twice` is the `scripts` instance with one script.

Deadlock is checked in the runs of the archive, the reader, the hybrid source and the
wallet. Elsewhere the system may stop: all requests are answered, the script has
finished or its file is torn, the log and every run are complete.

Fairness. `Archive!Spec` has weak fairness of each poll's steps, `WF(PassStep(p))`:
`setInterval` keeps calling `poll` whatever happened to the last one, and an awaited
RPC call is answered or fails. Ledgers need not close and nothing forces the window
to move. `CatchesUp` holds for a ledger that is still served or says that it aged
out first. `HybridSource!HybridSpec` has weak fairness of a sync's steps, `WF(SyncStep)`: the
client goes on syncing and awaited calls are answered. Failures are not fair, and a
rejection is one of the answers, so `ClientCatchesUp` really depends on the retention floor
being asked for. `Payment!Spec` has weak fairness of each visitor's `ServerStep`: an awaited call is
answered, unless it fails or the platform cuts the request off, neither of which is
fair; nothing makes the ledger close. `PayScripts!Spec` has weak fairness of the
script's own steps and of the ledger: somebody reruns it until it is done, and pooled
transactions are decided. Its `ResumesToTheEnd` speaks only of calm runs. `WalletReplay`,
`Verdicts` and `Disclosure` have no liveness property and state no fairness
(`NobodyWaitsInVain` is the safety half: while somebody waits on a cold isolate, an
ingestion is under way or `MustIngest` says that the next request starts one).

## 4. Proofs

### The wallet

`tlapm` checks every leaf of these, for every set of accounts and sigmas, every pair
of moduli `r < p`, every digest function and every bound:

* `WalletReplayProofs!Invariance`: `Spec => []WalletInv`.
* `TypeCorrect`, `ReplayCorrect`, `ResumeCorrect`, `SpendEventsSelfSufficient`,
  `CaughtUpCanSpend`: the properties of run `wallet_replay` that follow from it.
* `FundsInvariance`: `Spec => []FundsInv`, and from it `FundsAccounted`
  (`Spec => []WalletsAccountForEscrow`) and `ImplementsPlain`
  (`Spec => ImplementsPlainToken`), the refinement of the token with visible balances.

Assumptions: `FieldAssumption` (`r < p`, both positive), `WitnessAssumption` (the
circuits' range fits the field, digests are field elements),
`WalletReplayAssumption` (the bounds are naturals). TLC evaluates them in run
`wallet_replay`. Nothing is assumed about primality or injectivity of digests.

The argument. `ReplayMatchesChain` is not inductive: it speaks of where an engine
is, but a restart takes it back to where its store is, and an ingest takes it over
events whose content it says nothing about. `WalletInv` adds

* `LogExplained`: each event, read with viewing keys only, tells exactly how the
  commitments moved (this is where the builders' encryption and the engine's
  decryption must agree, lemma `SpendExplained` and theorem `StateEngineProofs!Unmask`);
* `LogInOrder`: ledgers never decrease along the log, so that "everything through
  ledger l" is a prefix;
* `WalletsInPlace`: memory and store are each `InPlace` at a position: `lastLedger`
  cuts the log there, below the open ledger, and the openings open the commitments
  of that position.

`ApplySound` shows that applying an explained event keeps right openings right
(`StateEngineProofs!CommitAdd`: commitments add as openings do, modulo the group order);
`ReplayInPlace` extends it along a batch by induction over the prefix
(`Induction!SetInduction`, stated for sets because the provers cannot instantiate
the library's operator-valued induction rule), and `StateEngineProofs!BatchesCompose`
says of any state and events that two batches in a row are one: how polls cut the log does
not matter; `StaysInPlace` and `EmitPreserves`
show that appending to the log moves nobody. Then there is one lemma per action.

Commitments are equal modulo the group order, so `WalletInv` cannot say how many tokens
anybody has. `FundsInv` adds what the amounts do as integers:

* `LogMovesFunds`: each event moved the committed values as `PlainToken` moves its
  pockets, and took no more than was there;
* `EscrowBacked`: after each event, the values of all accounts add up to the escrow of
  that moment, which is at most `MaxSupply`;
* `WalletsHoldFunds`: the number in an engine, in memory or in its store, is the one that
  was committed at its place in the log.

No sum wraps, because each is a part of the escrow and `MaxSupply < FrModulus`. That
assumption is the code's: amounts are 128-bit integers, the moduli have 254 bits. Nor
can a builder hide a wrap: a witness spends at most its opening's value (`CanSpend`), and
an accepted one opens the commitment, so that the two values agree modulo the order and,
both being below it, agree. The sums are over a finite set of accounts
(`IsFiniteSet(Accounts)`), and `SumFunction` is reasoned about through what one or two
changed terms do to it. A step of `WalletReplay` then maps to the `PlainToken` action of
the same event, and a step without an event to a stutter.

### Verdicts

`VerdictsProofs` shows, for every set of isolates and runs, whatever kinds of archive they
judge, any number of events and failures and any pair of moduli:

* `VerdictsInvariance`: `Spec => []VerdictsInv`.
* `AcceptedTellTruth`, `RefusalsExplained`, `AuditsExact`, `SabotagesShown` and
  `WaitingIsServed`: the five properties of run `verdicts`.

`VerdictsInv` has three parts. `History` is what any log of this token is: each event
explains how the commitments moved (the `EventExplains` of the wallet's proof), nobody
spends what was not there, and nobody holds more than `MaxEvents * Amount`. `IsolateOK` is the isolate's promise: one scan while there is no
store, none after. `RunOK` says what a run has read so far, as positions of the log; it
stays true as the log grows, because a prefix of the log does (`PositionsStay`,
`RunStays`).

The rest is about replaying a history that was tampered with. The honest one opens the
commitments of its position (`HonestReplica`). One without the merges keeps in the
receiving balance what the account has long moved, so it holds more than the account
there (`OmitReplica`); one with a nudged transfer reports one unit more until the next
spend, whose own balance covers it (`CorruptReplica`). All of these stay below the group
order, where a point has one opening under a blinding (`OnlyOpening`), so what verifies
is the truth. This is where the assumption `MaxEvents * Amount < FrModulus` is used, and
why `AuditsExact` may say that no other total opens the building's commitment under the
published blinding. `SabotagesShown` needs `ShowsTransfer`: the account's last spend is a
transfer, so that the nudge is not covered yet. `WaitingIsServed` speaks of
`MustIngest`, the guard of the action that starts an ingestion. Assumptions: those of the wallet but `WalletReplayAssumption`, and
`VerdictsAssumption`, evaluated in run `verdicts`.

### Auditors and pads

`DisclosureProofs` shows, for every set of accounts, contracts, keys, salts and
ephemeral scalars, and any number of events, requests and bundles:

* `LogInvariance`: `Spec => []LogInv`: every event on the log is the payload of the
  call that emitted it, for some salt and some scalar.
* `PadsApart`: `Spec => []PadsKeptApart`. All amounts are masked with squeeze 0, all
  checkpoints and blindings with squeeze 1 (`TransferPads`, `WithdrawPads`), so
  repeating a salt or a scalar never makes one pad serve two kinds of plaintext.
* `BundlesInvariance`: `Spec => []DisclosureInv`: every bundle was made by its prover
  from an event on the log. It carries the next two.
* `AcceptedIsSo`: `Spec => []AcceptedIsTrue`. Against one event the circuit fixes the
  amount: its mask is the event's, made with a secret that only one account shares
  (`OnlyRecipientUnmasks`, `OnlySenderUnmasks`), or the desk had accepted a pair of
  numbers that no transfer carries.
* `HonestAccepted`: `Spec => []HonestIsAccepted`: whatever form the archive serves the
  row in, it reads back as the event (`RowsReadBack`), so the circuit sees what the
  holder proved.
* `SourcesAreOne`: `Spec => []SourcesAgree`, for every page limit and any order of the
  indexer's rows: a row is read whole or not at all (`Legible`), and a page holds exactly
  the events whose place is within the limit.
* `AuditCorrect`: `Spec => []AuditIsRight`. `EcdhIsOneKeys` is its core: a key that
  reaches the secret between `r_e` and the auditor's point is the auditor's key, sign
  included; with the x coordinate alone it would be false. `UnmaskOpens` says what a
  right and a wrong pad leave, `TransferAudited` puts the two channels together: if
  one opens and the other does not, or both fail, they do not agree.

Assumptions, all evaluated in run `disclosure`: `DisclosureAssumption` (auditor, desk
and ephemeral keys are scalars, every spend has coordinates), `KeysAssumption` (HKDF
gives no block to two accounts, and some block of every account is usable: the loop of
`deriveSkFromRoot` ends), `RandomAssumption` (nobody derived what is drawn at random),
`CoordinatesAssumption` (no two events of the chain share their coordinates) and
`RowsAssumption` (the forms of a row are those the decoder tells apart). That pads of different domains or secrets
differ is not an assumption but the symbolic model itself, see section 6.
`LogInv` is needed because the properties speak of ciphertexts only: what was
encrypted under which key is known of the call, not of the event.

### Payments

`PaymentProofs` shows, for any number of visitors, of requests of each and of accounts,
every set of amounts, every funds and every poll limit:

* `PaymentInvariance`: `Spec => []PaymentInv`.
* `OneSpend`: `Spec => []NothingSpentTwice`.
* `RetrySees`: `Spec => []RetryHasSeenThePayment`.
* `ImplementsSettled`: `Spec => ImplementsSettlement`, the refinement, step by step.
* `ReceiptsTrue`: `Spec => []ReceiptsTellTheTruth`.

None of them is inductive: they speak of what landed, and a transaction lands long
after the read that decided it. `PaymentInv` says what such a transaction is worth
meanwhile:

* `LedgerInv`: the guest's commitment has changed once per included transaction, so that
  there is one opening more than its sequence number;
* `SentInv`: a transaction that passed the simulation and is for the next sequence number
  is accepted now: it was accepted when it was simulated, and any step that changed the
  commitment since has used that number up (`IncludeKeeps`);
* `LandedInv`: so what landed spent the opening of its own sequence number, and these
  numbers differ;
* `TransactionsInv`, `RequestsInv`: a request makes one transaction, after everything its
  visitor asked before, so that sequence numbers follow the order of the requests.

`SpendInv` pairs them off: the opening after a sequence number is the one before it less
what its transaction paid, and every number up to the current one was used. The sums of
`NothingSpentTwice` follow without adding anything up. `SettleInv` says what each
request has been told, and what its call will tell it: refused while nothing of it is in
the pool or landed, done once its transaction landed. A request that is cut off, or
whose polls run out, is told neither.

`ReceiptsTrue` adds what the page keeps. A call asks for the amount of its request, and
what returned is the one landed transaction with its name (`SettleInv` and
`TransactionsInv`). A request is answered once, so its receipt is new when it is kept:
`mergeReceipts` then drops nothing but the oldest, and the receipts stay in the order of
the requests, whatever their bound. What a failing storage drops is `lost` for good, and
leaves the others as they were; an answered payment without a receipt is one of these or is
older than `MaxKept` that have one.

The argument leans on the guest making transfers only, as the application does
(section 6): a merge of nothing would use a sequence number and leave the commitment, and
a payment simulated before it could still not land, but the counting would be another.
Assumptions: `ChainClientAssumption` and `PaymentAssumption`, evaluated in run `payment`.

### Scripts

`PayScriptsProofs` shows, for any number of runs and calm runs, any dues and deposit and
any poll limit:

* `ScriptsInvariant`: `Spec => []ScriptsInv`, and `ScriptsTyped`.
* `RecordsAreTrue`, `AgainOnlyIfLost`, `KeysAreKept`, `PaidOnce`: the four safety
  properties of run `scripts`.

What makes them hard is the transaction that is still in the pool when the script has
gone on. `ScriptsInv` rests on the order of sequence numbers: within an account the call
of the moment was built last (`TransactionsInv`), so once it has returned, whatever else
of that account is in the pool has a number that was used (`Dead`), and
`NotYetPaid` and `AllDead` carry that to the end of the run: after a payment is recorded,
no other of the same run's keys can land. `LostInv` accounts for every transaction: what
was sent is recorded in the file, or is of the step of this moment, or its return was
lost. `KeysInv` orders the file and the first call. Assumptions: `PayScriptsAssumption`
and `ChainClientAssumption`, evaluated in run `scripts`; the program of each script is
unfolded once, in `ProgramIs`.

### The archive and its readers

`EventReadersProofs` shows, for any number of overlapping polls, of errors, restarts and
accounts, every chain whose blocks satisfy `BlocksAssumption`, and every page limit, scan
window, call bound and retention:

* `ReaderInvariance`: `ReaderSpec => []ReaderInv`, and `ReaderTyped`.
* `RangesAreApart`, `VouchedIsHeld`, `ServedInTurn`, `CheckpointIsLast`: what the archive
  claims, it holds, and serves in order, and what it serves as the latest checkpoint is the
  latest but for merges of the same ledger by another transaction; `NothingForgotten`: no
  step but a restart withdraws an event or a claim.
* `AcceptedWhole`, `PagesMakeOne`: what a client that pages through it accepts.

`ReaderInv` has been checked by TLC on the instance of run `archive_reader` before it was
proved. Its parts:

* `ChainOK`: the chain is in apply order, and no event is on it twice;
* `StoreOf`: the store's events are sorted by cursor and distinct, on the chain, and the
  ranges lie apart, in order, at or below the head. One lemma per operation of
  `store.js` shows what it keeps, from what an insertion does (`InsertBeforeInserts`) and
  what the loops compute (`KeepKeeps`, `SortedEventsSort`, `JoinAllJoins`). These loops
  are recursive functions, unrolled through `Induction!Iteration`;
* `PassesOK`: what a scan has collected is a stretch of the chain that ends at its cursor,
  and its cursor is not past the ledgers it has examined (`ReadSoFar`). `GetEventsPages`
  and `NextReadGoesOn` say so of one page, `StretchesJoin` of two in a row;
* `CompleteUnlessCut` itself, inductive once the scan is known;
* `ReaderOK`: the reader's answer so far is sorted, is what was asked for, ends at its
  cursor, and misses nothing up to the cursor unless a page was incomplete. Restarts and
  ingests between two pages are harmless because every page is judged by the archive
  that serves it, for the whole range: by `CompleteUnlessCut` that archive holds what is
  above the cursor, and what is below it an earlier page has returned.

Assumptions: `RpcAssumption`, `ArchiveAssumption`, `ReaderAssumption`,
`BlocksAssumption` (of one transaction a ledger's events come in the order of operation
and index) and `ParticipantsAssumption` (they name known accounts). All are evaluated in
run `archive_reader`.

### The hybrid source

The same module shows, on the same chain and the same pages, for every window, page
limit and scan window, every `fromLedger`, with and without an indexer, and however many
calls fail, are rejected or fall short:

* `HybridInvariance`: `HybridSpec => []HybridInv`.
* `DeliveredOnceInOrder` and `NothingLostUnnamed`: the two invariants of run `hybrid`.

Neither is inductive: both speak of what was delivered, and what decides it are the two
legs of a sync in flight. Everything is put in terms of places on the chain. `PickedFrom(s,
chain, lo, hi)` says that `s` was picked, in order, from the places after `lo` up to
`hi`. `HybridInv` is

* what was delivered is picked from the start up to the kept cursor, which stands within
  its own ledger (`CursorIn`), and whatever is wanted below it is delivered or passed
  over for a reason (`Covered`);
* a read in flight (`ReadingIn`) holds what is picked from after the kept cursor up to the
  place it has come to, and everything wanted up to there is known, held or passed over;
  only a fresh read from `fromLedger` itself may start above the head;
* a backfill is under way only for ledgers between the cursor and the seam, and the seam
  is at or below the head.

`PlanFits` and `SeamFits` show that each branch of `hybridFetchEvents` starts such a read:
the two legs join because the backfill ends one ledger below the seam and what the
cursor's own ledger still has is named (`rounded`), and the seam is not above the head
because the margin is smaller than the window (`HybridAssumption`; 60 against the
thousands of ledgers an RPC keeps). `PageAdds` extends a read by a page, and
`PickedStaysAsItIs` shows that `dedupeById` leaves what comes in order as it is. A sync
that throws gives up what it held, and since the cursor is kept, so is the invariant.
Assumptions: `RpcAssumption`, `BlocksAssumption` and `HybridAssumption`, evaluated in run
`hybrid`. TLC found `HybridInv` to hold on instances of that size before it was proved.

### Only model-checked

Every safety invariant, every action property and both refinements that a passing run
checks are proved. What is left to TLC is liveness: `CatchesUp`, `ClientCatchesUp`,
`EveryRequestEnds` and `ResumesToTheEnd` need fairness, hence `ENABLED`, which is out of
the prover's reach. The type invariants of `Archive`, `HybridSource` and `Payment` are
not theorems of their own: the inductive invariants type what the properties speak of.

## 5. Findings

1. **A page that ends in the head ledger** (`ingest.js:121`, `archive_cut`). A full
   page may stop inside the head ledger; its cursor counts as caught up, the ledger
   is claimed, the next poll starts after it, and its remaining events are never
   read. `complete: true` is then wrong. Giving up after `MAX_SCAN_CALLS` claims the
   unread rest in the same way.
2. **A client without an indexer gets stuck** (`event-source.ts:121`,
   `hybrid_stuck`). Its warm path never asks for the retention floor: once the cursor
   has aged out, every sync is rejected, although newer ledgers are served.
3. **Dues may be paid twice** (`condominium.mjs:222`, `script_twice`). A payment is
   recorded after `invoke` returned. If its polls run out, or the process dies, the
   transaction may still land; the resumed run reads its file and not the chain, and
   pays again. Its own last check then refuses for ever.

Smaller ones have no run of their own. Five are stated beside the properties that
hold, in the module named, and are false of the code:

* `Archive!ServedInApplyOrder`: the order key leaves the transaction out
  (`store.js:39`), so events of two transactions in one ledger may be reversed.
* `ArchiveReader!AcceptedHasNoGap`: an open-ended question is judged up to the end of
  the first range (`handler.js:134`), while later ranges' events are returned.
* `ArchiveReader!CheckpointIsTheLast`: `store.js:149` promises "the latest checkpoint", but
  `checkpoint` takes the last merge in the store's order: of two merges of one account in
  one ledger, by two transactions, the one that happened first may be served, also as
  complete. `CheckpointIsLatest` excepts just these.
* `HybridSource!BackfillMadeUpLater`: a failed backfill is "unavailable this sync"
  (`event-source.ts:112`), and for good, since the returned cursor is past it.
* `Verdicts!AnyTransferIsEnough`: `sabotage.mjs` asks for an account that "has already
  made a confidential transfer"; if a withdrawal came after it, the withdrawal's own
  balance covers the lies, and the script fails (`SabotageIsShown` is what holds).

And five were met in reading:

* the payment page describes its first stage as "checking it against the chain";
  `runPayment` never calls `verifyAgainstChain`;
* `auditor/decrypt.ts:20` says a withdrawal's checkpoint is "masked with a single
  Poseidon call"; code and circuit take squeeze 1 of the two-squeeze sponge;
* `disclosure/recipient.ts:36` has one nonce per request; nothing records which were
  answered, so a desk may accept the same bundle any number of times. `AcceptedIsTrue`
  allows that;
* "a reference pinned from an RPC event resolves against the indexer and vice-versa"
  (`events.ts`) is so for the first 200 events of a ledger in either source's order
  (`events.ts:312`, `indexer.ts:137`): an event further on is found by neither.
  `SourcesAgree` states the limit;
* `indexer.ts:328` promises to read an `i128` "decimal string, {hi,lo}, or native", but a
  `{hi, lo}` under a tag is not unwrapped, so such a row throws and hides every other
  event of its page. `SourcesAgree` says which rows are read (`Legible`).

The properties of the passing runs state what survives: `CompleteUnlessCut`,
`ServedInOrder`, `AcceptedIsWhole` and `PagesJoin` name exactly the cut and the
indistinguishable events as exceptions, and show that overlapping polls, retention
gaps, errors and restarts cause no loss, repeat or reversal beyond them.
Events are indistinguishable when the cursor is the same (`store.js:48`, the
transaction is left out of it too): of two such events a page boundary or a second
pass drops one (`Shadowed`).

`NothingElseLost` does the same for the hybrid source, whose cursor passes an event by
in three ways only, while `DeliveredInOrder` holds throughout:

* `backfill`: a backfill that failed, or an indexer that lags behind the seam;
* `rounded`: a full page that ends inside the head ledger leaves the cursor there, and
  the indexer branch starts at the next ledger (`event-source.ts:87`). This does not
  take a ledger with more events than a page, as the comment there supposes;
* `floor`: a cold start begins one ledger above the retention floor
  (`event-source.ts:125`). With `fromLedger` equal to the floor, that ledger is read
  from neither source.

`FinishedMeansPaidOnce`, `AgainOnlyAfterLostReturn`, `KeysOutliveFunds` and
`ResumesToTheEnd` do it for the scripts: a second payment needs a lost return, a
finished run has none, and what keeps a script from finishing is a torn file, a
double payment, or, for `live-payment.mjs` with a seed, a double deposit.
`setup-guest.mjs` saves its key last: a failure after the deposit loses the funds.

For the shared wallet nothing goes wrong on the ledger: the sequence number is read
before the simulation, the proof names the commitment, and `invoke` simulates, so of
two visitors who rebuilt one opening exactly one pays and the other is refused
without a fee. Only the visitor who was cut off or timed out does not know
(`Settlement`), and a retry then spends what the first payment left.

## 6. Abstractions

* In `Field` and `Witness` curve points are scalar pairs, Poseidon2 a function, proofs
  the relation they prove. In `Masks` all of it is symbolic: different terms are
  different values, no digest collides, no mask opens by accident, and knowing a point
  does not give its scalar. Encodings and addresses are left out.
* The contract is external: approvals, expiring credits and administration are not
  modelled.
* A wallet's caller feeds closed ledgers in order; what the archive and the hybrid
  source really deliver is the subject of their own modules.
* The indexer is external. It returns a ledger's events in apply order, and only a
  prefix of what it was asked for if it lags. In `EventRows` a value is the name of what
  it holds, of a width; base64 occurs at full width only (without its padding it may
  read as hex, `LooksHex`). The rows of other event types, the `u32` of an auditor's id and
  `eventToJson` are left out, and an amount is exact: a JSON number above 2^53 is not.
* An event's id is unique: transaction, operation and event index within a ledger.
* Both stores in the repository finish writing before `save` yields, so saves do not
  overtake each other; a torn JSON file is not modelled for the store.
* A page of the RPC always has a cursor; the scan's defensive exit on a page without one
  (`ingest.js:120`) is left out.
* The archive holds one contract; the `types` filter, parameter parsing and HTTP
  status codes are left out. A scan's page size, window and call bound are constants.
* In `Payment` the guest's receiving balance stays zero, as only visitors pay from it;
  a reloaded page is another visitor; a request that the platform ends also ends its
  call, wherever it stood. A lagging RPC may return any earlier opening. A storage that
  fails leaves what it held.
* In `PayScripts` one RPC is asked and does not lag; the keys of a run are numbered by
  the run that drew them; `condominium.mjs` has one payer of its many, whose steps are
  the same for each. Rebuilding, proving and reading the account's sequence number are one
  step (`BeginCall`): only this script and what earlier runs left in the pool write there.
* In `Verdicts` each event has its own ledger and the wallets that pay have replayed
  everything; an archive's scan ends at the ledger that is the latest by then
  (`Archive` has the scan itself). A nudge adds one in the field, where `tamper.js` adds
  one to the last byte and wraps: the nudged value differs from the original in both.
* A transfer of `Witness` derives `r_e`; the option to pass one in (`transfer.ts:87`) is in
  `Disclosure!Transfer`.
* `Verify` starts from an unread verdict: verification keeps no state, so a second one
  is the first with other arguments.

## 7. Not modelled

* **Proving**: generation of proofs is external. `CircuitProver` creates its backend
  lazily across an await, but every operation of `ops.ts` makes a prover of its own, so
  in this repository no two callers meet there.
* **The JSON store's file**: `JsonStore` rewrites one file in place, as the scripts do;
  `PayScripts` has the torn file, the store has not.
* **Payload encoding** (`chain/payload.ts`), byte and curve encodings, sealing and
  key backups (`seal.ts`, `openings.ts`): conversions and authenticated encryption
  without state of their own.
* **Allowance domains** of the digests and the circuit library: nothing in the
  repository uses them.
* **Pages, documentation text, fixtures and build scripts**: no behaviour to check.

Some modules state a type invariant that no run lists: `Archive`, `HybridSource`,
`Payment`, `PayScripts` and `Verdicts`. They hold on the same instances; the runs list
what says more.

## 8. What could be added

* A `StateStore` whose saves are not written at once (both stores of this repository
  finish before they yield), and one whose file may be torn: `SavedStateResumes` is then
  to be stated of what can still be loaded.
* More than one payer in `condominium.mjs`, and credits that expire, should the
  contract's administration come into the repository.
* The shape of the decoded arguments (`eventToJson`, `u32`), once something but a page
  depends on it.
