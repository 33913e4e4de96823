----------------------------- MODULE Disclosure -----------------------------
(***************************************************************************)
(* Selective disclosure (packages/sdk/src/disclosure, its two witness      *)
(* builders and circuits): a desk asks what one payment was worth, a holder*)
(* answers with a proof, and the desk checks the answer against what it    *)
(* resolves from the chain itself.  On the way a bundle may be delayed,    *)
(* shown twice, answered to another request, or have its event reference   *)
(* or circuit changed.  The auditors read the same events with their keys. *)
(***************************************************************************)
EXTENDS Masks, EventRows

CONSTANTS
  Accounts,      \* confidential accounts of the token
  Token,         \* the contract the desk asks about
  Contracts,     \* every contract an account has keys on
  AuditorOf,     \* the auditor secret an account's registration names
  AuditorKeys,   \* every key an auditor might try
  Sigmas,        \* salts; a wallet may draw one twice
  Ephemerals,    \* ephemeral scalars drawn at random
  Amounts,
  Funds,         \* the spendable balance of each account at the start
  DeskKeys,      \* long-lived disclosure secrets r_R
  ServedAs,      \* how the indexer's row of each event is written
  Strays,        \* references no event has
  IndexerLag,    \* how many of the last events the indexer has not read yet
  ResolveLimit,  \* events of the ledger a reference is looked up among (200)
  MaxSpends,     \* bound on the events
  MaxRequests,   \* bound on the requests minted
  MaxBundles     \* bound on the bundles made

\* Every account has derived its keys, and HKDF gives no block to two accounts.
ASSUME KeysAssumption ==
  \A a, b \in Accounts, c \in Contracts :
    /\ \E j \in 0 .. MaxRejections : Block(a, c, j) # Unusable
    /\ \A i, j \in 0 .. MaxRejections :
         a # b /\ Block(a, c, i) # Unusable => Block(a, c, i) # Block(b, c, j)

\* No two events have the same coordinates, and a ledger numbers its events in order;
\* the indexer's order is its own.
ASSUME CoordinatesAssumption ==
  \A i, j \in DOMAIN Coordinates :
    LET c == Coordinates[i]
        d == Coordinates[j]
    IN  /\ c.ledger = d.ledger /\ c.txHash = d.txHash /\ c.op = d.op /\ c.event = d.event => i = j
        /\ c.ledger = d.ledger /\ i < j => c.nth < d.nth /\ c.row # d.row

ASSUME DisclosureAssumption ==
  /\ Token \in Contracts
  /\ Funds \in [Accounts -> Nat]
  /\ {IndexerLag, MaxSpends, MaxBundles} \subseteq Nat
  /\ ResolveLimit \in Nat \ {0}
  /\ Amounts \subseteq Nat
  /\ 1 .. MaxSpends \subseteq DOMAIN Coordinates
  /\ 1 .. MaxSpends \subseteq DOMAIN ServedAs
  /\ \A i \in 1 .. MaxSpends : ServedAs[i] \in RowForms
  /\ \A k \in AuditorKeys \cup Ephemerals \cup DeskKeys \cup {AuditorOf[a] : a \in Accounts} :
       IsScalar(k)

VARIABLES
  log,        \* the token's events, with what they hide as history
  balance,    \* spendable balances
  requests,   \* minted requests; the position is the nonce
  bundles,    \* bundles made so far, with who made them for which request
  verdict     \* the last answer of verifyDisclosure

vars == <<log, balance, requests, bundles, verdict>>

Circuits == {"disclose_recipient", "disclose_sender"}
Unread   == [stage |-> "none"]

Init ==
  /\ log = << >>
  /\ balance = Funds
  /\ requests = << >>
  /\ bundles = {}
  /\ verdict = Unread

\* Every key set of every account.
Keys   == [a \in Accounts |-> [c \in Contracts |-> DeriveKeys(a, c)]]
PVK(a) == Keys[a][Token].PVK

\* What is drawn at random was derived by nobody.
ASSUME RandomAssumption ==
  \A a \in Accounts, c \in Contracts, sigma \in Sigmas :
    DeriveEphemeralRE(Keys[a][c].vk, sigma) \notin Ephemerals

-----------------------------------------------------------------------------
(* The chain. *)

Emit(ev) ==
  /\ Len(log) < MaxSpends
  /\ log' = Append(log, ev)
  /\ verdict' = Unread
  /\ UNCHANGED <<requests, bundles>>

\* buildTransferWitness: r_e is derived unless the caller brings one.
Transfer(a, b, amount, sigma, rE) ==
  /\ rE \in {DeriveEphemeralRE(Keys[a][Token].vk, sigma)} \cup Ephemerals
  /\ amount <= balance[a]
  /\ balance' = [balance EXCEPT ![a] = @ - amount]
  /\ Emit([ type |-> "transfer", from |-> a, to |-> b,
            amount |-> amount, left |-> balance[a] - amount, rEScalar |-> rE,
            data |-> TransferPayload(balance[a], amount, sigma, rE, Keys[a][Token].vk, PVK(b),
                       ScalarMul(AuditorOf[b]), ScalarMul(AuditorOf[a])) ])

Withdraw(a, amount, sigma, rE) ==
  /\ rE \in Ephemerals
  /\ amount <= balance[a]
  /\ balance' = [balance EXCEPT ![a] = @ - amount]
  /\ Emit([ type |-> "withdraw", from |-> a, to |-> a, amount |-> amount, left |-> balance[a] - amount,
            data |-> WithdrawPayload(balance[a], amount, sigma, rE, Keys[a][Token].vk,
                       ScalarMul(AuditorOf[a])) ])

-----------------------------------------------------------------------------
(* The event as the RPC and as the indexer give it; at is history. *)

Cursor(i) ==
  LET c  == Coordinates[i]
      at == RpcEventCoords(PagingToken(c))
  IN  NaturalEventId(c.ledger, c.txHash, at.op, at.event)

ParseEvent(i) ==
  [ at |-> i, ledger |-> Coordinates[i].ledger, txHash |-> Coordinates[i].txHash,
    cursor |-> Cursor(i), type |-> log[i].type, from |-> log[i].from, to |-> log[i].to,
    data |-> [name \in FieldsOf(log[i].type) |-> log[i].data[name]] ]

RowCursor(i, form) ==
  LET c == Coordinates[i] IN
  IndexerEventId([ shaped |-> form.shaped, ledger |-> c.ledger, txHash |-> c.txHash,
                   op |-> c.op, event |-> c.event ], c.ledger, c.txHash)

\* The reading of the row in this form, with the values its names stand for.
ParseRow(i, form) ==
  { [ at |-> i, ledger |-> Coordinates[i].ledger, txHash |-> Coordinates[i].txHash,
      cursor |-> RowCursor(i, form),
      type |-> read.type, from |-> log[i][read.from], to |-> log[i][read.to],
      data |-> [name \in DOMAIN read.data |-> log[i].data[read.data[name]]] ] :
    read \in Readings[log[i].type][form] }

\* The event as the RPC serves it, and as the archive's client reads what it stored.
RawEvent(i) ==
  [ id |-> PagingToken(Coordinates[i]), ledger |-> Coordinates[i].ledger,
    txHash |-> Coordinates[i].txHash, value |-> log[i].data,
    topic |-> <<[sym |-> log[i].type], [address |-> log[i].from], [address |-> log[i].to]>> ]

ArchivedEvent(i) == UNION {DecodeIndexerRow(SerializeEvent(row)) : row \in ToStored(RawEvent(i))}

EventRef(ev) == [ledger |-> ev.ledger, id |-> ev.cursor, txHash |-> ev.txHash]

\* A reference is looked up in one page of its ledger: neither source is asked for more.
RpcPage(served, ledger) ==
  {i \in served : Coordinates[i].ledger = ledger /\ Coordinates[i].nth <= ResolveLimit}
IndexerPage(served, ledger) ==
  {i \in served : Coordinates[i].ledger = ledger /\ Coordinates[i].row <= ResolveLimit}

\* Exactly one event of the page matches, or nothing is resolved.
ResolveEventRef(served, ref) ==
  LET matches == {i \in RpcPage(served, ref.ledger) : Cursor(i) = ref.id} IN
  {ParseEvent(i) : i \in {i \in matches : /\ Cardinality(matches) = 1
                                          /\ Coordinates[i].txHash = ref.txHash}}

\* The indexer's: the first match counts, and a row that cannot be read fails them all.
IndexerResolveEventRef(served, ref) ==
  LET rows     == IndexerPage(served, ref.ledger)
      matches  == {i \in rows : RowCursor(i, ServedAs[i]) = ref.id}
      first    == {i \in matches : \A j \in matches : Coordinates[i].row <= Coordinates[j].row}
      readable == \A i \in rows : Readings[log[i].type][ServedAs[i]] # {}
  IN  UNION {ParseRow(i, ServedAs[i]) :
               i \in {i \in first : readable /\ Coordinates[i].txHash = ref.txHash}}

\* The RPC first; the indexer, if there is one, when the RPC yields nothing.
HybridResolveEventRef(rpc, indexer, ref) ==
  LET found == ResolveEventRef(rpc, ref) IN
  IF found # {} THEN found ELSE IndexerResolveEventRef(indexer, ref)

-----------------------------------------------------------------------------
(* The desk asks. *)

NewDisclosureRequest(rR) ==
  /\ Len(requests) < MaxRequests
  /\ requests' = Append(requests, [pR |-> ScalarMul(rR), nu |-> Len(requests) + 1])
  /\ verdict' = Unread
  /\ UNCHANGED <<log, balance, bundles>>

\* Mutant: the public inputs leave the event out.
EventUnbound(addrF, pvkA, ev, pvkB, request, sealed) ==
  <<addrF, pvkA, pvkB, request, sealed>>

\* The vector both sides build: pvkB is a set, empty for the recipient circuit.
PublicInputs(addrF, pvkA, ev, pvkB, request, sealed) ==
  <<addrF, pvkA, ev.rE, ev.sigma, ev.vTilde, pvkB, request, sealed>>

Seal(v, rDisc, request) ==
  [ rDisc      |-> ScalarMul(rDisc),
    vTildeDisc |-> EncryptDisclosure(v, Ecdh(rDisc, request.pR), request.nu) ]

-----------------------------------------------------------------------------
(* The holder answers. *)

\* What the event is worth to the holder of these keys, if it is theirs.
BuildDiscloseRecipientWitness(keys, ev) ==
  DecryptWithDomain(ev.vTilde, "TX_AMOUNT", Ecdh(keys.vk, ev.rE), ev.sigma)

\* disclose_recipient: PVK_A is the prover's, and its secret masks v as the event does.
RecipientCircuit(keys, ev, v) == EncryptAmount(v, Ecdh(keys.vk, ev.rE), ev.sigma) = ev.vTilde

\* The same from the sender's side, with the scalar behind R_e and the recipient's key.
BuildDiscloseSenderWitness(rEScalar, ev, pvkB) ==
  DecryptWithDomain(ev.vTilde, "TX_AMOUNT", Ecdh(rEScalar, pvkB), ev.sigma)

\* disclose_sender: PVK_A is the prover's, r_e is the event's, and PVK_B's secret with
\* it masks v as the event does.
SenderCircuit(rEScalar, ev, pvkB, v) ==
  /\ ScalarMul(rEScalar) = ev.rE
  /\ EncryptAmount(v, Ecdh(rEScalar, pvkB), ev.sigma) = ev.vTilde

Bundle(circuitId, ev, refE, keys, pvkB, v, request) ==
  LET rDisc  == Scalar(<<"r_disc", Cardinality(bundles), request.nu>>)
      sealed == Seal(v, rDisc, request)
  IN
  [ circuitId |-> circuitId, refE |-> refE, sealed |-> sealed,
    proof |-> [ circuitId    |-> circuitId,
                publicInputs |-> PublicInputs(keys.addrF, keys.PVK, ev, pvkB,
                                              request, sealed) ] ]

Answer(holder, request, bundle) ==
  /\ Cardinality(bundles) < MaxBundles
  /\ bundles' = bundles \cup {[by |-> holder, answers |-> request, bundle |-> bundle]}
  /\ verdict' = Unread
  /\ UNCHANGED <<log, balance, requests>>

\* An event that does not open in range throws before any proof.
ProveRecipientDisclosure(holder, contract, i, n, refE) ==
  LET keys   == Keys[holder][contract]
      ev     == log[i].data
      opened == BuildDiscloseRecipientWitness(keys, ev)
  IN
  /\ InRange(opened) /\ RecipientCircuit(keys, ev, opened.plain)
  /\ Answer(holder, requests[n],
       Bundle("disclose_recipient", ev, refE, keys, {}, opened.plain, requests[n]))

\* The scalar is derived again from the event's sigma, or kept from the transfer;
\* pvkB is the viewing key the caller read for the event's recipient.
ProveSenderDisclosure(holder, contract, i, n, refE, kept) ==
  LET keys     == Keys[holder][contract]
      ev       == log[i].data
      pvkB     == PVK(log[i].to)
      rEScalar == IF kept THEN log[i].rEScalar ELSE DeriveEphemeralRE(keys.vk, ev.sigma)
      opened   == BuildDiscloseSenderWitness(rEScalar, ev, pvkB)
  IN
  /\ kept => log[i].from = holder
  /\ InRange(opened) /\ SenderCircuit(rEScalar, ev, pvkB, opened.plain)
  /\ Answer(holder, requests[n],
       Bundle("disclose_sender", ev, refE, keys, {pvkB}, opened.plain, requests[n]))

\* proveDisclosure: the role chooses the builder.  The holder read the event from
\* either source and names it as that source does.
ProveDisclosure(holder, contract, i, n) ==
  /\ log[i].type = "transfer"
  /\ \E ev \in {ParseEvent(i)} \cup ParseRow(i, ServedAs[i]) :
       \/ ProveRecipientDisclosure(holder, contract, i, n, EventRef(ev))
       \/ \E kept \in BOOLEAN :
            ProveSenderDisclosure(holder, contract, i, n, EventRef(ev), kept)

-----------------------------------------------------------------------------
(* The desk reads. *)

\* Mutant: the sealed amount is opened in the transfer's domain.
DecryptInTransferDomain(rR, sealed, nu) ==
  DecryptWithDomain(sealed.vTildeDisc, "TX_AMOUNT", Ecdh(rR, sealed.rDisc), nu)

DecryptDisclosure(rR, sealed, nu) ==
  DecryptWithDomain(sealed.vTildeDisc, "DISCLOSURE", Ecdh(rR, sealed.rDisc), nu)

Refused(stage) == [stage |-> stage]

\* Which accounts' keys are read is dictated by the circuit and the event; a bundle may
\* name a circuit nobody knows.
VerifyDisclosure(b, ev, request, rR, vkMatches, passesPvkB) ==
  LET isSender == b.circuitId = "disclose_sender"
      account  == IF isSender THEN ev.from ELSE ev.to
      pvkB     == IF passesPvkB THEN {PVK(ev.to)} ELSE {}
      inputs   == PublicInputs(Token, PVK(account), ev.data, pvkB, request, b.sealed)
      opened   == DecryptDisclosure(rR, b.sealed, request.nu)
  IN
  IF b.circuitId \notin Circuits THEN Refused("vk-pinning")
  ELSE
  CASE request.pR # ScalarMul(rR)    -> Refused("decrypt")
    [] request.pR = ScalarMul(rR) /\ isSender /\ ~passesPvkB
                                     -> Refused("resolve-account")
    [] OTHER ->
       IF ~vkMatches THEN Refused("vk-pinning")
       ELSE IF b.proof # [circuitId |-> b.circuitId, publicInputs |-> inputs]
            THEN Refused("verify-proof")
       ELSE IF ~InRange(opened) THEN Refused("decrypt")
       ELSE [ stage |-> "accepted", amount |-> opened.plain, event |-> ev.at,
              role |-> b.circuitId, account |-> account, request |-> request ]

\* What a desk may answer: a bundle may arrive under another circuit, the desk may
\* take a wrong key, and its pinned verification key may be another one.
Answers(made, n, ev) ==
  { VerifyDisclosure([made.bundle EXCEPT !.circuitId = circuitId], ev, requests[n], rR,
                     vkMatches, passesPvkB) :
      circuitId \in Circuits \cup {"unknown"}, rR \in DeskKeys, vkMatches, passesPvkB \in BOOLEAN }

\* A bundle may arrive with another reference than it was made with, and the event
\* may have left the RPC's window.  Only a transfer is disclosed.  Verifying leaves
\* nothing behind: a second attempt is this one with other arguments.
Verify(made, n, refE, rpc) ==
  LET indexer  == 1 .. Len(log) - IndexerLag
      resolved == {ev \in HybridResolveEventRef(rpc, indexer, refE) : ev.type = "transfer"}
  IN
  /\ verdict = Unread
  /\ verdict' \in IF resolved = {} THEN {Refused("resolve-event")}
                  ELSE UNION {Answers(made, n, ev) : ev \in resolved}
  /\ UNCHANGED <<log, balance, requests, bundles>>

\* What a reference may be: an event's own, as either source gives it, or a stray one.
References ==
  Strays \cup {EventRef(ev) : ev \in UNION {{ParseEvent(i)} \cup ParseRow(i, ServedAs[i]) :
                                            i \in DOMAIN log}}

Next ==
  \/ \E a, b \in Accounts, v \in Amounts, sigma \in Sigmas :
       \E rE \in {DeriveEphemeralRE(Keys[a][Token].vk, sigma)} \cup Ephemerals :
         Transfer(a, b, v, sigma, rE)
  \/ \E a \in Accounts, v \in Amounts, sigma \in Sigmas, rE \in Ephemerals :
       Withdraw(a, v, sigma, rE)
  \/ \E rR \in DeskKeys : NewDisclosureRequest(rR)
  \/ \E a \in Accounts, c \in Contracts, i \in DOMAIN log, n \in DOMAIN requests :
       ProveDisclosure(a, c, i, n)
  \/ \E made \in bundles, n \in DOMAIN requests, refE \in References, rpc \in {DOMAIN log, {}} :
       Verify(made, n, refE, rpc)

Spec == Init /\ [][Next]_vars

-----------------------------------------------------------------------------
(* Properties. *)

TransferAt(i) == log[i].type = "transfer"

\* scvI128 reads {hi, lo} bare, not under a tag.
Legible(i, form) == TransferAt(i) \/ form.i128 # "nested"

\* The desk accepts only what is so: the event's own amount, disclosed by the
\* very account the circuit names, in answer to the request the desk had in
\* hand.  No other account, request or event can lend its proof, however the
\* bundle was relabelled (verifyDisclosure and the two circuits).
AcceptedIsTrue ==
  verdict.stage = "accepted" =>
    LET ev == log[verdict.event] IN
    /\ verdict.amount = ev.amount
    /\ verdict.account = IF verdict.role = "disclose_sender" THEN ev.from ELSE ev.to
    /\ \E made \in bundles :
         /\ made.by = verdict.account
         /\ made.answers = verdict.request
         /\ made.bundle.circuitId = verdict.role

\* What a holder made with its keys on this token, the desk that asked accepts,
\* in either role, whether r_e was derived again or kept, whichever source the
\* holder named the event by and wherever the desk still finds it, when its caller
\* passes PVK_B for the sender's circuit only, as verify.ts asks.
HonestIsAccepted ==
  \A made \in bundles, rR \in DeskKeys, rpc \in {DOMAIN log, {}} :
    LET b == made.bundle IN
    made.answers.pR = ScalarMul(rR) /\ b.proof.publicInputs[1] = Token =>
      \A ev \in HybridResolveEventRef(rpc, DOMAIN log, b.refE) :
        LET answer == VerifyDisclosure(b, ev, made.answers, rR, TRUE,
                                       b.circuitId = "disclose_sender")
        IN  answer.stage = "accepted" /\ answer.amount = log[ev.at].amount

\* A row that can be read is read as the very event the RPC decodes, however the indexer
\* writes it, under the same id if the row's has the expected shape; a withdrawal whose
\* amount is {hi, lo} under a tag cannot be read.  A reference pinned from either source
\* (events.ts: ids normalized so that "a reference pinned from an RPC event resolves
\* against the indexer and vice-versa") finds that event and no other one: on the chain
\* if it is among the first ResolveLimit events of its ledger, in the indexer if it is
\* among the first ResolveLimit rows and each of these can be read; else it finds nothing.
\* The archive serves the event to both its parties, and its client decodes the very
\* event (ingest.js: "byte-identical").
SourcesAgree ==
  \A i \in DOMAIN log :
    LET ev   == ParseEvent(i)
        page == {j \in DOMAIN log : /\ Coordinates[j].ledger = Coordinates[i].ledger
                                    /\ Coordinates[j].row <= ResolveLimit}
    IN
    /\ \A form \in RowForms :
         /\ Legible(i, form) <=> ParseRow(i, form) # {}
         /\ \A row \in ParseRow(i, form) :
              /\ row = [ev EXCEPT !.cursor = row.cursor]
              /\ form.shaped => row = ev
              /\ \A j \in DOMAIN log \ {i} : row.cursor # ParseEvent(j).cursor
    /\ ArchivedEvent(i) = {[name \in DOMAIN ev \ {"at"} |-> ev[name]]}
    /\ \A row \in ToStored(RawEvent(i)) : row.participants = {log[i].from, log[i].to}
    /\ ResolveEventRef(DOMAIN log, EventRef(ev))
         = IF Coordinates[i].nth <= ResolveLimit THEN {ev} ELSE {}
    /\ \A row \in ParseRow(i, ServedAs[i]) :
         IndexerResolveEventRef(DOMAIN log, EventRef(row))
           = IF i \in page /\ (\A j \in page : Legible(j, ServedAs[j])) THEN {row} ELSE {}

\* An auditor reads the amount and the balance that remains from the sender's
\* channel, a full opening of the transfer commitment from the recipient's, and
\* the two amounts agree under exactly those keys that audit both parties: not
\* under a stranger's, one party's or a negated key (auditor/decrypt.ts).
AuditIsRight ==
  \A i \in DOMAIN log, k \in AuditorKeys :
    LET ev == log[i] IN
    IF TransferAt(i)
    THEN LET audited == AuditTransfer(k, ev.data)
             auditsSender    == k = AuditorOf[ev.from]
             auditsRecipient == k = AuditorOf[ev.to]
         IN
         /\ audited.channelsAgree <=> auditsSender /\ auditsRecipient
         /\ auditsSender => /\ audited.amount = Plain(ev.amount)
                            /\ audited.senderBalance = Plain(ev.left)
         /\ auditsRecipient => audited.rTx = Plain(ev.data.cTx.r)
    ELSE k = AuditorOf[ev.from] => AuditWithdraw(k, ev.data) = Plain(ev.left)

\* A balance checkpoint never shares its pad with an amount, nor an amount with
\* a blinding, whichever events they come from and even when a wallet uses one
\* (r_e, sigma) twice: knowing an amount reveals no balance (poseidon2.ts, the
\* reason encryptAuditorSenderBalance takes the second squeeze, and the wallet's own
\* b_tilde a domain of its own).
PadsKeptApart ==
  LET Amount(i)   == IF TransferAt(i)
                     THEN {log[i].data.vTilde, log[i].data.vAudR, log[i].data.vAudS} ELSE {}
      Blinding(i) == IF TransferAt(i) THEN {log[i].data.rAudR} ELSE {}
  IN
  \A i, j \in DOMAIN log :
    /\ \A c \in Amount(i) : c.pad \notin {log[j].data.bAudS.pad, log[j].data.bTilde.pad}
    /\ \A c \in Amount(i), d \in Blinding(j) : c.pad # d.pad
=============================================================================
