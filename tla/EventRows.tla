------------------------------ MODULE EventRows ------------------------------
(***************************************************************************)
(* One event of the token, from two sources: chain/events.ts decodes what  *)
(* the RPC returns, chain/indexer.ts decodes the rows of the Goldsky       *)
(* indexer, whose JSON may be written in several ways.  Both give an event *)
(* an id that does not depend on the source, and a reference pinned from   *)
(* one has to find the same event in the other.  The archive keeps the     *)
(* events themselves, as XDR, and its client decodes them.                 *)
(*                                                                         *)
(* Bytes stand for what they encode: [of |-> value, width |-> number of    *)
(* bytes].  A reading is a set: its one element, or nothing where the code *)
(* returns null or throws.                                                 *)
(***************************************************************************)
EXTENDS Naturals, Sequences, FiniteSets

CONSTANTS
  Coordinates,   \* of each event: its ledger, transaction, operation and index; nth and
                 \* row, its number among all the token's events of that ledger, on the
                 \* chain and in the order in which the indexer pages its rows
  RowForms       \* the ways in which a row may be written

Forms == [ shaped    : BOOLEAN,                        \* the id ends in op-N-event-M
           text      : BOOLEAN,                        \* topic and value as JSON text
           topics    : {"plain", "tagged", "items"},
           map       : {"entries", "plain"},
           tag       : {"none", "bytes", "hex", "value"},
           as        : {"hex", "base64"},
           i128      : {"plain", "tagged", "parts", "nested"},
           minimized : BOOLEAN ]                       \* leading zero bytes left out

TxRange == 16      \* 2^20 in the paging token; TLC's integers are narrower
OpRange == 4096

ASSUME RowsAssumption ==
  /\ RowForms \subseteq Forms
  /\ \A form \in RowForms : form.as = "base64" => ~ form.minimized
  /\ \A c \in {Coordinates[i] : i \in DOMAIN Coordinates} :
       /\ {c.ledger, c.txIndex, c.event} \subseteq Nat /\ c.op \in 0 .. OpRange - 1
       /\ {c.nth, c.row} \subseteq Nat \ {0}
-----------------------------------------------------------------------------
(* Ids. *)

NaturalEventId(ledger, txHash, op, event) == [natural |-> <<ledger, txHash, op, event>>]

\* The RPC's paging token of an event: <toid>-<event order>.
PagingToken(c) ==
  [toid |-> (c.ledger * TxRange + c.txIndex) * OpRange + c.op, order |-> c.event]

RpcEventCoords(token) == [op |-> token.toid % OpRange, event |-> token.order]

\* Mutant: the event index of the row is not used.
OperationOnly(rowId, ledger, txHash) ==
  IF rowId.shaped THEN NaturalEventId(ledger, txHash, rowId.op, 0) ELSE [row |-> rowId]

\* A row id of another shape is its own id, and matches nothing the RPC names.
IndexerEventId(rowId, ledger, txHash) ==
  IF rowId.shaped THEN NaturalEventId(ledger, txHash, rowId.op, rowId.event)
  ELSE [row |-> rowId]

-----------------------------------------------------------------------------
(* JSON. *)

Text(s)         == [text |-> s]
Record(rec)     == [rec |-> rec]
Array(s)        == [arr |-> s]
Tagged(tag, s)  == Record([t \in {tag} |-> s])

\* A topic or a value may be JSON text of itself.
NormalizeJson(j) == IF "json" \in DOMAIN j THEN j.json ELSE j

AsRecord(j) == IF "rec" \in DOMAIN j THEN j.rec ELSE [t \in {} |-> j]

AsArray(j) ==
  IF "arr" \in DOMAIN j THEN j.arr
  ELSE IF "items" \in DOMAIN AsRecord(j) THEN AsRecord(j).items ELSE << >>

FirstOf(rec, tags) ==
  LET present == {n \in DOMAIN tags : tags[n] \in DOMAIN rec} IN
  {rec[tags[n]] : n \in {n \in present : \A k \in present : n <= k}}

ScvString(j) ==
  IF "text" \in DOMAIN j THEN {j.text}
  ELSE FirstOf(AsRecord(j), <<"symbol", "address", "string", "sym", "str", "value">>)

\* {map: [{key, val}, ...]}, or the plain record; the last entry of a key counts.
ParseScValMap(j) ==
  LET rec     == AsRecord(j)
      entries == IF "map" \in DOMAIN rec THEN AsArray(rec.map) ELSE << >>
      At(key) == {n \in DOMAIN entries : key \in ScvString(entries[n].rec.key)}
  IN
  IF Len(entries) = 0 THEN rec
  ELSE [ key \in UNION {ScvString(entries[n].rec.key) : n \in DOMAIN entries} |->
           entries[CHOOSE n \in At(key) : \A k \in At(key) : k <= n].rec.val ]

-----------------------------------------------------------------------------
(* Bytes. *)

FieldWidth == 32
PointWidth == 64

\* Base64 without padding may look like hex, and hex is preferred.
LooksHex(t) == t.as = "hex" \/ t.bytes.width % 3 = 0

DecodeBytesString(t) ==
  IF LooksHex(t) /\ t.as # "hex" THEN [of |-> "garbled", width |-> t.bytes.width] ELSE t.bytes

ScvBytes(j) ==
  {DecodeBytesString(t) :
     t \in IF "text" \in DOMAIN j THEN {j.text}
           ELSE FirstOf(AsRecord(j), <<"bytes", "hex", "b64", "bytesN", "value">>)}

PadTo(bytes, width) == IF bytes.width <= width THEN {[bytes EXCEPT !.width = width]} ELSE {}

PointFromBytes(bytes) == IF bytes.width = PointWidth THEN {bytes.of} ELSE {}

\* An amount: its digits as text, under a tag that holds text, or as {hi, lo}.
ScvI128(j) ==
  LET rec    == AsRecord(j)
      tagged == {d.digits : d \in {d \in FirstOf(rec, <<"i128", "i64", "u64", "value">>) :
                                    "digits" \in DOMAIN d}}
  IN
  IF "text" \in DOMAIN j THEN {j.text.digits}
  ELSE IF tagged # {} THEN tagged
  ELSE IF {"hi", "lo"} \subseteq DOMAIN rec THEN {rec.hi.high} \cap {rec.lo.low}
  ELSE {}

-----------------------------------------------------------------------------
(* Rows. *)

Known == {"transfer", "withdraw"}

FieldNames(type) ==
  IF type = "transfer"
  THEN <<"rE", "vTilde", "sigma", "bTilde", "vAudR", "rAudR", "vAudS", "bAudS">>
  ELSE <<"amount", "rE", "sigma", "bTilde", "bAudS">>
FieldsOf(type) == {FieldNames(type)[n] : n \in DOMAIN FieldNames(type)}

\* dataMap: the readings of a field of the event's data.
DataMap(byName, name) ==
  IF name \notin DOMAIN byName THEN {}
  ELSE IF name = "amount" THEN ScvI128(byName[name])
  ELSE IF name = "rE"
       THEN UNION {PointFromBytes(b) : b \in UNION {PadTo(c, PointWidth) : c \in ScvBytes(byName[name])}}
       ELSE {b.of : b \in ScvBytes(byName[name])}

The(S) == CHOOSE s \in S : TRUE

\* parseIndexerEvent and buildConfidentialEvent, but for the id: {} if a reading fails.
ParseIndexerEvent(row) ==
  LET topics     == AsArray(NormalizeJson(row.topic))
      byName     == ParseScValMap(NormalizeJson(row.value))
      addr(n)    == IF n + 1 \in DOMAIN topics THEN ScvString(topics[n + 1]) ELSE {}
      types      == IF Len(topics) = 0 THEN {} ELSE ScvString(topics[1]) \cap Known
      read(type) == [name \in FieldsOf(type) |-> DataMap(byName, name)]
  IN
  { [ type |-> type, from |-> The(addr(1)), to |-> The(addr(2)),
      data |-> [name \in FieldsOf(type) |-> The(read(type)[name])] ] :
    type \in {t \in types : /\ addr(1) # {} /\ addr(2) # {}
                            /\ \A name \in FieldsOf(t) : read(t)[name] # {}} }

\* What the indexer serves for an event of this type; every value is written as the
\* name of what it holds.
GoldskyRow(type, form) ==
  LET width(name) == (IF name = "rE" THEN PointWidth ELSE FieldWidth)
                     - (IF form.minimized THEN 1 ELSE 0)
      written(name) == [as |-> form.as, bytes |-> [of |-> name, width |-> width(name)]]
      halves      == Record([hi |-> [high |-> "amount"], lo |-> [low |-> "amount"]])
      amount      == IF form.i128 = "plain" THEN Text([digits |-> "amount"])
                     ELSE IF form.i128 = "tagged" THEN Tagged("i128", [digits |-> "amount"])
                     ELSE IF form.i128 = "parts" THEN halves
                     ELSE Tagged("i128", halves)
      val(name)   == IF name = "amount" THEN amount
                     ELSE IF form.tag = "none" THEN Text(written(name))
                     ELSE Tagged(form.tag, written(name))
      topic(tag, s) == IF form.topics = "plain" THEN Text(s) ELSE Tagged(tag, s)
      topics      == << topic("symbol", type), topic("address", "from"), topic("address", "to") >>
      entry(name) == Record([key |-> topic("symbol", name), val |-> val(name)])
      entries     == [n \in DOMAIN FieldNames(type) |-> entry(FieldNames(type)[n])]
      value       == IF form.map = "entries" THEN Record([map |-> Array(entries)])
                     ELSE Record([name \in FieldsOf(type) |-> val(name)])
      array       == IF form.topics = "items" THEN Record([items |-> topics]) ELSE Array(topics)
      whole(j)    == IF form.text THEN [json |-> j] ELSE j
  IN  [topic |-> whole(array), value |-> whole(value)]

\* Every row, read.
Readings == [type \in Known |-> [form \in RowForms |-> ParseIndexerEvent(GoldskyRow(type, form))]]

-----------------------------------------------------------------------------
(* The archive's rows (apps/indexer), which keep the XDR the RPC served. *)

\* Positions of the topics that hold a participant's address.
ParticipantTopics(name) == IF name \in {"register", "merge"} THEN {1} ELSE {1, 2}

\* An event whose first topic is not a symbol of the protocol is not stored.
NameOf(topics) ==
  IF Len(topics) = 0 THEN {}
  ELSE {s \in FirstOf(topics[1], <<"sym">>) : s \in Known}

\* toStored: coordinates from the paging token, topics and data as they came.
ToStored(raw) ==
  LET at == RpcEventCoords(raw.id) IN
  { [ event_name |-> name, ledger_seq |-> raw.ledger, tx_hash |-> raw.txHash,
      operation_index |-> at.op, event_index |-> at.event,
      topics_xdr |-> raw.topic, data_xdr |-> raw.value,
      participants |-> UNION {FirstOf(raw.topic[n + 1], <<"address">>) :
                              n \in {n \in ParticipantTopics(name) : n + 1 \in DOMAIN raw.topic}} ] :
    name \in NameOf(raw.topic) }

\* What the handler serves of a stored event: neither its name nor its participants.
SerializeEvent(row) ==
  [ ledger_seq |-> row.ledger_seq, tx_hash |-> row.tx_hash,
    operation_index |-> row.operation_index, event_index |-> row.event_index,
    topics_xdr |-> row.topics_xdr, data_xdr |-> row.data_xdr ]

\* decodeIndexerRow: the name is read from the topics again.
DecodeIndexerRow(row) ==
  { [ ledger |-> row.ledger_seq, txHash |-> row.tx_hash,
      cursor |-> NaturalEventId(row.ledger_seq, row.tx_hash, row.operation_index, row.event_index),
      type |-> name, from |-> row.topics_xdr[2].address, to |-> row.topics_xdr[3].address,
      data |-> [field \in FieldsOf(name) |-> row.data_xdr[field]] ] :
    name \in NameOf(row.topics_xdr) }
=============================================================================
