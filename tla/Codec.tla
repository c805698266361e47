------------------------------- MODULE Codec --------------------------------
(***************************************************************************)
(* The binary forms of the program: transactions, headers and blocks       *)
(* (primitives/Codec.cpp), which the hashes, the signatures and the store  *)
(* are computed from, and the messages of the protocol                     *)
(* (protocol/Codec.hpp, protocol/rscoin/Messages.cpp).                     *)
(*                                                                         *)
(* A byte is a digit below Base; Width is the number of bytes of each      *)
(* kind of number or of fixed field, smaller than in the code.  What a     *)
(* function writes and what its counterpart reads are two lists, each      *)
(* taken from its own lines.                                               *)
(***************************************************************************)
EXTENDS Naturals, Sequences, SequencesExt

CONSTANTS
    Base,       \* the values of a byte (256 in the code)
    Width       \* bytes of a "u8", "u16", "u32", "u64", "hash", "address"

ASSUME CodecAssumption ==
    /\ Base \in Nat \ {0, 1}
    /\ \A kind \in {"u8", "u16", "u32", "u64", "hash", "address"} :
           Width[kind] \in Nat \ {0}

Byte == 0 .. Base - 1

\* b^n, as a function that a proof can unfold.
Power(b, n) ==
    LET power[i \in Nat] == IF i = 0 THEN 1 ELSE b * power[i - 1] IN power[n]

\* The values a number of some kind holds.
Values(kind) == 0 .. Power(Base, Width[kind]) - 1

Fixed == {"hash", "address"}

\* How a string of bytes is preceded by its length.
LengthOf == [bytes |-> "u64", bytes32 |-> "u32"]

\* What the C++ type of a field holds.
IsKind(value, kind) ==
    IF kind \in Fixed THEN value \in Seq(Byte) /\ Len(value) = Width[kind]
    ELSE IF kind \in DOMAIN LengthOf
         THEN value \in Seq(Byte) /\ Len(value) \in Values(LengthOf[kind])
    ELSE value \in Values(kind)

\* A list of fields, each a name and a kind.
Names(fields) == {fields[i][1] : i \in DOMAIN fields}

HasFields(record, fields) ==
    \A i \in DOMAIN fields : IsKind(record[fields[i][1]], fields[i][2])

\* What a struct of these fields holds, and a vector short enough to be counted.
IsRecord(record, fields) ==
    /\ record = [x \in Names(fields) |-> record[x]]
    /\ HasFields(record, fields)

IsList(list, count) ==
    /\ list = [i \in 1 .. Len(list) |-> list[i]]
    /\ Len(list) \in Values(count)

-----------------------------------------------------------------------------
(* Writing. *)

\* write, writeLE: the low byte first; what does not fit is cut.
LittleEndian(value, kind) ==
    [i \in 1 .. Width[kind] |-> (value \div Power(Base, i - 1)) % Base]

WriteBytes_NoLength(data, kind) == data   \* faulty: the end is not told

WriteBytes(data, kind) == LittleEndian(Len(data), LengthOf[kind]) \o data

Written(value, kind) ==
    IF kind \in Fixed THEN value
    ELSE IF kind \in DOMAIN LengthOf THEN WriteBytes(value, kind)
    ELSE LittleEndian(value, kind)

WriteFields(record, fields) ==
    FlattenSeq([i \in DOMAIN fields |-> Written(record[fields[i][1]], fields[i][2])])

\* A list of items, each as it is written.
WriteList(written, count) ==
    LittleEndian(Len(written), count) \o FlattenSeq(written)

-----------------------------------------------------------------------------
(* Reading: what is read of data and where the next read starts; once a    *)
(* read fails the value is lost.                                           *)

Read(value, at) == [ok |-> TRUE, value |-> value, at |-> at]

Truncated == [ok |-> FALSE, value |-> <<>>, at |-> 0]

Take_Unchecked(data, at, size) ==   \* faulty: what there is will do
    LET end == IF at + size > Len(data) THEN Len(data) ELSE at + size
    IN  Read(SubSeq(data, at + 1, end), end)

Take(data, at, size) ==
    IF at + size > Len(data) THEN Truncated
    ELSE Read(SubSeq(data, at + 1, at + size), at + size)

NumberOf(bytes) == FoldRight(LAMBDA digit, high : digit + Base * high, bytes, 0)

ReadNumber(kind, data, at) ==
    LET taken == Take(data, at, Width[kind])
    IN  IF taken.ok THEN Read(NumberOf(taken.value), taken.at) ELSE Truncated

\* What is read after a length that has been read.
Sized(size, data) ==
    IF size.ok THEN Take(data, size.at, size.value) ELSE Truncated

ReadKind(kind, data, at) ==
    IF kind \in Fixed THEN Take(data, at, Width[kind])
    ELSE IF kind \in DOMAIN LengthOf
         THEN Sized(ReadNumber(LengthOf[kind], data, at), data)
    ELSE ReadNumber(kind, data, at)

\* A record and the field read after it; a list and the item read after it.
WithField(record, name, field) ==
    IF record.ok /\ field.ok
    THEN Read([x \in DOMAIN record.value \cup {name} |->
                   IF x = name THEN field.value ELSE record.value[x]], field.at)
    ELSE Truncated

WithItem(list, item) ==
    IF list.ok /\ item.ok THEN Read(Append(list.value, item.value), item.at)
    ELSE Truncated

ReadField(record, field, data) ==
    WithField(record, field[1], ReadKind(field[2], data, record.at))

ReadFields(fields, data, at) ==
    LET read[n \in 0 .. Len(fields)] ==
            IF n = 0 THEN Read(<<>>, at) ELSE ReadField(read[n - 1], fields[n], data)
    IN  read[Len(fields)]

\* The items of a list, of which one[at] is what is read where one starts.
ReadItem(list, one) == WithItem(list, one[list.at])

ReadItems(size, one) ==
    LET read[n \in 0 .. size.value] ==
            IF n = 0 THEN Read(<<>>, size.at) ELSE ReadItem(read[n - 1], one)
    IN  IF size.ok THEN read[size.value] ELSE Truncated

ReadList(count, one, data, at) == ReadItems(ReadNumber(count, data, at), one)

WithList(record, name, count, one, data) ==
    WithField(record, name, ReadList(count, one, data, record.at))

-----------------------------------------------------------------------------
(* Transactions. *)

Body == << <<"type", "u8">>, <<"from", "address">>, <<"to", "address">>,
           <<"value", "u64">>, <<"nonce", "u64">>, <<"payload", "bytes">> >>

TransactionFields == Append(Body, <<"signature", "bytes">>)

IsTransaction(tx) == IsRecord(tx, TransactionFields)

EncodeTransaction(tx) == WriteFields(tx, TransactionFields)

ReadTransaction(data, at) ==
    ReadFields(<< <<"type", "u8">>, <<"from", "address">>, <<"to", "address">>,
                  <<"value", "u64">>, <<"nonce", "u64">>, <<"payload", "bytes">>,
                  <<"signature", "bytes">> >>, data, at)

\* encodeForSigning: all but the signature, and the chain.
EncodeForSigning(tx, chainId) ==
    WriteFields(tx, Body) \o LittleEndian(chainId, "u64")

-----------------------------------------------------------------------------
(* Headers and blocks. *)

ExtensionFields == << <<"tag", "u16">>, <<"payload", "bytes">> >>

HeaderFields ==
    << <<"version", "u32">>, <<"parentHash", "hash">>, <<"stateRoot", "hash">>,
       <<"transactionsRoot", "hash">>, <<"height", "u64">>, <<"timestamp", "u64">>,
       <<"beneficiary", "address">>, <<"extraData", "bytes">>,
       <<"consensusSeal", "bytes">> >>

IsHeader(header) ==
    /\ header = [x \in Names(HeaderFields) \cup {"extensions"} |-> header[x]]
    /\ HasFields(header, HeaderFields)
    /\ IsList(header.extensions, "u64")
    /\ \A i \in DOMAIN header.extensions : IsRecord(header.extensions[i], ExtensionFields)

IsBlock(block) ==
    /\ block = [x \in {"header", "transactions"} |-> block[x]]
    /\ IsHeader(block.header)
    /\ IsList(block.transactions, "u64")
    /\ \A i \in DOMAIN block.transactions : IsTransaction(block.transactions[i])

EncodeExtension(e) == WriteFields(e, ExtensionFields)

EncodeHeader(header) ==
    WriteFields(header, HeaderFields) \o
    WriteList([i \in DOMAIN header.extensions |->
                  EncodeExtension(header.extensions[i])], "u64")

ReadExtension(data, at) ==
    ReadFields(<< <<"tag", "u16">>, <<"payload", "bytes">> >>, data, at)

ReadHeader(data, at) ==
    WithList(ReadFields(
                 << <<"version", "u32">>, <<"parentHash", "hash">>,
                    <<"stateRoot", "hash">>, <<"transactionsRoot", "hash">>,
                    <<"height", "u64">>, <<"timestamp", "u64">>,
                    <<"beneficiary", "address">>, <<"extraData", "bytes">>,
                    <<"consensusSeal", "bytes">> >>, data, at),
             "extensions", "u64",
             [p \in 0 .. Len(data) |-> ReadExtension(data, p)], data)

EncodeBlock(block) ==
    EncodeHeader(block.header) \o
    WriteList([i \in DOMAIN block.transactions |->
                  EncodeTransaction(block.transactions[i])], "u64")

\* decodeBlock, which reads from the start and does not look at the end.
DecodeBlock(data) ==
    WithList(WithField(Read(<<>>, 0), "header", ReadHeader(data, 0)),
             "transactions", "u64",
             [p \in 0 .. Len(data) |-> ReadTransaction(data, p)], data)

DecodeTransaction(data) == ReadTransaction(data, 0)

-----------------------------------------------------------------------------
(* Messages. *)

\* Those that are a list of fields: what encode() writes and decode() reads.
EncodedFields ==
    [Status    |-> << <<"version", "u32">>, <<"chainId", "u64">>,
                      <<"height", "u64">>, <<"headHash", "hash">> >>,
     Ping      |-> << <<"nonce", "u64">> >>,
     Pong      |-> << <<"nonce", "u64">> >>,
     GetBlocks |-> << <<"fromHeight", "u64">>, <<"maxCount", "u32">> >>]

DecodedFields ==
    [Status    |-> << <<"version", "u32">>, <<"chainId", "u64">>,
                      <<"height", "u64">>, <<"headHash", "hash">> >>,
     Ping      |-> << <<"nonce", "u64">> >>,
     Pong      |-> << <<"nonce", "u64">> >>,
     GetBlocks |-> << <<"fromHeight", "u64">>, <<"maxCount", "u32">> >>]

\* The kTopic of each message.
Topics == <<"Status", "Ping", "Pong", "NewBlock", "GetBlocks", "Blocks",
            "NewTransaction">>

Encode(topic, body) ==
    CASE topic = "NewBlock" -> WriteBytes(EncodeBlock(body), "bytes32")
      [] topic = "NewTransaction" -> WriteBytes(EncodeTransaction(body), "bytes32")
      [] topic = "Blocks" ->
             WriteList([i \in DOMAIN body |->
                           WriteBytes(EncodeBlock(body[i]), "bytes32")], "u32")
      [] OTHER -> WriteFields(body, EncodedFields[topic])

\* What the type of a message holds, when its blocks are short enough to be sent.
IsBody(topic, body) ==
    CASE topic = "NewBlock" -> IsBlock(body) /\ Len(EncodeBlock(body)) \in Values("u32")
      [] topic = "NewTransaction" ->
             IsTransaction(body) /\ Len(EncodeTransaction(body)) \in Values("u32")
      [] topic = "Blocks" ->
             /\ IsList(body, "u32")
             /\ \A i \in DOMAIN body :
                    IsBlock(body[i]) /\ Len(EncodeBlock(body[i])) \in Values("u32")
      [] OTHER -> IsRecord(body, EncodedFields[topic])

\* The bytes of one block or transaction, and what they decode to.
Nested(raw, decoded) ==
    IF raw.ok /\ decoded.ok THEN Read(decoded.value, raw.at) ELSE Truncated

ReadNested(Decode(_), raw) == Nested(raw, Decode(raw.value))

ReadBlock(data, at) == ReadNested(DecodeBlock, ReadKind("bytes32", data, at))

ReadMessage(topic, data) ==
    CASE topic = "NewBlock" -> ReadBlock(data, 0)
      [] topic = "NewTransaction" ->
             ReadNested(DecodeTransaction, ReadKind("bytes32", data, 0))
      [] topic = "Blocks" ->
             ReadList("u32", [p \in 0 .. Len(data) |-> ReadBlock(data, p)], data, 0)
      [] OTHER -> ReadFields(DecodedFields[topic], data, 0)

\* Whatever is not read exactly to its end is malformed.
Whole(read, data) == IF read.ok /\ read.at = Len(data) THEN read ELSE Truncated

Decode(topic, payload) == Whole(ReadMessage(topic, payload), payload)
=============================================================================
