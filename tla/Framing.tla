------------------------------ MODULE Framing -------------------------------
(***************************************************************************)
(* One direction of a connection, down to its bytes: the frames of         *)
(* TcpNetwork::send (network/tcp/Wire.cpp) written piece by piece into the *)
(* socket, received piece by piece by the peer's reader (Socket.cpp,       *)
(* TcpNetwork::readerLoop) and decoded by its dispatcher.  That the frames *)
(* of several senders do not mix is Network's FramesStayWhole.             *)
(***************************************************************************)
EXTENDS Codec, FiniteSets

CONSTANTS
    Message,            \* the messages that may be sent: [topic, body]
    MaxMessageBytes,    \* network.maxMessageBytes
    NoHeader,           \* the reader waits for a header
    Pieces,             \* bound: bytes moved by one call of the socket
    MaxMessages         \* bound: messages sent

ASSUME FramingAssumption ==
    /\ Pieces \subseteq Nat \ {0}
    /\ MaxMessageBytes \in Nat /\ MaxMessages \in Nat

VARIABLES
    sent,       \* history: the messages given to send()
    unsent,     \* what sendAll has still to write of the last one
    wire,       \* bytes written and not yet received
    header,     \* the header of the frame being received, or NoHeader
    buffer,     \* what has been received of the header, or of the payload
    handled,    \* history: the messages given to the handlers
    broken,     \* the sender's end is gone
    reading     \* the reader's thread runs

vars == <<sent, unsent, wire, header, buffer, handled, broken, reading>>

Init ==
    /\ sent = <<>> /\ unsent = <<>> /\ wire = <<>>
    /\ header = NoHeader /\ buffer = <<>> /\ handled = <<>>
    /\ broken = FALSE /\ reading = TRUE

-----------------------------------------------------------------------------
\* Wire::encode, Wire::decodeHeader.
Frame(m) ==
    LET payload == Encode(m.topic, m.body)
    IN  LittleEndian(CHOOSE i \in DOMAIN Topics : Topics[i] = m.topic, "u16")
        \o LittleEndian(Len(payload), "u32") \o payload

\* The frames, once for all.
Frames == [m \in Message |-> Frame(m)]

\* The messages are of their types, and no longer than a frame can tell.
ASSUME MessageAssumption ==
    /\ Len(Topics) \in Values("u16")
    /\ \A m \in Message :
           /\ m = [topic |-> m.topic, body |-> m.body]
           /\ \E i \in DOMAIN Topics : Topics[i] = m.topic
           /\ IsBody(m.topic, m.body)
           /\ Len(Encode(m.topic, m.body)) \in Values("u32")
           /\ NoHeader # [topic |-> m.topic, length |-> Len(Encode(m.topic, m.body))]

HeaderSize == Width["u16"] + Width["u32"]

DecodeHeader(raw) ==
    [topic  |-> Topics[ReadNumber("u16", raw, 0).value],
     length |-> ReadNumber("u32", raw, Width["u16"]).value]

\* send: one frame at a time.
Send(m) ==
    /\ ~broken /\ unsent = <<>>
    /\ Len(sent) < MaxMessages
    /\ sent' = Append(sent, m)
    /\ unsent' = Frames[m]
    /\ UNCHANGED <<wire, header, buffer, handled, broken, reading>>

AtMost(n, bytes) == IF n < Len(bytes) THEN n ELSE Len(bytes)

\* sendAll: the socket takes part of what it is given.
SendAll(n) ==
    /\ unsent # <<>>
    /\ wire' = wire \o SubSeq(unsent, 1, AtMost(n, unsent))
    /\ unsent' = SubSeq(unsent, n + 1, Len(unsent))
    /\ UNCHANGED <<sent, header, buffer, handled, broken, reading>>

\* The connection is closed or lost, with some of what was under way.
Break ==
    /\ ~broken
    /\ broken' = TRUE
    /\ unsent' = <<>>
    /\ \E n \in 0 .. Len(wire) : wire' = SubSeq(wire, 1, n)
    /\ UNCHANGED <<sent, header, buffer, handled, reading>>

-----------------------------------------------------------------------------
\* What receiveExact has been asked for.
Wanted == IF header = NoHeader THEN HeaderSize ELSE header.length

Complete == Len(buffer) = Wanted

Stopped ==
    /\ reading' = FALSE
    /\ UNCHANGED <<sent, unsent, wire, header, buffer, handled, broken>>

\* receiveSome, of no more than what is missing.
ReceiveSome(n) ==
    /\ reading /\ ~Complete /\ wire # <<>>
    /\ LET missing == Wanted - Len(buffer)
           k == AtMost(IF n < missing THEN n ELSE missing, wire)
       IN  /\ buffer' = buffer \o SubSeq(wire, 1, k)
           /\ wire' = SubSeq(wire, k + 1, Len(wire))
    /\ UNCHANGED <<sent, unsent, header, handled, broken, reading>>

\* recv() answers 0 in the middle of receiveExact.
ConnectionClosed ==
    /\ reading /\ ~Complete /\ wire = <<>> /\ broken
    /\ Stopped

Oversized_OffByOne(length) == length >= MaxMessageBytes   \* faulty

Oversized(length) == length > MaxMessageBytes

ReadFrameHeader ==
    /\ reading /\ header = NoHeader /\ Complete
    /\ ~Oversized(DecodeHeader(buffer).length)
    /\ header' = DecodeHeader(buffer)
    /\ buffer' = <<>>
    /\ UNCHANGED <<sent, unsent, wire, handled, broken, reading>>

\* "oversized frame": the connection is given up.
RefuseFrame ==
    /\ reading /\ header = NoHeader /\ Complete
    /\ Oversized(DecodeHeader(buffer).length)
    /\ Stopped

\* onMessage: Dispatcher::dispatch; a malformed message drops the peer.
Dispatch ==
    /\ reading /\ header # NoHeader /\ Complete
    /\ LET body == Decode(header.topic, buffer)
       IN  IF body.ok
           THEN /\ handled' = Append(handled, [topic |-> header.topic,
                                               body |-> body.value])
                /\ UNCHANGED reading
           ELSE reading' = FALSE /\ UNCHANGED handled
    /\ header' = NoHeader /\ buffer' = <<>>
    /\ UNCHANGED <<sent, unsent, wire, broken>>

Reader ==
    \/ \E n \in Pieces : ReceiveSome(n)
    \/ ConnectionClosed \/ ReadFrameHeader \/ RefuseFrame \/ Dispatch

Next ==
    \/ \E m \in Message : Send(m)
    \/ \E n \in Pieces : SendAll(n)
    \/ Break
    \/ Reader

Spec == Init /\ [][Next]_vars

-----------------------------------------------------------------------------
(* Properties. *)

\* The handlers are given what was sent, in order, whatever the pieces and wherever
\* the connection breaks; what has been received of a payload that is not complete
\* never decodes (Wire, receiveExact, encode, decode).
HandledAsSent ==
    /\ IsPrefix(handled, sent)
    /\ header # NoHeader /\ ~Complete => ~Decode(header.topic, buffer).ok

Blocks == {m.body : m \in {n \in Message : n.topic = "NewBlock"}}
Transactions == {m.body : m \in {n \in Message : n.topic = "NewTransaction"}}

HashedHeader == [b \in Blocks |-> EncodeHeader(b.header)]
Hashed == [t \in Transactions |-> EncodeTransaction(t)]
Signed == [t \in Transactions |-> [chainId \in {0, 1} |-> EncodeForSigning(t, chainId)]]

\* What a signature is meant to cover.
Covered(t) == [name \in DOMAIN t \ {"signature"} |-> t[name]]

\* Bytes that are hashed or signed name one value: a header, a transaction, and
\* what a signature covers of one, on one chain (encode, encodeForSigning).
EncodingsAreUnambiguous ==
    /\ \A b, c \in Blocks : HashedHeader[b] = HashedHeader[c] => b.header = c.header
    /\ \A t, u \in Transactions :
           /\ Hashed[t] = Hashed[u] => t = u
           /\ \A i, j \in {0, 1} :
                  Signed[t][i] = Signed[u][j] => Covered(t) = Covered(u) /\ i = j

Fits(m) == Len(Frames[m]) - HeaderSize <= MaxMessageBytes

\* While the connection stands, a reader that has ended or waits for more than
\* was sent has handled every message, up to the first that did not fit: none is
\* refused that fits, none is left half received (sendAll, receiveExact,
\* readerLoop).
SentIsHandled ==
    LET atRest == ~reading \/ (unsent = <<>> /\ wire = <<>> /\ ~Complete)
    IN  ~broken /\ atRest =>
            \A k \in DOMAIN sent :
                (\A i \in 1 .. k : Fits(sent[i])) => k <= Len(handled)
=============================================================================
