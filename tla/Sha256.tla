------------------------------- MODULE Sha256 -------------------------------
(***************************************************************************)
(* A Sha256 object (crypto/sha256/Sha256.cpp), which hashes one message    *)
(* after the other: bytes are gathered into blocks, a full block is        *)
(* compressed, and digest() pads what is left and starts again.            *)
(*                                                                         *)
(* The compression function is abstract: an object is in the state it gets *)
(* to from the blocks it has compressed since it was reset, so these stand *)
(* for _state and for the digest.                                          *)
(***************************************************************************)
EXTENDS Integers, Sequences

CONSTANTS
    BlockSize,       \* bytes of a block (64 in the code)
    LengthSize,  \* bytes of the length at its end (8)
    Bits,        \* of a byte (8)
    Radix,       \* the values of a byte (256)
    Mark,        \* the byte after a message (0x80)
    Input,       \* the bytes messages are made of
    NoDigest,
    MaxBytes     \* bound: bytes given to the object

ASSUME Sha256Assumption ==
    /\ BlockSize \in Nat /\ LengthSize \in Nat /\ LengthSize < BlockSize
    /\ Bits \in Nat /\ Radix \in Nat \ {0}
    /\ Mark \in 1 .. Radix - 1 /\ Input \subseteq 0 .. Radix - 1
    /\ MaxBytes \in Nat

VARIABLES
    data,        \* _data, whose old bytes stay until they are written over
    blocklen,    \* _blocklen
    bitlen,      \* _bitlen
    compressed,  \* the blocks _state has gone through
    input,       \* what the current call of update() has still to take
    message,     \* history: the bytes given since the last reset
    digest,      \* history: the last digest, with the message it is of
    given        \* bytes given so far

hashVars == <<data, blocklen, bitlen, compressed, input, message, digest, given>>

\* Offsets in a block, and where its length begins.
Offset == 0 .. BlockSize - 1
LengthAt == BlockSize - LengthSize

HashInit ==
    /\ data = [i \in Offset |-> 0]
    /\ blocklen = 0 /\ bitlen = 0 /\ compressed = <<>>
    /\ input = <<>> /\ message = <<>>
    /\ digest = NoDigest /\ given = 0

\* transform(): the buffer is compressed into the state.
Transform(blocks, buffer) == Append(blocks, buffer)

\* reset(), which leaves the buffer as it is.
Restart ==
    /\ blocklen' = 0 /\ bitlen' = 0 /\ compressed' = <<>>
    /\ message' = <<>>

Reset ==
    /\ input = <<>>
    /\ Restart
    /\ UNCHANGED <<data, input, digest, given>>

-----------------------------------------------------------------------------
\* update() is called with the next piece of the message...
Update(piece) ==
    /\ input = <<>>
    /\ given + Len(piece) <= MaxBytes
    /\ input' = piece
    /\ message' = message \o piece
    /\ given' = given + Len(piece)
    /\ UNCHANGED <<data, blocklen, bitlen, compressed, digest>>

\* ... and takes it byte by byte: one turn of its loop.
UpdateByte ==
    /\ input # <<>>
    /\ data' = [data EXCEPT ![blocklen] = Head(input)]
    /\ input' = Tail(input)
    /\ IF blocklen + 1 = BlockSize
       THEN /\ compressed' = Transform(compressed, data')
            /\ bitlen' = bitlen + BlockSize * Bits
            /\ blocklen' = 0
       ELSE /\ blocklen' = blocklen + 1
            /\ UNCHANGED <<bitlen, compressed>>
    /\ UNCHANGED <<message, digest, given>>

\* pad(): the mark, then zeros to the length, or to the end of the block when the
\* length does not fit any more.
Marked(buffer, size) ==
    LET end == IF size < LengthAt THEN LengthAt ELSE BlockSize
    IN  [i \in Offset |-> IF i = size THEN Mark
                          ELSE IF size < i /\ i < end THEN 0
                          ELSE buffer[i]]

Cleared(buffer) == [i \in Offset |-> IF i < LengthAt THEN 0 ELSE buffer[i]]

\* The bytes of a length, the high one first; it ends the block.
Digit(length, i) == (length \div Radix^(BlockSize - 1 - i)) % Radix

WithLength(buffer, length) ==
    [i \in Offset |-> IF i < LengthAt THEN buffer[i] ELSE Digit(length, i)]

Pad_NeverSpills(buffer, size, length, blocks) ==   \* faulty
    Transform(blocks, WithLength(Marked(buffer, size), length))

Pad(buffer, size, length, blocks) ==
    IF size < LengthAt
    THEN Transform(blocks, WithLength(Marked(buffer, size), length))
    ELSE Transform(Transform(blocks, Marked(buffer, size)),
                   WithLength(Cleared(Marked(buffer, size)), length))

\* digest(): the padding, the digest, and a new start.
Digest ==
    /\ input = <<>>
    /\ LET blocks == Pad(data, blocklen, bitlen + blocklen * Bits, compressed)
       IN  /\ digest' = [of |-> message, blocks |-> blocks]
           /\ data' = blocks[Len(blocks)]
    /\ Restart
    /\ UNCHANGED <<input, given>>

-----------------------------------------------------------------------------
HashNext ==
    \/ \E n \in 0 .. MaxBytes : \E piece \in [1 .. n -> Input] : Update(piece)
    \/ UpdateByte \/ Digest \/ Reset

HashSpec == HashInit /\ [][HashNext]_hashVars

-----------------------------------------------------------------------------
(* The padding of FIPS 180-4, as one definition of what each byte is. *)

\* The least number of blocks that hold n bytes, the mark and the length.
BlocksOf(n) ==
    CHOOSE k \in 1 .. n + 2 :
        /\ n + 1 + LengthSize <= k * BlockSize
        /\ (k - 1) * BlockSize < n + 1 + LengthSize

\* The byte at offset i of the k-th block of a padded message.
PaddedByte(m, k, i) ==
    LET p == (k - 1) * BlockSize + i + 1
    IN  IF p <= Len(m) THEN m[p]
        ELSE IF p = Len(m) + 1 THEN Mark
        ELSE IF k = BlocksOf(Len(m)) /\ i >= LengthAt THEN Digit(Len(m) * Bits, i)
        ELSE 0

Padded(m) ==
    [k \in 1 .. BlocksOf(Len(m)) |-> [i \in Offset |-> PaddedByte(m, k, i)]]

-----------------------------------------------------------------------------
(* Properties. *)

\* Where the object stands in the message: the full blocks are compressed, the
\* rest is buffered, and what update() still has to take comes after it.
PositionIsKept ==
    LET taken == Len(compressed) * BlockSize + blocklen
    IN  /\ blocklen \in Offset
        /\ bitlen = Len(compressed) * BlockSize * Bits
        /\ Len(message) = taken + Len(input)
        /\ \A k \in DOMAIN compressed, i \in Offset :
               compressed[k][i] = message[(k - 1) * BlockSize + i + 1]
        /\ \A i \in 0 .. blocklen - 1 :
               data[i] = message[Len(compressed) * BlockSize + i + 1]
        /\ \A j \in DOMAIN input : input[j] = message[taken + j]

\* A digest is that of the whole message padded as the standard says, whatever the
\* pieces it was given in, the length it has and what was hashed before it with the
\* same object (update, pad, digest).
DigestIsOfMessage ==
    digest # NoDigest => digest.blocks = Padded(digest.of)
=============================================================================
