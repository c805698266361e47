-------------------------------- MODULE Pow ---------------------------------
(***************************************************************************)
(* The proof of work (consensus/pow/PowEngine.cpp) of one draft, down to   *)
(* the bits it counts and the bytes it hashes, nonce by nonce.  The hash   *)
(* function is any function from bytes to digests.                         *)
(***************************************************************************)
EXTENDS Codec

CONSTANTS
    Hash(_),      \* IHasher::hash
    ByteBits,     \* bits of a byte (8)
    Drafts, Heads \* the headers that are drafted, and those they follow

ASSUME PowAssumption == ByteBits \in Nat \ {0} /\ Base = Power(2, ByteBits)

VARIABLES
    head,         \* the header prepare() finds at the head of the chain
    difficulty,   \* _difficultyBits
    draft,        \* the header being sealed
    nonce,        \* the nonce to be tried
    outcome       \* what seal() answers, "none" until then

powVars == <<head, difficulty, draft, nonce, outcome>>

HashBits == Width["hash"] * ByteBits

\* create() refuses the other difficulties.
Difficulties == 1 .. HashBits - 1

-----------------------------------------------------------------------------
\* The zeros before the first one of a byte that has one.
ZerosOf(byte) ==
    CHOOSE z \in 0 .. ByteBits - 1 :
        /\ Power(2, ByteBits - 1 - z) <= byte
        /\ byte < Power(2, ByteBits - z)

MeetsDifficulty_NoBreak(hash, bits) ==   \* faulty: counts on in later bytes
    LET Count(n, byte) == n + (IF byte = 0 THEN ByteBits ELSE ZerosOf(byte))
    IN  FoldLeft(Count, 0, hash) >= bits

\* meetsDifficulty: whole bytes of zeros, then those of the first other byte.
MeetsDifficulty(hash, bits) ==
    LET others == {i \in DOMAIN hash : hash[i] # 0}
        zeros == IF others = {} THEN Len(hash) * ByteBits
                 ELSE LET first == CHOOSE i \in others : \A j \in others : i <= j
                      IN  (first - 1) * ByteBits + ZerosOf(hash[first])
    IN  zeros >= bits

Meets(header) == MeetsDifficulty(Hash(EncodeHeader(header)), difficulty)

\* verify, against the parent the header names.
Verify(header, parent) ==
    /\ header.height = parent.height + 1
    /\ header.timestamp > parent.timestamp
    /\ Len(header.consensusSeal) = Width["u64"]
    /\ Meets(header)

WriteNonce(header, n) ==
    [header EXCEPT !.consensusSeal = LittleEndian(n, "u64")]

\* prepare: a clock that is not after the head's is not followed.
Prepare(header, parent) ==
    WriteNonce([header EXCEPT !.timestamp =
                   IF @ <= parent.timestamp
                   THEN (parent.timestamp + 1) % Power(Base, Width["u64"]) ELSE @], 0)

\* The headers that are hashed.
Tried == { WriteNonce(Prepare(d, h), n) : d \in Drafts, h \in Heads, n \in Values("u64") }

\* A draft is made on the head it follows; a digest is as long as any other.
ASSUME HeadersAssumption ==
    /\ \A h \in Heads \cup Drafts : IsHeader(h)
    /\ \A d \in Drafts, h \in Heads : d.height = h.height + 1
    /\ \A header \in Tried : IsKind(Hash(EncodeHeader(header)), "hash")

PowInit ==
    /\ head \in Heads /\ difficulty \in Difficulties
    /\ \E header \in Drafts : draft = Prepare(header, head)
    /\ nonce = 0 /\ outcome = "none"

\* One turn of seal(): the token, or one nonce.
Cancelled ==
    /\ outcome = "none"
    /\ outcome' = "cancelled"
    /\ UNCHANGED <<head, difficulty, draft, nonce>>

TryNonce ==
    /\ outcome = "none"
    /\ draft' = WriteNonce(draft, nonce)
    /\ IF Meets(draft') THEN outcome' = "sealed" /\ UNCHANGED nonce
       ELSE IF nonce + 1 \in Values("u64")
       THEN nonce' = nonce + 1 /\ UNCHANGED outcome
       ELSE outcome' = "exhausted" /\ UNCHANGED nonce
    /\ UNCHANGED <<head, difficulty>>

PowNext == Cancelled \/ TryNonce

PowSpec == PowInit /\ [][PowNext]_powVars

-----------------------------------------------------------------------------
(* Property. *)

\* A digest as the number it is, the high byte first.
Number(hash) == FoldLeft(LAMBDA high, byte : Base * high + byte, 0, hash)

\* What the node seals on its head every node verifies, by the clock it has and
\* for every difficulty: the seal is part of what is hashed and decoded, the bits
\* counted are those of a number below 2^(256 - difficulty), and a clock behind
\* the head's is corrected, unless the head's timestamp is the last there is
\* (prepare, seal, verify, meetsDifficulty).
SealedIsVerified ==
    outcome = "sealed" /\ head.timestamp + 1 \in Values("u64") =>
        LET read == ReadHeader(EncodeHeader(draft), 0)
        IN  /\ read.ok /\ Verify(read.value, head)
            /\ Number(Hash(EncodeHeader(read.value))) <
                   Power(2, HashBits - difficulty)
=============================================================================
