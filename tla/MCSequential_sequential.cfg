SPECIFICATION SequentialSpec
CONSTANTS
    alice = alice
    bob = bob
    carol = carol
    NoSigner = NoSigner
    Rejected = Rejected
    Address = {alice, bob, carol}
    Word = 9
    BlockReward = 2
    MaxTxs = 2
    BlockSize = 4
    LengthSize = 2
    Bits = 3
    Radix = 8
    Mark = 4
    Input = {0, 4}
    NoDigest = NoDigest
    MaxBytes = 8
    Base = 8
    ByteBits = 3
    Width <- MCWidth
    Hash <- MCHash
    Drafts <- MCDrafts
    Heads <- MCHeads
    MaxBlocks = 3
    Allocations <- MCAllocations
    Offered <- MCOffered
INVARIANTS
    SupplyIsMinted
    NoncesAreConsecutive
    PoolIsExecutable
    DigestIsOfMessage
    SealedIsVerified
PROPERTY
    SpendsAreSigned
CHECK_DEADLOCK FALSE
