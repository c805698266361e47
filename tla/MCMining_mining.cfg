SPECIFICATION FairSpec
CONSTANTS
    r1 = r1
    r2 = r2
    miner = miner
    alice = alice
    bob = bob
    Free = Free
    NoTx = NoTx
    Miner = miner
    Threads = {r1, r2}
    Senders = {alice}
    MaxTxs = 1
    MaxHeads = 3
    MaxNonce = 1
INVARIANTS
    TypeOK
    StaleSealIsInterrupted
    SealOnHeadIsWhole
    DraftFailsOnlyIfStale
PROPERTY
    StopEnds
