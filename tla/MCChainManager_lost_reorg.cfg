SPECIFICATION Spec
CONSTANTS
    g = g
    a1 = a1
    a2 = a2
    a3 = a3
    b1 = b1
    b2 = b2
    b3 = b3
    b4 = b4
    c2 = c2
    d3 = d3
    u2 = u2
    j3 = j3
    alice = alice
    bob = bob
    carol = carol
    NoSigner = NoSigner
    Rejected = Rejected
    NoBlock = NoBlock
    Genesis = g
    MaxHeight = 4
    Blocks <- MCBlocks
    Parent <- MCParent
    Height <- MCHeight
    HashRank <- MCHashRank
    Sealed <- MCSealed
    States <- MCStates
    StateRoot <- MCStateRoot
    Exec <- MCExec
    Valid <- MCValid
    MaxCrashes = 1
    MaxFaults = 0
INVARIANT
    HeadIsBestAfterRestart
