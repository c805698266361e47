SPECIFICATION FairSpec
CONSTANTS
    anna = anna
    ben = ben
    cleo = cleo
    g = g
    a1 = a1
    a2 = a2
    b1 = b1
    b2 = b2
    z = z
    t1 = t1
    t2 = t2
    NoBlock = NoBlock
    Node = {anna, ben}
    Blocks = {g, a1, a2, b1, b2, z}
    Txs = {}
    Window = 1
    SeenLimit = 1
    MaxPings <- NoPings
    MaxEvents = 4
    MaxLosses = 1
    MaxFailures = 1
    Dials <- Pair
    Geneses = {g, z}
    ChainId <- SameChain
    Accepts <- SameRules
    Parent <- MCParent
    Height <- MCHeight
    HashRank <- MCHashRank
    MinedBy <- MCMinedBy
    ValidOn <- MCValidOn
INVARIANTS
    TypeOK
    
    NobodyStaysBehind

    
CHECK_DEADLOCK FALSE
