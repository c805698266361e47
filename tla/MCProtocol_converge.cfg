SPECIFICATION Spec
CONSTANTS
    anna = anna
    ben = ben
    cleo = cleo
    g = g
    a1 = a1
    a2 = a2
    b1 = b1
    b2 = b2
    z = z
    t1 = t1
    t2 = t2
    NoBlock = NoBlock
    Node = {anna, ben}
    Blocks = {g, a1, a2, b1, b2}
    Txs = {}
    Window = 1
    SeenLimit = 1
    MaxPings <- NoPings
    MaxEvents = 4
    MaxLosses = 0
    MaxFailures = 0
    Dials <- Pair
    Geneses = {g}
    ChainId <- SameChain
    Accepts <- SameRules
    Parent <- MCParent
    Height <- MCHeight
    HashRank <- MCHashRank
    MinedBy <- MCMinedBy
    ValidOn <- MCValidOn
INVARIANTS
    MinersConverge
CHECK_DEADLOCK FALSE
