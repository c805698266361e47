SPECIFICATION Spec
CONSTANTS
    anna = anna
    ben = ben
    cleo = cleo
    g = g
    a1 = a1
    a2 = a2
    b1 = b1
    b2 = b2
    z = z
    t1 = t1
    t2 = t2
    NoBlock = NoBlock
    Node = {anna, ben, cleo}
    Blocks = {g, a1, b1, b2}
    Txs = {t1}
    Window = 1
    SeenLimit = 1
    MaxPings <- BensPings
    MaxEvents = 2
    MaxLosses = 0
    MaxFailures = 0
    Dials <- Line
    Geneses = {g}
    ChainId <- SameChain
    Accepts <- SameRules
    Parent <- MCParent
    Height <- MCHeight
    HashRank <- MCHashRank
    MinedBy <- MCMinedBy
    ValidOn <- MCValidOn
INVARIANTS
    MarkedIsReached
    PingIsUnderWay
CHECK_DEADLOCK FALSE
