SPECIFICATION Spec
CONSTANTS
    p = p
    q = q
    r = r
    Conn = {p, q, r}
    Bootstrap = {p}
    MaxPeers = 2
    Buffer = 2
    Main = Main
    Acceptor = Acceptor
    Miner = Miner
    NoThread = NoThread
    MaxSends = 2
    MaxAcceptErrors = 1
INVARIANTS
    TypeOK
    ObserverIsInOrder
    FramesStayWhole
    StopIsBlockedByRemote
    OfferIsAnswered
SYMMETRY Callers
CHECK_DEADLOCK FALSE
