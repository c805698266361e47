SPECIFICATION Spec
CONSTANTS
    Base = 8
    Width <- MCWidth
    Message <- MCMessage
    MaxMessageBytes = 79
    NoHeader = NoHeader
    Pieces = {3, 40}
    MaxMessages = 2
INVARIANTS
    HandledAsSent
    EncodingsAreUnambiguous
    SentIsHandled
CHECK_DEADLOCK FALSE
