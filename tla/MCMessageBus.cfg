SPECIFICATION Spec
CONSTANTS
    Publishers = {p1, p2}
    Closers = {c1, c2}
    NumStreams = 2
    Lossy <- MCLossy
    Addressed <- MCAddressed
    Cap <- MCCap
    MaxCalls = 1
    None = None
INVARIANTS
    TypeOK
    NoSendOnClosed
    CloseAccountsForAll
PROPERTIES
    NoLateEntry
    CloseReturns
    PublishersReturn
\* The goroutines stop when their calls are made and the bus is closed.
CHECK_DEADLOCK FALSE
