SPECIFICATION FairSpec
CONSTANTS
    p1 = p1
    p2 = p2
    c1 = c1
    c2 = c2
    noConn = noConn
    NoConn = noConn
    Panes = {p1}
    Conns = {c1, c2}
    Limit = 3
    ReplayChunk = 2
    Capacity = 2
    MaxRead = 3
    MaxBytes = 4
    MayLeave = {c1, c2}
INVARIANTS
    ExactStream
    BufferNewest
PROPERTIES
    ImplementsStream
    DeliveredEventually
CHECK_DEADLOCK FALSE
