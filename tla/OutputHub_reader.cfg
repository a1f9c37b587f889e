CONSTANTS
    p1 = p1
    p2 = p2
    c1 = c1
    c2 = c2
    noConn = noConn
    NoConn = noConn
    Panes = {p1}
    Conns = {c1}
    Limit = 2
    ReplayChunk = 1
    Capacity = 3
    MaxRead = 1
    MaxBytes = 3
    MayLeave = {c1}
SPECIFICATION FairSpec
PROPERTIES
    OutputServiced
CHECK_DEADLOCK FALSE
