SPECIFICATION FairSpec
CONSTANTS
    c1 = c1
    c2 = c2
    d1 = d1
    d2 = d2
    none = none
    waker = waker
    Clients = {c1, c2}
    Launched = {c1}
    Daemons = {d1, d2}
    None = none
    Waker = waker
    MaxShells = 1
    MaxQueue = 1
INVARIANTS
    OneOwner
    DrainedStaysEmpty
PROPERTIES
    ShellsSurvive
    ShutdownFinishes
CHECK_DEADLOCK FALSE
