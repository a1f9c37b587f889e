SPECIFICATION FairSpec
CONSTANTS
    s1 = s1
    s2 = s2
    Sizes = {s1, s2}
    InitialSize = s1
    InputCapacity = 1
    EventCapacity = 1
    PipeCapacity = 1
    MaxInputs = 5
    MaxOutputs = 3
    MaxResizes = 2
    MaxWork = 8
INVARIANTS
    InputInOrder
PROPERTIES
    SessionObeys
    InputAccepted
CHECK_DEADLOCK FALSE
