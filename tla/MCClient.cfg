SPECIFICATION ClientSpec
CONSTANTS
    Chunks = 3
    Workers = 2
    Callers = {p1, p2}
    Items = 5
    MaxInflight = 3
    Sizes = {1, 2, 3, 4, 5}
    Declared = 2
    Guard = 1
    MaxSize = 4
    Polls = 2
INVARIANTS
    RightHandles
    ProbeHandle
    OneProbe
    ExactlyOnce
    AbiProved
    
PROPERTIES
    Recovers
    StreamEnds
CHECK_DEADLOCK FALSE
