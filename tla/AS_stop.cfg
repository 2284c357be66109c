SPECIFICATION LiveSpec
CONSTANTS
    Services = {s1}
    Conns = {c1, c2}
    RecvQueueSize = 1
    ServiceQueueSize = 1
    MaxMessages = 2
INVARIANTS
    UnRegisterIsLast
    StopIsFinal
PROPERTIES
    StopEnds
CHECK_DEADLOCK FALSE
