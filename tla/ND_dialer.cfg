SPECIFICATION LiveSpec
CONSTANTS
    Senders = {g1}
    MaxFaults = 2
INVARIANTS
    LoopsServeCurrent
    ShutdownCloses
PROPERTIES
    Reconnects
    SendEnds
CHECK_DEADLOCK FALSE
