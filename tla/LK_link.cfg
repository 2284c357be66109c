SPECIFICATION LinkLiveSpec
CONSTANTS
    Senders = {g1, g2, g3}
    MaxSends = 5
    PkgHeadLen = 2
    Body <- MCBody
INVARIANT
    WakeupComes
PROPERTIES
    SendFlushes
    LinkIsChannel
    WriterIsChannel
    WrittenIsDelivered
CHECK_DEADLOCK FALSE
