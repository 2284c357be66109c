SPECIFICATION LiveSpec
CONSTANTS
    MaxDials = 2
    Limits <- MCLimits
    SessionExpiredSecond = 0
    MaxExpiredConnNumPerCheck = 1
    Backlog = 1
INVARIANTS
    StreamPrefix
    DoneClosedOnce
    RemovedIsClosed
PROPERTIES
    HalfOpenEnds
CHECK_DEADLOCK FALSE
