SPECIFICATION LiveSpec
CONSTANTS
    c1 = c1  c2 = c2  c3 = c3
    Calls = {c1, c2, c3}
    NoCall = NoCall
    Timed = {c1, c2}
    OverlapPacking = FALSE
INVARIANTS
    ReplyIsMine
    NoSessionLeft
PROPERTY ReplyEndsCall
CHECK_DEADLOCK FALSE
