SPECIFICATION Spec
CONSTANTS
    c1 = c1  c2 = c2  c3 = c3
    Calls = {c1, c2}
    NoCall = NoCall
    Timed = {c1, c2}
    OverlapPacking = TRUE
INVARIANT ReplyIsMine
CHECK_DEADLOCK FALSE
