SPECIFICATION CPSpec
CONSTANTS
    s1 = s1  s2 = s2  c1 = c1  c2 = c2  h1 = h1  h2 = h2  n1 = n1
    Servers = {s1, s2}
    Conns = {c1, c2}
    Names = {n1}
    Handles = {h1, h2}
    NameOf <- OneName
    ServerOf <- Placement
    NoServer = NoServer
    NoConn = NoConn
    NoHandle = NoHandle
    ServiceKeepaliveTime = 1
    ConfirmExpiredSecond = 1
    CheckAliveMaxNumPerTickPerApp = 1
    MaxTime = 0
    MaxQueue = 2
    RepliesLate = FALSE
    EarlyUnRegister = FALSE
    Tickers = FALSE
    QueueFills = TRUE
VIEW WithoutOut
INVARIANTS
    NoStaleSelfLeader
    LeaderKnows
    CandidatesKnown
