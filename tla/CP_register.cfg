SPECIFICATION CPSpec
CONSTANTS
    s1 = s1  s2 = s2  c1 = c1  c2 = c2  h1 = h1  h2 = h2  n1 = n1
    Servers = {s1}
    Conns = {c1}
    Names = {n1}
    Handles = {h1}
    NameOf <- OneName
    ServerOf <- Placement
    NoServer = NoServer
    NoConn = NoConn
    NoHandle = NoHandle
    ServiceKeepaliveTime = 1
    ConfirmExpiredSecond = 1
    CheckAliveMaxNumPerTickPerApp = 1
    MaxTime = 1
    MaxQueue = 3
    RepliesLate = TRUE
    EarlyUnRegister = TRUE
    Tickers = TRUE
    QueueFills = FALSE
VIEW WithoutOut
INVARIANT UpIsRegistered
