SPECIFICATION Spec
CONSTANTS
    s1 = s1  s2 = s2  h2 = h2  n1 = n1  c1 = c1
    Servers = {s1, s2}
    Conns = {c1, c2}
    Names = {n1}
    Handles = {h1}
    NameOf <- OneName
    ServerOf <- Alternate
    NoServer = NoServer
    NoConn = NoConn
    NoHandle = NoHandle
    ServiceKeepaliveTime = 2
    ConfirmExpiredSecond = 2
    CheckAliveMaxNumPerTickPerApp = 1
    MaxTime = 3
INVARIANT OnlineOnlyAfterConfirm
