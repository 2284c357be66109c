SPECIFICATION MCSpec
CONSTANTS
    s1 = s1  s2 = s2  h2 = h2  n1 = n1  c1 = c1
    Servers = {s1, s2}
    Conns = {c1, c2, c3}
    Names = {n1}
    Handles = {h1, h2}
    NameOf <- OneName
    ServerOf <- Alternate
    NoServer = NoServer
    NoConn = NoConn
    NoHandle = NoHandle
    ServiceKeepaliveTime = 1
    ConfirmExpiredSecond = 1
    CheckAliveMaxNumPerTickPerApp = 1
    MaxTime = 2
INVARIANTS
    ConfirmConsistent
    RegistryConsistent
    ElectionConsistent
    KickTargetsExpired
    SessionHeld
PROPERTIES
    ScanComplete
    LeaderStable
    ExpiredServiceIsRemoved
    ConfirmEnds
