SPECIFICATION Spec
CONSTANTS
    NS_MAX_CLIENTS = 2
    NS_AUTH_TIMEOUT_SECS = 1
    NOFILE = {3}
    SureFit = 2
    MaxFit = 3
    RingMayLap = FALSE
    Conns = {c1, c2}
    Names = {n1, n2}
    NoName = NoName
    NoConn = NoConn
    RequestTypes = {"JOIN"}
    Faults = {"close", "reset"}
    InboxCap = 1
    MaxRequests = 2
INVARIANT BrokenSocketSurvived
