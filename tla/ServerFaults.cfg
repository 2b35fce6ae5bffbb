SPECIFICATION Spec
CONSTANTS
    NS_MAX_CLIENTS = 2
    NS_AUTH_TIMEOUT_SECS = 1
    NOFILE = {2, 3}
    SureFit = 2
    MaxFit = 3
    RingMayLap = TRUE
    Conns = {c1, c2, c3}
    Names = {n1, n2}
    NoName = NoName
    NoConn = NoConn
    RequestTypes = {"JOIN", "JOIN_BAD", "TEXT", "TEXT_LONG", "LEAVE", "OTHER", "BAD", "PART"}
    Faults = {"close", "reset", "database", "accept"}
    InboxCap = 1
    MaxRequests = 2
SYMMETRY ConnsAndNames
INVARIANTS
    TypeOK
    PollOutIffPending
    SessionStartsClean
    NoSocketLeak
