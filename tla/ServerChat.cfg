SPECIFICATION Spec
CONSTANTS
    NS_MAX_CLIENTS = 3
    NS_AUTH_TIMEOUT_SECS = 1
    NOFILE = {4}
    SureFit = 2
    MaxFit = 3
    RingMayLap = FALSE
    Conns = {c1, c2, c3}
    Names = {n1, n2, n3}
    NoName = NoName
    NoConn = NoConn
    RequestTypes = {"JOIN", "TEXT", "LEAVE"}
    Faults = {"database"}
    InboxCap = 1
    MaxRequests = 4
SYMMETRY ConnsAndNames
INVARIANTS
    UniqueNames
    NoMessageMissed
    SameOrderForAll
    NoFalseDeparture
PROPERTIES
    ChatSpec
