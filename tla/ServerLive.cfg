SPECIFICATION FairSpec
CONSTANTS
    NS_MAX_CLIENTS = 1
    NS_AUTH_TIMEOUT_SECS = 1
    NOFILE = {3}
    SureFit = 2
    MaxFit = 3
    RingMayLap = FALSE
    Conns = {c1, c2}
    Names = {n1}
    NoName = NoName
    NoConn = NoConn
    RequestTypes = {"BAD", "JOIN", "PART"}
    Faults = {"close", "reset", "silence", "signal", "accept"}
    InboxCap = 1
    MaxRequests = 2
PROPERTIES
    ShutdownEnds
    JoinsOrGoes
    PeerGoneIsNoticed
