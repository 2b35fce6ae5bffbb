SPECIFICATION FairSpec
CONSTANTS
    MaxConns = 2
    MaxPackets = 2
    NumFds = 2
    MaxForeign = 1
INVARIANTS
    TypeOK
    NoStrayReceiver
    ClosesItsOwn
    NoCrossTalk
    JoinedOnSocket
    NoLostSocket
    LoginOnlyWhenFree
    ViewFollowsConnection
    FreedAlone
PROPERTIES
    DisconnectReturns
