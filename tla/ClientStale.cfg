SPECIFICATION FairSpec
CONSTANTS
    MaxConns = 2
    MaxPackets = 2
    NumFds = 1
    MaxForeign = 0
PROPERTIES
    DisconnectRestoresLogin
