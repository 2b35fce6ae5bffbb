SPECIFICATION FairSpec
CONSTANTS
    NS_SEND_BUF_SIZE = 4
    SIZE_T = 64
    PacketLens = {1, 3}
    MaxAccepted = 8
PROPERTY DrainReturns
