SPECIFICATION FairSpec
CONSTANTS
    NS_SEND_BUF_SIZE = 5
    SIZE_T = 64
    PacketLens = {2, 3}
    MaxAccepted = 14
INVARIANTS
    TypeOK
    NothingLostOrRepeated
    RefusedOnlyForSpace
PROPERTIES
    StepsOfAQueue
    DrainReturnsBeforeReread
