SPECIFICATION FairSpec
CONSTANTS
    p1 = p1
    p2 = p2
    ann = ann
    bob = bob
    Procs <- MCProcs
    Names <- MCNames
    Limits <- MCLimits
    HISTORY_MAX = 2
    UINT32 = 9
    MaxSequence = 2
    MaxMessages = 2
    Faulty = TRUE
INVARIANTS
    TypeOK
    NoTransactionLeftOpen
    OneIdPerName
    RightAuthor
PROPERTIES
    HistoryInOrder
    DirectorySpec
    CallsReturn
