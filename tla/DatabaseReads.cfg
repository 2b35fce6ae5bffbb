SPECIFICATION Spec
CONSTANTS
    p1 = p1
    p2 = p2
    ann = ann
    bob = bob
    Procs <- MCProcs
    Names <- MCOneName
    Limits <- MCNoLimits
    HISTORY_MAX = 2
    UINT32 = 9
    MaxSequence = 3
    MaxMessages = 1
    Faulty = FALSE
PROPERTIES
    ReadsDoNotBlockWrites
