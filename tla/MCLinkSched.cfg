CONSTANTS
    MaxLinks = 3
    NumBufs = 2
    HighQuota = 4
    Loads <- MCLoads
SPECIFICATION Spec
INVARIANT WindowAccounted
PROPERTY DataIsSent
CHECK_DEADLOCK FALSE
