CONSTANTS
    Builds <- PlainOnly
    MaxBatch = 64
    IntMax = 8
    FwLen = 1
    CtrlSlots = 1
SPECIFICATION Spec
INVARIANT
    CreditsNotOverdrawn
CHECK_DEADLOCK FALSE
