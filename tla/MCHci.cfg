CONSTANTS
    Builds <- MCBuilds
    MaxBatch = 64
    IntMax = 2
    FwLen = 1
    CtrlSlots = 1
SPECIFICATION Spec
INVARIANTS
    RingMatches
    NothingForgotten
    PinMatchesState
    SleepNotForgotten
PROPERTIES
    CommandsAnswered
    ProceduresReport
    CleanupReturns
CHECK_DEADLOCK FALSE
