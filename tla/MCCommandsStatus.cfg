SPECIFICATION CmdSpec
CONSTANTS
    CompleteOps = {c1}
    StatusOps = {s1}
    MaxCredits = 1
    CmdTimeout = 3
    ResetTimeout = 2
    ReplyTimeout = 1
    MaxTimedOut = 2
    MaxHeld = 3
CHECK_DEADLOCK FALSE
INVARIANT AlwaysTracked
