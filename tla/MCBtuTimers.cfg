CONSTANTS
    a = a
    b = b
    c = c
    Slots <- MCSlots
    Durations = {1, 2}
    MaxTicks = 2
    StopDelay = 2
    MaxInt = 100
    Entries <- MCEntries
    Timeouts <- MCTimeouts
    Period <- MCPeriod
    Watched = {a, c}
    MaxAge = 2
SPECIFICATION BtuSpec
INVARIANTS
    TickRuns
    ListsExact
PROPERTIES
    FiresOnTime
    KeepsDeadlines
    NotTooEarly
    TimersExpire
