CONSTANTS
    Slots = {t0, t1}
    Durations = {1, 2}
    MaxTicks = 2
    StopDelay = 2
    MaxInt = 100
SPECIFICATION TickSpec
INVARIANT TimerHasTick
