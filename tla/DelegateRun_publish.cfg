SPECIFICATION DelegateFairSpec
CONSTANTS
    Callers = {c1, c2}
    MaxChunks = 2
    MaxTicks = 2
    MaxTimers = 2
INVARIANTS
    PendingHasTimer
PROPERTIES
    DoneIsLast
    WaitAnswered
CHECK_DEADLOCK FALSE
