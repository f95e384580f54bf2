SPECIFICATION FairSpec
CONSTANTS
    Subscribers = {s1}
    Publishers = {p1, p2}
    Events = {done, error, delta, more}
    Critical = {done, error}
    Limit = 1
    None = None
INVARIANTS
    NoSendAfterClose
PROPERTIES
    FifoKept
    UnsubscribeReturns
    CriticalReceived
CHECK_DEADLOCK FALSE
