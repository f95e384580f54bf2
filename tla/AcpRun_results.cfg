SPECIFICATION FairSpec
CONSTANTS
    Runs = {r1, r2}
    MaxLive = 1
    MaxSteers = 1
    MaxEvents = 1
    None = None
INVARIANTS
    NoStrayProcess
    NoStaleTracking
PROPERTIES
    ResultArrives
CHECK_DEADLOCK FALSE
