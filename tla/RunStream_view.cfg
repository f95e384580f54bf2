SPECIFICATION FairSpec
CONSTANTS
    Runs = {r1}
    Subscribers = {s1}
    MaxVersion = 3
    MaxSnapshots = 1
    MaxSubscribers = 1
    Buffer = 2
    None = None
INVARIANTS
    NothingMissed
    EndedStaysEnded
PROPERTIES
    ChangeShown
CHECK_DEADLOCK FALSE
