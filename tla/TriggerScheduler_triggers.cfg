SPECIFICATION FairSpec
CONSTANTS
    Workflows = {"backup", "release"}
    Triggers = {"nightly", "onPush"}
    TriggersOf <- TwoOf
    Kind <- TwoKind
    Row <- OwnRow
    Period <- TwoPeriod
    Missed <- TwoMissed
    Files = {"backup", "release"}
    Blockable = {"release"}
    Events = {"push"}
    Ingests = {g1, g2}
    Waits = {"x"}
    MaxTime = 2
    MaxCalls = 1
    MaxIngests = 2
    MaxHarms = 1
    MaxOutside = 3
INVARIANTS
    NextFireSound
    OccurrenceOnce
    EnabledStaysScheduled
    DeliveredOnce
PROPERTIES
    DueServed
CHECK_DEADLOCK FALSE
