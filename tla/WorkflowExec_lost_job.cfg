SPECIFICATION FairSpec
CONSTANTS
    Jobs <- PairJobs
    Needs <- PairNeeds
    ContinueOnError = {}
    Conditional = {}
    Kind <- PairKind
    MaxSteps = 2
    Async = TRUE
    MaxJobs = 2
    MaxFaults = 0
    MaxCancels = 0
    MaxCrashes = 0
    PromptPark = TRUE
PROPERTIES
    EventuallyEnds
CHECK_DEADLOCK FALSE
