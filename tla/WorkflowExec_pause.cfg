SPECIFICATION FairSpec
CONSTANTS
    Jobs <- ChainJobs
    Needs <- ChainNeeds
    ContinueOnError = {}
    Conditional = {}
    Kind <- ChainKind
    MaxSteps = 3
    Async = FALSE
    MaxJobs = 2
    MaxFaults = 1
    MaxCancels = 1
    MaxCrashes = 1
    PromptPark = TRUE
INVARIANTS
    TypeOK
    StepAtMostOnce
    ParkedHasWake
PROPERTIES
    EndsUnlessHarmed
CHECK_DEADLOCK FALSE
