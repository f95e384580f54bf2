SPECIFICATION FairSpec
CONSTANTS
    Jobs <- ForkJobs
    Needs <- ForkNeeds
    ContinueOnError = {"lint"}
    Conditional = {"lint"}
    Kind <- ForkKind
    MaxSteps = 2
    Async = TRUE
    MaxJobs = 2
    MaxFaults = 1
    MaxCancels = 1
    MaxCrashes = 1
    PromptPark = TRUE
INVARIANTS
    VerdictSound
    QuiescentWhenTerminal
    NeedsSettled
PROPERTIES
    FinishedStays
    PromiseKept
    EventuallyEnds
CHECK_DEADLOCK FALSE
