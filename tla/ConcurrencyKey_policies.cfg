SPECIFICATION Spec
CONSTANTS
    Runs = {r1, r2, r3}
    NoRun = NoRun
    Policies = {"queue", "skip", "replace"}
    QueueCap = 1
    Serial = TRUE
    MaxFaults = 1
    MaxCancels = 1
    MaxCrashes = 1
SYMMETRY Symmetry
INVARIANTS
    ActiveHoldsRow
    WaiterInLine
    AbandonedNeverRuns
CHECK_DEADLOCK FALSE
