SPECIFICATION FairSpec
CONSTANTS
    Jobs = {j1, j2}
    Interval = 1
    MaxMessages = 3
    Writers = {w1}
    MaxHarms = 1
INVARIANTS
    NothingSkipped
    NotReviewedTwice
PROPERTIES
    ActiveDrains
CHECK_DEADLOCK FALSE
