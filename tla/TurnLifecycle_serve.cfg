SPECIFICATION FairSpec
CONSTANTS
    Notes = {mail}
    mail = mail
    event = event
    notice = notice
    NoteKind <- Mixed
    Jobs = {}
    Steers = {s1}
    MaxRuns = 2
    Nobody = Nobody
    User = User
    Compactor = Compactor
    MaxPending = 1
    MaxRounds = 1
    MaxContinues = 0
    MaxStarts = 1
    MaxStops = 1
    MaxCompactions = 0
    MaxFaults = 1
    MaxCrashes = 0
INVARIANTS
    SteerSettled
PROPERTIES
    StoppedEnds
    PeerServed
CHECK_DEADLOCK FALSE
