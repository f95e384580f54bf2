SPECIFICATION Spec
CONSTANTS
    Notes = {mail}
    mail = mail
    event = event
    notice = notice
    NoteKind <- Mixed
    Jobs = {sub}
    Steers = {}
    MaxRuns = 2
    Nobody = Nobody
    User = User
    Compactor = Compactor
    MaxPending = 1
    MaxRounds = 1
    MaxContinues = 1
    MaxStarts = 1
    MaxStops = 0
    MaxCompactions = 1
    MaxFaults = 1
    MaxCrashes = 1
INVARIANTS
    OneTurn
    Conserved
    RoomReleased
CHECK_DEADLOCK FALSE
