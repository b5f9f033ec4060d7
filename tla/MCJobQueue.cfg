CONSTANTS
    j1 = j1
    j2 = j2
    w1 = w1
    w2 = w2
    k1 = k1
    None = None
    Jobs = {j1, j2}
    Workers = {w1, w2}
    Keys = {k1}
    Priorities = {0}
    TaskAttempts = 2
    LeaseSeconds = 1
    BaseDelay = 1
    MaxDelay = 1
    BatchSize = 1
    MaxSlot = 0
    MaxAge = 0
    MaxFaults = 1
SPECIFICATION FairSpec
INVARIANTS
    TypeOK
    ExclusiveUnlessReclaimed
    FinishedIsJustified
    AttemptsBounded
PROPERTIES
    EverythingEnds
    LeasedWorkHolds
