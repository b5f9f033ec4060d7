CONSTANTS
    w1 = w1
    w2 = w2
    h1 = h1
    Workers = {w1, w2}
    Handlers = {h1}
    Submitter = Submitter
    Sweeper = Sweeper
    Canceller = Canceller
    None = None
    MaxAttempts = 2
    MaxRounds = 1
    MaxFaults = 1
    MaxSlips = 1
SPECIFICATION FairSpec
INVARIANTS
    TypeOK
    HoldIsExclusive
    OutcomeStands
    NoResubmission
PROPERTIES
    EveryJobEnds
    LeasedWorkHolds
CHECK_DEADLOCK FALSE
