CONSTANTS
    w1 = w1
    w2 = w2
    r1 = r1
    shared = shared
    Workers = {w1, w2}
    Identity <- MCIdentity
    Requests = {r1}
    Creator = Creator
    Sweeper = Sweeper
    None = None
    MaxAttempts = 2
    MaxRequests = 2
    MaxFaults = 1
    MaxSlips = 1
SPECIFICATION FairSpec
INVARIANTS
    TypeOK
    ApprovalGate
    RunIsProtected
PROPERTIES
    EveryTaskEnds
CHECK_DEADLOCK FALSE
