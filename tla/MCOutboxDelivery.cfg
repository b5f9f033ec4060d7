CONSTANTS
    t1 = t1
    d1 = d1
    d2 = d2
    a1 = a1
    a2 = a2
    Pub = Pub
    None = None
    Targets = {t1}
    Dispatchers = {d1, d2}
    Editors = {a1}
    MaxRetries = 1
    MaxCopies = 2
    MaxFaults = 1
    MaxEdits = 2
SPECIFICATION FairSpec
INVARIANTS
    TypeOK
    FanOutIsExact
    SettledIsJustified
    OffStaysOff
PROPERTIES
    SettledIsFinal
    EveryRowSettles
CHECK_DEADLOCK FALSE
