CONSTANTS
    c1 = c1
    c2 = c2
    c3 = c3
    c4 = c4
    Calls = {c1, c2, c3, c4}
    FailureThreshold = 2
    SuccessThreshold = 2
    HalfOpenMaxCalls = 3
    MaxLost = 3
SPECIFICATION Spec
INVARIANTS
    IdleBreakerAdmits
