CONSTANTS
    r1 = r1
    r2 = r2
    r3 = r3
    k1 = k1
    k2 = k2
    k3 = k3
    f1 = f1
    f2 = f2
    a = a
    b = b
    z = z
    None = None
    Requests = {r1, r2, r3}
    Keys = {k1, k2}
    Facts = {f1}
    Steps = {a, b}
    Final = {b}
    ScenarioOf <- MCScenarioOf
    StartStep = a
    MaxKept = 1
    MaxHandoffs = 1
SPECIFICATION Spec
SYMMETRY MCSymmetry
INVARIANTS
    TypeOK
    OnlyCommittedShows
PROPERTIES
    CommitNeverRegresses
    SerialLogHolds
CHECK_DEADLOCK FALSE
