CONSTANTS
    d1 = d1
    b1 = b1
    b2 = b2
    v1 = v1
    v2 = v2
    t1 = t1
    t2 = t2
    a1 = a1
    a2 = a2
    p1 = p1
    Deltas = {d1, b1, b2}
    Bindings = {b1, b2}
    Versions = {v1, v2}
    Turns = {t1, t2}
    Appliers = {a1, a2}
    Proposals <- MCProposals
    Batches <- MCBatches
    Permissions = {p1}
    Editor = Editor
    Edit = Edit
    None = None
    MaxEvents = 4
SPECIFICATION Spec
SYMMETRY MCSymmetry
INVARIANTS
    TypeOK
    OnlyReviewedApplied
    ReviewIsHonoured
    DraftIsTrue
CHECK_DEADLOCK FALSE
