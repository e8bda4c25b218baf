SPECIFICATION Spec
CONSTANTS
    p1 = p1
    p2 = p2
    t1 = t1
    t2 = t2
    past = past
    open = open
    closed = closed
    u1 = u1
    nightly = nightly
    manual = manual
    v1 = v1
    nothing = nothing
    Programs = {p1}
    Terms = {t1, t2}
    Tagged = {}
    Faint = {}
    Statuses = {open}
    Users = {}
    Runs = {nightly}
    Verifiers = {v1}
    Seeds <- OneSeed
    PreScores = FALSE
    ExpectedMin = 0
    MaxInstants = 2
    MaxDecisions = 2
    Nothing = nothing
PROPERTIES
    OnlyReviewWrites
