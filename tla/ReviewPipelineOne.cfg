SPECIFICATION Spec
CONSTANTS
    p1 = p1
    p2 = p2
    t1 = t1
    t2 = t2
    past = past
    open = open
    closed = closed
    u1 = u1
    nightly = nightly
    manual = manual
    v1 = v1
    nothing = nothing
    Programs = {p1}
    Terms = {t1, t2, past}
    Tagged = {past}
    Faint = {}
    Statuses = {open}
    Users = {u1}
    Runs = {nightly}
    Verifiers = {}
    Seeds <- LiveOrPast
    PreScores = FALSE
    ExpectedMin = 1
    MaxInstants = 2
    MaxDecisions = 3
    Nothing = nothing
PROPERTIES
  NothingSuppressedIsPublished
  ReviewedSpec
