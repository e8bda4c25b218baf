SPECIFICATION Spec
CONSTANTS
    p1 = p1
    p2 = p2
    t1 = t1
    t2 = t2
    past = past
    open = open
    closed = closed
    u1 = u1
    nightly = nightly
    manual = manual
    v1 = v1
    nothing = nothing
    Programs = {p1}
    Terms = {t1, t2}
    Tagged = {}
    Faint = {}
    Statuses = {open, closed}
    Users = {u1}
    Runs = {nightly, manual}
    Verifiers = {v1}
    Seeds <- OneSeed
    PreScores = TRUE
    ExpectedMin = 1
    MaxInstants = 2
    MaxDecisions = 1
    Nothing = nothing
INVARIANTS
  NoUnreadTwins
PROPERTIES
  RejectionHolds
  EveryWatcherHears
  EveryDifferenceIsQueued
