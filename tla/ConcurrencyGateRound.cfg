CONSTANTS
  a1 = a1  a2 = a2  b1 = b1  c1 = c1  d1 = d1
  Requests <- Five
  Lane <- LaneFive
  MaxConcurrent = 1
  MaxQueued = 3
SPECIFICATION FairSpec
INVARIANTS
  SlotsAccounted
PROPERTIES
  RoundRobin
  FairShare
  EveryWaiterAnswered
CHECK_DEADLOCK FALSE
