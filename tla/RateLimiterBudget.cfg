CONSTANTS
  a1 = a1  a2 = a2  a3 = a3  a4 = a4  a5 = a5  k1 = k1  k2 = k2
  Attempts <- Five
  Keys = {k1, k2}
  KeyOf <- TwoKeys
  Uses = {"ladder", "login", "ration"}
  Window = 2
  MaxFailures = 2
  SweepFloor = 1
  MaxTime = 4
INVARIANTS
  WindowBudget
  SlotsMatchAttempts
  QuoteIsKept
PROPERTIES
  RationSweepSparesLive
SYMMETRY AlikeTwo
SPECIFICATION Spec
CHECK_DEADLOCK FALSE
