SPECIFICATION FairSpec
CONSTANTS
  p1 = p1
  p2 = p2
  p3 = p3
  ann = ann
  ben = ben
  Presses = {p1, p2, p3}
  Owner <- MCOwner
  Ration = 2
  FloorWait = 2
  CapWait = 6
  Timeout = 3
  RetryAfters <- MCRetryAfters
PROPERTIES
  HoldIsHonoured
  LookupReopens
