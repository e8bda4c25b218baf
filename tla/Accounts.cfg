SPECIFICATION Spec
CONSTANTS
  c1 = c1
  c2 = c2
  here = here
  campus = campus
  e1 = e1
  e2 = e2
  Clients = {c1, c2}
  Emails = {e1, e2}
  Connection <- MCConnection
  Network <- MCNetwork
  Server = server
  Ceiling <- MCCeiling
  MaxAccounts = 3
  MaxResets = 1
  Absent = Absent
  Idle = Idle
INVARIANTS
  AlwaysAnAdmin
  OnlyTheFirstIsClaimed
  SlotsMatchRequests
  SessionsAreCurrent
PROPERTIES
  ChargedIffRegistered
SYMMETRY Alike
