SPECIFICATION FairSpec
CONSTANTS
  f1 = f1
  f2 = f2
  f3 = f3
  apex = apex
  www = www
  takeover = takeover
  Fetches = {f1, f2}
  Origins = {apex, www, takeover}
  HostOf <- MCHostOf
  Blocked = {takeover}
  Asked <- MCAsked
  LeadsTo <- MCLine
  Floor = 1
  Delays <- MCDelays
  RetryAfters = {3}
  Backoff = 1
  BackoffCap = 2
  MaxHops = 1
  MaxRetries = 1
  RobotsTtl = 2
  UnreadTtl = 1
  Memory = 2
INVARIANTS
  OnePurse
PROPERTIES
  Polite
  RulesGovern
  EveryFetchEnds
