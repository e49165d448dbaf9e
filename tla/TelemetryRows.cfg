SPECIFICATION RowsSpec
CONSTANTS
  s1 = s1
  s2 = s2
  Switches = {s1, s2}
  NoSwitch = NoSwitch
  Contents <- SmallContents
  MaxGenerations = 2
  Queries = {a1, a2}
  Queued = {a2}
  MaxAge = 0
  MaxClock = 2
INVARIANTS
  CountersNeverExceed
  NeverDatedBefore
  TrackedIsComplete
  CacheNotBehind
CHECK_DEADLOCK FALSE
