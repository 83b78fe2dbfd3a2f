SPECIFICATION JobsSpec
CONSTANTS
  c1 = c1
  c2 = c2
  Calls = {c1, c2}
  DayLen = 4
  DailyTime = 1
  Interval = 2
  Offset = 0
  MaxTime = 9
  MaxSaves = 1
  SlowClaims = FALSE
  s1 = s1
  s2 = s2
  Shares = {s1, s2}
  d1 = d1
  d2 = d2
  Deposits = {d1, d2}
  MaxFaults = 2
  NStrides = 2
  BucketLen <- MCBucketLen
  Window <- MCWindow
  Retention = 5
  StatsTime = 8
INVARIANT AllocationsAreSound
 
INVARIANT NeverOvercounts
PROPERTY ConfirmedIsAllocated
 
 
CHECK_DEADLOCK FALSE
