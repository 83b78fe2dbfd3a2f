SPECIFICATION FairSpec
CONSTANTS
  l1 = l1
  l2 = l2
  s1 = s1
  r1 = r1
  Logins = {l1, l2}
  Shares = {s1}
  Requests = {r1}
  None = None
  Traffic <- MCTraffic
INVARIANT NeverFabricated
INVARIANT ShareLifecycle
PROPERTY ResolutionIsFinal
PROPERTY EveryShareSettles
PROPERTY ClosedIsReleased
CHECK_DEADLOCK FALSE
