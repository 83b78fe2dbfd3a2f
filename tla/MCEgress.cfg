SPECIFICATION UpstreamsSpec
CONSTANTS
  t1 = t1
  t2 = t2
  p1 = p1
  p2 = p2
  Parts = {"egress"}
  Unset = Unset
  Ticks = {t1, t2}
  Dtos <- MCDtos
  Threshold = 2
  Budgets <- MCBudgets
  Pools = {p1, p2}
  Priority <- MCPriority
  Sessions = {s1, s2}
  Starts <- MCStarts
  RpcCalls = {w1, w2, w3}
  NoCall = NoCall
  RpcFaults = 2
 
PROPERTY EgressSettles
CHECK_DEADLOCK FALSE
