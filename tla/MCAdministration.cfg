SPECIFICATION AdministrationSpec
CONSTANTS
  Recorders = {r1, r2}
  Events = {e1, e2}
  Null = Null
  Nobody = Nobody
  MaxSequence = 3
  Logins = {l1, l2}
  Enables = {c1, c2}
  Attempts = 2
  MaxSecrets = 2
  Budgets <- MCBudgets
  Admins = {a1, a2}
  Tabs = {t1, t2}
  MaxLogins = 2
  MaxRequests = 2
INVARIANT LogVerifies
INVARIANT LoginsAreBounded
INVARIANT ActsAsShown
PROPERTY AppendOnly
PROPERTY EndedStaysEnded
PROPERTY RightGetsIn
CHECK_DEADLOCK FALSE
