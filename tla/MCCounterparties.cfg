SPECIFICATION CounterpartiesSpec
CONSTANTS
  e1 = e1
  e2 = e2
  e3 = e3
  w1 = w1
  w2 = w2
  t1 = t1
  t2 = t2
  Dests = {d1, d2, d3}
  Runs = {r1, r2}
  Portal = TRUE
  NoDest = NoDest
  MaxChanges = 3
  Readers = {q1, q2}
  Admins = {a1, a2}
  Visitors = {v1, v2}
  Grace = 2
  PortalLimit = 2
  Never = Never
  MaxSecrets = 3
  MaxTime = 4
  MaxCalls = 4
  Endpoints = {e1, e2, e3}
  Accounts = {k}
  Fields = {f}
  Values = {w1, w2}
  Editors = {t1, t2}
  None = None
  MaxEdits = 2
SYMMETRY MCSymmetry
INVARIANT AddressesCooled
INVARIANT ReplacedSecretsEnd
INVARIANT AccountsAgree
PROPERTY ActiveIsReplaced
CHECK_DEADLOCK FALSE
