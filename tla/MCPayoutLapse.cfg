SPECIFICATION Spec
CONSTANTS
  b1 = b1
  b2 = b2
  e1 = e1
  e2 = e2
  a1 = a1
  a2 = a2
  r1 = r1
  p1 = p1
  p2 = p2
  Batches = {b1}
  Executors = {e1, e2}
  Approvers = {a1}
  Reconcilers = {}
  Payloads = {p1, p2}
  NoPayload = NoPayload
  NParts = 1
  Free = Free
  Orphan = Orphan
  LockCanLapse = TRUE
SYMMETRY MCSymmetry
INVARIANT DebitedOnce
