SPECIFICATION FairSpec
CONSTANTS
  b1 = b1
  b2 = b2
  e1 = e1
  e2 = e2
  a1 = a1
  a2 = a2
  r1 = r1
  p1 = p1
  p2 = p2
  Batches = {b1}
  Executors = {e1, e2}
  Approvers = {a1}
  Reconcilers = {r1}
  Payloads = {p1, p2}
  NoPayload = NoPayload
  NParts = 2
  Free = Free
  Orphan = Orphan
  LockCanLapse = FALSE
INVARIANT PaidAsStored
INVARIANT PaidAtMostOnce
INVARIANT ApprovedBeforeSigned
PROPERTY ImplementsContract
PROPERTY LockIsFreed
