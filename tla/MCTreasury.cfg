SPECIFICATION FairSpec
CONSTANTS
  Precision = 3
  Scale = 5
  NCustomers = 2
  Planners = {p1}
  Policies <- MCBothPayers
  Minimum = 2
  OperatorMinimum = 0
  Deposits = {7}
  Works = {0, 1}
  CustomerBps = 7000
  Fees = {1}
  Suspendable = {1}
  MaxDeposits = 1
  MaxBatches = 2
  MaxDays = 2
INVARIANT ReservedIsCovered
 
INVARIANT AutoWithinDailyLimit
PROPERTY EligibleIsPlanned
CHECK_DEADLOCK FALSE
