SPECIFICATION SettlementSpec
CONSTANTS
  Precision = 3
  Scale = 5
  CustomerIds = {c1, c2, c3}
  Amounts <- MCAmounts
  GroupWorks = {1, 3, 7}
  Bps = {9000, 3333}
  MaxGroups = 3
  WalletFees = {0, 1, 4}
  MaxFeeBps = 1500
  MinPayout = 1
SYMMETRY MCSymmetry
 
INVARIANT PaidAsRecorded
CHECK_DEADLOCK FALSE
