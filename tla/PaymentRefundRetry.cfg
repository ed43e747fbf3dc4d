SPECIFICATION Spec
CONSTANTS
  Admins = {w1}
  Amount = 1
  Balance = 2
  Days = 2
  MaxFaults = 1
PROPERTY NoDeductionAfterFailedRollback
CHECK_DEADLOCK FALSE
