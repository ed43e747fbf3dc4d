SPECIFICATION Spec
CONSTANTS
  Admins = {w1, w2}
  Amount = 2
  Balance = 2
  Days = 3
  MaxFaults = 1
SYMMETRY Symmetry
INVARIANTS
  TypeOK
  RefundedIsReturned
  NothingTakenForNothing
  TakenAtMostOnce
  OneRefundOwner
  RefundingIsOwned
CHECK_DEADLOCK FALSE
