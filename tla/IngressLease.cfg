SPECIFICATION FairSpec
CONSTANTS
  Leases = {l1, l2}
  Max = 1
  TTL = 6
  Interval = 2
  Timeout = 1
INVARIANTS
  TypeOK
  CapHolds
  OverstayBounded
  RefusedHoldsNothing
PROPERTIES
  LostIsFinal
  CapacityReturns
