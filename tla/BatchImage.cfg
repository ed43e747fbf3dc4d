SPECIFICATION FairSpec
CONSTANTS
  Workers = {w1, w2}
  Hold = 2
  Costs = {1, 3}
  Balance = 2
  OtherFrozen = 2
  MaxRetries = 2
  MaxFaults = 1
CHECK_DEADLOCK FALSE
INVARIANTS
  TypeOK
  MoneyConserved
  CompletedIsCharged
  OtherHoldsUntouched
  FailedIsNotCharged
  UnsettledIsQueued
PROPERTIES
  QueuedJobEnds
  UnsubmittedJobEnds
  ImplementsHoldContract
