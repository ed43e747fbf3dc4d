SPECIFICATION Spec
CONSTANTS
  Workers = {w1}
  Hold = 2
  Costs = {1}
  Balance = 2
  OtherFrozen = 2
  MaxRetries = 2
  MaxFaults = 0
CHECK_DEADLOCK FALSE
INVARIANT
  FailedSubmitReleasesHold
