SPECIFICATION Spec
CONSTANTS
  Workers = {w1, w2}
  MaxFaults = 1
  RefundMoves = {"REFUNDED"}
INVARIANT OneLeaseOwner
CHECK_DEADLOCK FALSE
