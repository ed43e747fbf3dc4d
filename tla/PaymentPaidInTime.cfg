SPECIFICATION FairSpec
CONSTANTS
  Workers = {w1, w2}
  MaxFaults = 0
  RefundMoves = {"REFUNDED"}
PROPERTY PaidInTimeSettles
CHECK_DEADLOCK FALSE
