SPECIFICATION FairSpec
CONSTANTS
  Workers = {w1, w2}
  MaxFaults = 1
  RefundMoves = {"REFUNDED"}
PROPERTY PaidOrderSettles
CHECK_DEADLOCK FALSE
