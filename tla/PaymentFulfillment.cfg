SPECIFICATION Spec
CONSTANTS
  Workers = {w1, w2}
  MaxFaults = 2
  RefundMoves = {"REFUNDING", "REFUNDED"}
SYMMETRY Symmetry
INVARIANTS
  TypeOK
  AtMostOnce
  NothingWithoutPayment
  CompletedIsDelivered
  PaidIsNotCancelled
  AckedIsSettled
CHECK_DEADLOCK FALSE
PROPERTY ImplementsContract
