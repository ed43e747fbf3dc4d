--------------------------- MODULE MCPaymentRefund ---------------------------
EXTENDS PaymentRefund, TLC

Symmetry == Permutations(Admins)
=============================================================================
