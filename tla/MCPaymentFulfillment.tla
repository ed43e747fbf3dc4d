------------------------- MODULE MCPaymentFulfillment -------------------------
EXTENDS PaymentFulfillment, TLC

Symmetry == Permutations(Workers)
=============================================================================
