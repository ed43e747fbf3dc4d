--------------------------- MODULE PaymentContract ---------------------------
(***************************************************************************)
(* What the payment service promises about one order, whatever happens     *)
(* inside: the money comes in, then the purchase is handed over once, then *)
(* the inviter's rebate is settled with at most one accrual, then the      *)
(* order is completed for good.  Nothing is taken back or repeated here;   *)
(* refunds act on a completed order.                                       *)
(***************************************************************************)
EXTENDS Naturals

VARIABLES
  paid,        \* the provider has the user's money
  handed,      \* times the purchase was handed over
  settled,     \* the rebate decision is on record
  rebate,      \* rebates accrued
  completed    \* the order is completed

contractVars == <<paid, handed, settled, rebate, completed>>

Init == /\ paid = FALSE /\ settled = FALSE /\ completed = FALSE
        /\ handed = 0 /\ rebate = 0

Pay == /\ ~paid
       /\ paid' = TRUE
       /\ UNCHANGED <<handed, settled, rebate, completed>>

HandOver == /\ paid /\ handed = 0
            /\ handed' = 1
            /\ UNCHANGED <<paid, settled, rebate, completed>>

\* Two fulfilments may both reach the decision; only one of them accrues.
SettleRebate == /\ handed = 1
                /\ settled' = TRUE
                /\ \/ rebate' = rebate
                   \/ rebate = 0 /\ rebate' = 1
                /\ UNCHANGED <<paid, handed, completed>>

Complete == /\ handed = 1 /\ settled
            /\ completed' = TRUE
            /\ UNCHANGED <<paid, handed, settled, rebate>>

Next == Pay \/ HandOver \/ SettleRebate \/ Complete

Spec == Init /\ [][Next]_contractVars
=============================================================================
