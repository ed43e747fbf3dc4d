---------------------------- MODULE PaymentStatus ----------------------------
(***************************************************************************)
(* The status column of payment_orders and the partitions of it that the   *)
(* payment service tests.                                                  *)
(***************************************************************************)

\* The refund-related statuses (psIsRefundStatus).
RefundStatuses ==
  {"REFUND_REQUESTED", "REFUNDING", "REFUND_PENDING", "PARTIALLY_REFUNDED",
   "REFUNDED", "REFUND_FAILED"}

OrderStatuses ==
  {"PENDING", "PAID", "RECHARGING", "COMPLETED", "EXPIRED", "CANCELLED",
   "FAILED"} \cup RefundStatuses

psIsRefundStatus(s) == s \in RefundStatuses

\* The statuses Execute*Fulfillment and RetryFulfillment let through.
Fulfillable == {"PAID", "FAILED", "RECHARGING"}
=============================================================================
