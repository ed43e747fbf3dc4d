---------------------------- MODULE PaymentRefund ----------------------------
(***************************************************************************)
(* Refunds of one completed payment order: the user's request, the         *)
(* administrator's refund (PrepareRefund, then ExecuteRefund: claim the    *)
(* order, take the goods back, call the provider, settle the row) and the  *)
(* later query that finalizes a refund the provider left pending.          *)
(*                                                                         *)
(* The goods are the credited balance, or the days of the subscription the *)
(* order paid for: avail is what the user still has of them.  An action is *)
(* one statement, one transaction or one provider call; several handlers   *)
(* interleave between them, and may fail or crash there.                   *)
(*                                                                         *)
(* The provider is one that can be asked about a refund (Stripe, WeChat    *)
(* Pay, Airwallex): they key a refund by the order and the amount, so the  *)
(* refund of an amount is created once and repeated calls find it.         *)
(***************************************************************************)
EXTENDS Integers, PaymentStatus

CONSTANTS
  Admins,      \* goroutines that run refund handlers, on any instance
  Amount,      \* the order's amount, and its subscription's days
  Balance,     \* the user's balance when a balance order completes
  Days,        \* the days left of the subscription when its order completes
  MaxFaults    \* bound on failed calls and crashes

ASSUME AmountAssumption == Amount \in Nat \ {0}
ASSUME AvailAssumption  == Balance \in Nat /\ Days \in Nat
ASSUME FaultsAssumption == MaxFaults \in Nat

VARIABLES
  orderType,     \* column order_type
  tradeNo,       \* column payment_trade_no: "set", or "empty"
  status,        \* column status
  refundAmount,  \* column refund_amount
  pendingId,     \* refund id of the REFUND_PENDING audit row, 0 without a row
  pendingOK,     \* deductionRollbackOK of that row: "no", "yes"
  rollbackRow,   \* is there a REFUND_ROLLBACK_FAILED audit row? "no", "yes"
  successRow,    \* is there a REFUND_SUCCESS audit row? "no", "yes"
  avail,         \* the user's balance, or the days left of the subscription
  sub,           \* the order's subscription is "held" or "revoked"
  refund,        \* the provider's refund of each amount
  pc,            \* next step of each handler
  amt,           \* RefundAmount in the handler's RefundPlan
  take,          \* what the plan is to take back, or has taken
  back,          \* the status restoreStatus would write for the plan
  id,            \* the refund id a query asks about
  ok,            \* deductionRollbackOK, in the pending path and in the query
  taken,         \* goods taken back so far, less those given back
  stranded,      \* goods taken by attempts that died, could not give them back,
                 \* or were told that they had not taken them
  raced,         \* has a failed query overwritten a row no longer pending?
  faults         \* faults so far

rowVars  == <<status, refundAmount>>
pendingVars == <<pendingId, pendingOK>>
auditVars == <<pendingVars, rollbackRow, successRow>>
goodsVars == <<avail, sub, taken>>
planVars == <<amt, take, back, id, ok>>
vars == <<orderType, tradeNo, rowVars, auditVars, goodsVars, refund,
          pc, planVars, stranded, raced, faults>>

Amounts == 1..Amount

\* Steps at which a handler may hold goods it took, in ExecuteRefund.
HoldSteps == {"gateway", "mark_ok", "pending_rollback", "gw_rollback"}

\* Steps between ExecuteRefund's claim of the row and its last write of status.
OwnSteps == HoldSteps \cup {"check_rollback", "deduct", "restore", "mark_failed",
                            "pending_write"}

Steps == OwnSteps \cup {"idle", "request", "prep_deduct", "execute",
                        "pending_audit", "pending_detail", "query",
                        "finalize", "finalize_failed"}

TypeOK ==
  /\ orderType \in {"balance", "subscription"}
  /\ tradeNo \in {"set", "empty"}
  /\ status \in {"COMPLETED"} \cup RefundStatuses
  /\ refundAmount \in 0..Amount
  /\ pendingId \in 0..Amount /\ pendingOK \in {"no", "yes"}
  /\ rollbackRow \in {"no", "yes"} /\ successRow \in {"no", "yes"}
  /\ avail \in Nat /\ taken \in Int /\ stranded \in Nat
  /\ sub \in {"held", "revoked"}
  /\ refund \in [Amounts -> {"none", "pending", "success", "failed"}]
  /\ pc \in [Admins -> Steps]
  /\ amt \in [Admins -> 0..Amount]
  /\ take \in [Admins -> 0..Amount]
  /\ back \in [Admins -> {"COMPLETED", "REFUND_REQUESTED"}]
  /\ id \in [Admins -> 0..Amount]
  /\ ok \in [Admins -> {"no", "yes"}]
  /\ raced \in {"no", "yes"}
  /\ faults \in 0..MaxFaults

-----------------------------------------------------------------------------
(* Helpers *)

Goto(w, step) == pc' = [pc EXCEPT ![w] = step]

Keep(w, step) == Goto(w, step) /\ UNCHANGED planVars

\* The handler goes on with another amount to take.
Taking(w, step, n) == /\ Goto(w, step)
                      /\ take' = [take EXCEPT ![w] = n]
                      /\ UNCHANGED <<amt, back, id, ok>>

\* A handler starts with a plan for amount a.
Begin(w, step, a, b) == /\ Goto(w, step)
                        /\ amt' = [amt EXCEPT ![w] = a]
                        /\ back' = [back EXCEPT ![w] = b]
                        /\ UNCHANGED <<take, id, ok>>

\* A handler returns.
Leave(w) == /\ Goto(w, "idle")
            /\ amt' = [amt EXCEPT ![w] = 0]
            /\ take' = [take EXCEPT ![w] = 0]
            /\ back' = [back EXCEPT ![w] = "COMPLETED"]
            /\ id' = [id EXCEPT ![w] = 0]
            /\ ok' = [ok EXCEPT ![w] = "yes"]

Order == UNCHANGED <<orderType, tradeNo>>

NoFault == UNCHANGED <<stranded, raced, faults>>

Fault == faults < MaxFaults /\ faults' = faults + 1

\* The statuses PrepareRefund accepts and ExecuteRefund's claim asks for.
Refundable == {"COMPLETED", "REFUND_REQUESTED", "REFUND_PENDING", "REFUND_FAILED"}

\* Mutant: a claim that does not exclude a refund under way.
ClaimableAgain == status \in Refundable \cup {"REFUNDING"}

\* The condition of the claim; the row may have changed since it was read.
Claimable == status \in Refundable

\* restoreStatus's target.
RestoreTo(s) == IF s = "REFUND_REQUESTED" THEN s ELSE "COMPLETED"

\* markRefundOk, markRefundOkTx: the status of a refund of a.
RefundedStatus(a) == IF a < Amount THEN "PARTIALLY_REFUNDED" ELSE "REFUNDED"

\* Mutant: DeductBalance instead, which takes what the plan says.
DeductiblePlanned(a) == a

\* DeductAvailableBalance takes no more than there is at that moment.
Deductible(a) == IF a <= avail THEN a ELSE avail

\* DeductAvailableBalance, or ExtendSubscription by -n with RevokeSubscription
\* when that would end it.  Shortening an ended or revoked subscription is an
\* error, and nothing is taken.
CanTake == orderType = "balance" \/ (sub = "held" /\ avail > 0)

Got(n) == IF orderType = "balance" THEN Deductible(n) ELSE n

Take(n) ==
  /\ taken' = taken + Got(n)
  /\ IF orderType = "balance"
       THEN avail' = avail - Got(n) /\ UNCHANGED sub
       ELSE IF n < avail THEN avail' = avail - n /\ UNCHANGED sub
                         ELSE avail' = 0 /\ sub' = "revoked"

\* RollbackRefund: UpdateBalance, or ExtendSubscription by +n, which does not
\* find a revoked subscription.
CanGiveBack == orderType = "balance" \/ sub = "held"

GiveBack(n) == avail' = avail + n /\ taken' = taken - n /\ UNCHANGED sub

-----------------------------------------------------------------------------
(* RequestRefund, by the user *)

\* validateRefundRequest and the balance check.
RequestCheck(w) ==
  /\ pc[w] = "idle" /\ orderType = "balance" /\ status = "COMPLETED"
  /\ avail >= Amount
  /\ Keep(w, "request")
  /\ UNCHANGED <<rowVars, auditVars, goodsVars, refund>>
  /\ NoFault /\ Order

\* The conditional update; a changed status is a conflict.
RequestRefund(w) ==
  /\ pc[w] = "request"
  /\ IF status = "COMPLETED"
       THEN status' = "REFUND_REQUESTED" /\ refundAmount' = Amount
       ELSE UNCHANGED rowVars
  /\ Leave(w)
  /\ UNCHANGED <<auditVars, goodsVars, refund>>
  /\ NoFault /\ Order

-----------------------------------------------------------------------------
(* PrepareRefund and ExecuteRefund, by an administrator *)

\* The order is read and checked; the refund takes goods back, or not.
PrepareRefund(w) ==
  /\ pc[w] = "idle" /\ status \in Refundable
  /\ \E a \in Amounts, step \in {"prep_deduct", "execute"} :
       Begin(w, step, a, RestoreTo(status))
  /\ UNCHANGED <<rowVars, auditVars, goodsVars, refund>>
  /\ NoFault /\ Order

\* The part of prepDeduct that fixes the amount: the balance, up to the
\* refund; or all the days of the subscription, if it is found.
Planned(a) ==
  IF orderType = "balance" THEN (IF a <= avail THEN a ELSE avail)
  ELSE IF sub = "held" THEN Amount ELSE 0

\* prepDeduct.  When the goods do not suffice the administrator has to force.
PrepDeduct(w) ==
  /\ pc[w] = "prep_deduct"
  /\ \/ Taking(w, "execute", Planned(amt[w]))
     \/ /\ IF orderType = "balance" THEN avail < amt[w]
                                    ELSE sub = "revoked"
        /\ Leave(w)
  /\ UNCHANGED <<rowVars, auditVars, goodsVars, refund>>
  /\ NoFault /\ Order

\* The conditional update that claims the order.
ExecuteRefund(w) ==
  /\ pc[w] = "execute"
  /\ IF Claimable
       THEN /\ status' = "REFUNDING"
            /\ Keep(w, IF take[w] > 0 THEN "check_rollback" ELSE "gateway")
       ELSE UNCHANGED status /\ Leave(w)
  /\ UNCHANGED <<refundAmount, auditVars, goodsVars, refund>>
  /\ NoFault /\ Order

\* hasAuditLog(REFUND_ROLLBACK_FAILED): a retry takes nothing more.
CheckRollback(w) ==
  /\ pc[w] = "check_rollback"
  /\ IF rollbackRow = "yes"
       THEN Taking(w, "gateway", 0)
       ELSE Keep(w, "deduct")
  /\ UNCHANGED <<rowVars, auditVars, goodsVars, refund>>
  /\ NoFault /\ Order

\* Mutant: the error returns without restoreStatus.
DeductionErrorLeaves(w) == Leave(w)

\* The deduction is reported as failed: the claim is given up.
DeductionError(w) == Taking(w, "restore", 0)

Deduct(w) ==
  /\ pc[w] = "deduct"
  /\ IF CanTake
       THEN /\ Take(take[w])
            /\ Taking(w, "gateway", Got(take[w]))
       ELSE DeductionError(w) /\ UNCHANGED goodsVars
  /\ UNCHANGED <<rowVars, auditVars, refund>>
  /\ NoFault /\ Order

\* restoreStatus, an unconditional update.
Restore(w) ==
  /\ pc[w] = "restore"
  /\ status' = back[w]
  /\ Leave(w)
  /\ UNCHANGED <<refundAmount, auditVars, goodsVars, refund>>
  /\ NoFault /\ Order

\* Mutant: every answer without an error is taken for a success.
AfterAnswerAccepted(s) == {"mark_ok"}

\* gwRefund: the provider creates the refund of this amount or finds it, and
\* answers; only a settled refund is a success.  Airwallex reports a failed
\* refund as an error, Stripe and WeChat Pay answer that it is not settled.
AfterAnswer(s) == IF s = "success" THEN {"mark_ok"}
                  ELSE IF s = "failed" THEN {"pending_rollback", "gw_rollback"}
                  ELSE {"pending_rollback"}

GwRefund(w) ==
  LET a == amt[w] IN
  /\ pc[w] = "gateway"
  /\ \/ tradeNo = "empty" /\ Keep(w, "mark_ok") /\ UNCHANGED refund
     \/ /\ tradeNo = "set"
        /\ \E s \in {"pending", "success", "failed"} :
             /\ IF refund[a] = "none" THEN s # "failed" ELSE s = refund[a]
             /\ refund' = [refund EXCEPT ![a] = s]
             /\ \E step \in AfterAnswer(s) : Keep(w, step)
     \/ tradeNo = "set" /\ Keep(w, "gw_rollback") /\ UNCHANGED refund
  /\ UNCHANGED <<rowVars, auditVars, goodsVars>>
  /\ NoFault /\ Order

\* markRefundOk, an unconditional update, and its audit row, whose insert may
\* fail unnoticed.
MarkRefundOk(w) ==
  /\ pc[w] = "mark_ok"
  /\ status' = RefundedStatus(amt[w])
  /\ refundAmount' = amt[w]
  /\ \/ successRow' = "yes" /\ UNCHANGED faults
     \/ UNCHANGED successRow /\ Fault
  /\ Leave(w)
  /\ UNCHANGED <<pendingVars, rollbackRow, goodsVars, refund, stranded, raced>>
  /\ Order

\* The handler's goods stay taken.
Strand(w) == stranded' = stranded + take[w] /\ UNCHANGED goodsVars

\* RollbackRefund reports that it could not give the goods back.
RollbackFailed(w, next) ==
  /\ Goto(w, next)
  /\ take' = [take EXCEPT ![w] = 0]
  /\ ok' = [ok EXCEPT ![w] = "no"]
  /\ UNCHANGED <<amt, back, id>>
  /\ UNCHANGED <<pendingVars, successRow>>

RolledBack(w, next) ==
  /\ GiveBack(take[w])
  /\ Taking(w, next, 0)
  /\ UNCHANGED <<auditVars, stranded>>

\* Mutant: the deduction is not given back.
RollbackRefundForgotten(w, good, bad) ==
  /\ Taking(w, good, 0)
  /\ UNCHANGED <<goodsVars, auditVars, stranded>>

\* RollbackRefund; a plan that took nothing has nothing to give back.
RollbackRefund(w, good, bad) ==
  IF take[w] = 0 \/ CanGiveBack
    THEN RolledBack(w, good)
    ELSE RollbackFailed(w, bad) /\ Strand(w) /\ rollbackRow' = "yes"

\* markRefundPending gives the goods back before it writes the row.
PendingRollback(w) ==
  /\ pc[w] = "pending_rollback"
  /\ RollbackRefund(w, "pending_write", "pending_write")
  /\ UNCHANGED <<rowVars, refund, raced, faults>>
  /\ Order

PendingWrite(w) ==
  /\ pc[w] = "pending_write"
  /\ status' = "REFUND_PENDING"
  /\ refundAmount' = amt[w]
  /\ Keep(w, "pending_audit")
  /\ UNCHANGED <<auditVars, goodsVars, refund>>
  /\ NoFault /\ Order

\* writeAuditLog; the audit table is unique by (order, action), so only the
\* first REFUND_PENDING row of an order is ever stored.
PendingAudit(w) ==
  /\ pc[w] = "pending_audit"
  /\ IF pendingId = 0 THEN pendingId' = amt[w] /\ pendingOK' = ok[w]
                      ELSE UNCHANGED pendingVars
  /\ Leave(w)
  /\ UNCHANGED <<rowVars, rollbackRow, successRow, goodsVars, refund>>
  /\ NoFault /\ Order

\* handleGwFail gives the goods back and restores the status, or fails.
GwRollback(w) ==
  /\ pc[w] = "gw_rollback"
  /\ RollbackRefund(w, "restore", "mark_failed")
  /\ UNCHANGED <<rowVars, refund, raced, faults>>
  /\ Order

MarkFailed(w) ==
  /\ pc[w] = "mark_failed"
  /\ status' = "REFUND_FAILED"
  /\ Leave(w)
  /\ UNCHANGED <<refundAmount, auditVars, goodsVars, refund>>
  /\ NoFault /\ Order

-----------------------------------------------------------------------------
(* QueryAndFinalizeRefund, by an administrator *)

QueryAndFinalizeRefund(w) ==
  /\ pc[w] = "idle" /\ status = "REFUND_PENDING"
  /\ Begin(w, "pending_detail", refundAmount, "COMPLETED")
  /\ UNCHANGED <<rowVars, auditVars, goodsVars, refund>>
  /\ NoFault /\ Order

\* latestRefundPendingDetail; without a row the defaults, and the provider is
\* asked about the order's amount.
LatestRefundPendingDetail(w) ==
  /\ pc[w] = "pending_detail"
  /\ Goto(w, "query")
  /\ id' = [id EXCEPT ![w] = IF pendingId = 0 THEN amt[w] ELSE pendingId]
  /\ ok' = [ok EXCEPT ![w] = IF pendingId = 0 THEN "yes" ELSE pendingOK]
  /\ UNCHANGED <<amt, take, back>>
  /\ UNCHANGED <<rowVars, auditVars, goodsVars, refund>>
  /\ NoFault /\ Order

\* refundFinalizePlan: what the finalization will take.
FinalTake(w) ==
  IF ok[w] = "no" THEN 0
  ELSE IF orderType = "balance" THEN amt[w]
  ELSE IF sub = "held" THEN Amount ELSE 0

\* The provider's answer about the refund with that id.
QueryRefund(w) ==
  LET s == refund[id[w]] IN
  /\ pc[w] = "query"
  /\ \/ s = "success" /\ Taking(w, "finalize", FinalTake(w))
     \/ s = "failed" /\ Keep(w, "finalize_failed")
     \/ s \in {"none", "pending"} /\ Leave(w)
  /\ UNCHANGED <<rowVars, auditVars, goodsVars, refund>>
  /\ NoFault /\ Order

\* Mutant: the finalization does not claim the pending row.
FinalizableUnclaimed(w) == /\ take[w] = 0 \/ CanTake
                           /\ successRow = "no"

\* finalizePendingRefundSuccess: one transaction that claims the pending row,
\* takes the goods, settles the row and inserts its audit row, or does nothing.
Finalizable(w) == /\ status = "REFUND_PENDING"
                  /\ take[w] = 0 \/ CanTake
                  /\ successRow = "no"

FinalizePendingRefundSuccess(w) ==
  /\ pc[w] = "finalize"
  /\ IF Finalizable(w)
       THEN /\ status' = RefundedStatus(amt[w])
            /\ refundAmount' = amt[w]
            /\ IF take[w] = 0 THEN UNCHANGED goodsVars ELSE Take(take[w])
            /\ successRow' = "yes"
       ELSE UNCHANGED <<rowVars, goodsVars, successRow>>
  /\ Leave(w)
  /\ UNCHANGED <<pendingVars, rollbackRow, refund>>
  /\ NoFault /\ Order

\* finalizeRefundFailed, an unconditional update.
FinalizeRefundFailed(w) ==
  /\ pc[w] = "finalize_failed"
  /\ status' = "REFUND_FAILED"
  /\ raced' = IF status = "REFUND_PENDING" THEN raced ELSE "yes"
  /\ Leave(w)
  /\ UNCHANGED <<refundAmount, auditVars, goodsVars, refund, stranded, faults>>
  /\ Order

-----------------------------------------------------------------------------
(* Faults and the environment *)

\* Where a handler goes when a read, a write or a call fails.  The errors of
\* hasAuditLog and latestRefundPendingDetail are taken for "no row".
AfterError(w) ==
  \/ pc[w] = "check_rollback" /\ Keep(w, "deduct")
  \/ /\ pc[w] = "pending_detail"
     /\ Goto(w, "query")
     /\ id' = [id EXCEPT ![w] = amt[w]]
     /\ UNCHANGED <<amt, take, back, ok>>
  \/ pc[w] = "deduct" /\ DeductionError(w)
  \/ pc[w] = "prep_deduct" /\ Keep(w, "execute")
  \/ pc[w] \in {"request", "prep_deduct", "execute", "restore", "mark_ok",
                "mark_failed", "pending_write", "pending_audit", "query",
                "finalize", "finalize_failed"} /\ Leave(w)

CallFails(w) ==
  /\ Fault
  /\ AfterError(w)
  /\ UNCHANGED <<rowVars, auditVars, goodsVars, refund, stranded, raced>>
  /\ Order

\* The provider's answer to Refund is lost: the refund may have been created.
AnswerLost(w) ==
  /\ Fault
  /\ pc[w] = "gateway" /\ tradeNo = "set"
  /\ \/ UNCHANGED refund
     \/ /\ refund[amt[w]] = "none"
        /\ \E s \in {"pending", "success"} :
             refund' = [refund EXCEPT ![amt[w]] = s]
  /\ Keep(w, "gw_rollback")
  /\ UNCHANGED <<rowVars, auditVars, goodsVars, stranded, raced>>
  /\ Order

\* A deduction that was committed and is reported as failed: after the commit
\* ExtendSubscription reads the row back and RevokeSubscription invalidates
\* caches, and the answer to a balance statement can be lost.  Nobody gives the
\* goods back, and no row says that they are gone.
DeductionUnconfirmed(w) ==
  /\ Fault
  /\ pc[w] = "deduct" /\ CanTake
  /\ Take(take[w])
  /\ stranded' = stranded + Got(take[w])
  /\ DeductionError(w)
  /\ UNCHANGED <<rowVars, auditVars, refund, raced>>
  /\ Order

\* RollbackRefund reports an error, goods given back or not, and the insert of
\* its audit row may fail as well.
RollbackFails(w) ==
  /\ Fault
  /\ take[w] > 0
  /\ \/ pc[w] = "pending_rollback" /\ RollbackFailed(w, "pending_write")
     \/ pc[w] = "gw_rollback" /\ RollbackFailed(w, "mark_failed")
  /\ \/ Strand(w)
     \/ CanGiveBack /\ GiveBack(take[w]) /\ UNCHANGED stranded
  /\ rollbackRow' \in {rollbackRow, "yes"}
  /\ UNCHANGED <<rowVars, refund, raced>>
  /\ Order

\* The process stops; what the handler had taken stays taken.
Crash(w) ==
  /\ Fault
  /\ pc[w] # "idle"
  /\ stranded' = IF pc[w] \in HoldSteps THEN stranded + take[w] ELSE stranded
  /\ Leave(w)
  /\ UNCHANGED <<rowVars, auditVars, goodsVars, refund, raced>>
  /\ Order

\* The user spends balance, or a day of the subscription passes.
Spend ==
  /\ avail > 0 /\ avail' = avail - 1
  /\ UNCHANGED <<rowVars, auditVars, sub, taken, refund, pc, planVars>>
  /\ NoFault /\ Order

\* The provider settles a pending refund.
Settle ==
  /\ \E a \in Amounts, s \in {"success", "failed"} :
       refund[a] = "pending" /\ refund' = [refund EXCEPT ![a] = s]
  /\ UNCHANGED <<rowVars, auditVars, goodsVars, pc, planVars>>
  /\ NoFault /\ Order

-----------------------------------------------------------------------------
Init ==
  /\ orderType \in {"balance", "subscription"}
  /\ tradeNo \in {"set", "empty"}
  /\ status = "COMPLETED" /\ refundAmount = 0
  /\ pendingId = 0 /\ pendingOK = "yes"
  /\ rollbackRow = "no" /\ successRow = "no"
  /\ avail = IF orderType = "balance" THEN Balance ELSE Days
  /\ sub = "held" /\ taken = 0
  /\ refund = [a \in Amounts |-> "none"]
  /\ pc = [w \in Admins |-> "idle"]
  /\ amt = [w \in Admins |-> 0]
  /\ take = [w \in Admins |-> 0]
  /\ back = [w \in Admins |-> "COMPLETED"]
  /\ id = [w \in Admins |-> 0]
  /\ ok = [w \in Admins |-> "yes"]
  /\ stranded = 0 /\ raced = "no" /\ faults = 0

Step(w) ==
  \/ RequestRefund(w) \/ PrepDeduct(w) \/ ExecuteRefund(w) \/ CheckRollback(w)
  \/ Deduct(w) \/ Restore(w) \/ GwRefund(w) \/ MarkRefundOk(w)
  \/ PendingRollback(w) \/ PendingWrite(w) \/ PendingAudit(w)
  \/ GwRollback(w) \/ MarkFailed(w)
  \/ LatestRefundPendingDetail(w) \/ QueryRefund(w)
  \/ FinalizePendingRefundSuccess(w) \/ FinalizeRefundFailed(w)

Start(w) == RequestCheck(w) \/ PrepareRefund(w) \/ QueryAndFinalizeRefund(w)

Next ==
  \/ \E w \in Admins : \/ Start(w) \/ Step(w) \/ CallFails(w) \/ AnswerLost(w)
                       \/ DeductionUnconfirmed(w) \/ RollbackFails(w) \/ Crash(w)
  \/ Spend \/ Settle

Spec == Init /\ [][Next]_vars

-----------------------------------------------------------------------------
(* Properties *)

\* The provider has returned money for this order, or there was none to
\* return because the order carries no trade number.
Returned == tradeNo = "empty" \/ \E a \in Amounts : refund[a] = "success"

\* Handlers that hold goods they have taken.
InFlight == {w \in Admins : pc[w] \in HoldSteps /\ take[w] > 0}

\* An order ends REFUNDED or PARTIALLY_REFUNDED only after the provider
\* returned money, whatever failed queries and retries came in between.
RefundedIsReturned ==
  status \in {"REFUNDED", "PARTIALLY_REFUNDED"} => Returned

\* Once no handler holds goods, the user has lost goods to refunds only if the
\* provider returned money: rejected, lost and pending refunds give back what
\* they took, except what was stranded: by a crash, by a failed rollback, or by a
\* deduction that was committed and reported as failed.
NothingTakenForNothing ==
  InFlight = {} /\ taken > stranded => Returned

\* How often goods can have been stranded: once for every fault, and once
\* because a revoked subscription cannot be given back.
Strandings == faults + (IF sub = "revoked" THEN 1 ELSE 0)

\* Retries, duplicate requests and finalizations together keep at most the
\* order's amount besides what was stranded, and each fault costs the user at
\* most one more deduction: a retry after a failure does not take again what
\* the failed attempt gave back.  Unless a failed query overwrote a row that was
\* no longer pending.
TakenAtMostOnce ==
  InFlight = {} /\ raced = "no" => /\ taken <= stranded + Amount
                                  /\ stranded <= Amount * Strandings

\* The claim of ExecuteRefund excludes other refunds of the order until its
\* last write, unless a failed query overwrote the row.
OneRefundOwner ==
  raced = "no" =>
    \A v, w \in Admins :
      pc[v] \in OwnSteps => /\ status = "REFUNDING"
                            /\ pc[w] \in OwnSteps => v = w

\* Every way through a refund ends the claim: an order is REFUNDING, which no
\* handler accepts and no job looks for, only while a handler that claimed it
\* still runs, or after a failed call or a crash.  Also when a failed query
\* overwrote the row and two handlers believe to own it.
RefundingIsOwned ==
  status = "REFUNDING" /\ faults = 0 => \E w \in Admins : pc[w] \in OwnSteps

\* "Skip balance deduction on retry if previous attempt already deducted but
\* failed to roll back" (ExecuteRefund): once the rollback of a deduction has
\* failed, no further deduction is made for the order.
NoDeductionAfterFailedRollback ==
  [][rollbackRow = "yes" => taken' <= taken]_vars
=============================================================================
