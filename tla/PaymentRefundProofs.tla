------------------------- MODULE PaymentRefundProofs -------------------------
(***************************************************************************)
(* Safety of PaymentRefund for any set of handlers, any amounts and any    *)
(* number of faults.                                                       *)
(***************************************************************************)
EXTENDS PaymentRefund, FiniteSetTheorems, TLAPS

(* Membership in the enumerations, stated once so that the provers need not
   expand them in every step. *)

\* Every step a handler is sent to is one of Steps.
LEMMA StepFacts ==
  /\ "idle" \in Steps /\ "request" \in Steps /\ "prep_deduct" \in Steps
  /\ "execute" \in Steps /\ "check_rollback" \in Steps /\ "deduct" \in Steps
  /\ "gateway" \in Steps /\ "mark_ok" \in Steps /\ "pending_rollback" \in Steps
  /\ "gw_rollback" \in Steps /\ "restore" \in Steps /\ "mark_failed" \in Steps
  /\ "pending_write" \in Steps /\ "pending_audit" \in Steps
  /\ "pending_detail" \in Steps /\ "query" \in Steps /\ "finalize" \in Steps
  /\ "finalize_failed" \in Steps
  BY DEF Steps, OwnSteps, HoldSteps

\* Every status a handler writes is a refund status or COMPLETED.
LEMMA StatusFacts ==
  /\ "REFUND_REQUESTED" \in RefundStatuses /\ "REFUNDING" \in RefundStatuses
  /\ "REFUND_PENDING" \in RefundStatuses /\ "REFUND_FAILED" \in RefundStatuses
  /\ "REFUNDED" \in RefundStatuses /\ "PARTIALLY_REFUNDED" \in RefundStatuses
  BY DEF RefundStatuses

\* An amount that can be refunded is a positive part of the order's amount.
LEMMA AmountFacts ==
  /\ Amount \in Amounts
  /\ \A a \in Amounts : a \in 0..Amount /\ a # 0
  /\ \A a \in 0..Amount : a # 0 => a \in Amounts
  BY AmountAssumption DEF Amounts

\* No step of any handler, failed or not, leaves the types; in particular the
\* goods a refund takes never exceed what the user has.
LEMMA TypeStep == TypeOK /\ [Next]_vars => TypeOK'
<1> SUFFICES ASSUME TypeOK, [Next]_vars PROVE TypeOK'
  OBVIOUS
<1> USE AmountAssumption, FaultsAssumption, StepFacts, StatusFacts
    DEF TypeOK, Goto, Leave, Keep, Order, NoFault, Fault, Taking, Begin,
        rowVars, pendingVars, auditVars, goodsVars, planVars
<1>1. CASE UNCHANGED vars
  BY <1>1 DEF vars
<1>2. ASSUME NEW w \in Admins, Start(w) PROVE TypeOK'
  <2>1. CASE RequestCheck(w)
    BY <2>1 DEF RequestCheck
  <2>2. CASE PrepareRefund(w)
    BY <2>2, AmountFacts DEF PrepareRefund, RestoreTo
  <2>3. CASE QueryAndFinalizeRefund(w)
    BY <2>3 DEF QueryAndFinalizeRefund
  <2> QED
    BY <1>2, <2>1, <2>2, <2>3 DEF Start
<1>3. ASSUME NEW w \in Admins, Step(w) PROVE TypeOK'
  <2>1. CASE RequestRefund(w)
    BY <2>1 DEF RequestRefund
  <2>2. CASE PrepDeduct(w)
    BY <2>2 DEF PrepDeduct, Planned
  <2>3. CASE ExecuteRefund(w) \/ CheckRollback(w) \/ Restore(w)
    BY <2>3 DEF ExecuteRefund, CheckRollback, Restore
  <2>4. CASE Deduct(w)
    BY <2>4 DEF Deduct, DeductionError, Take, Got, Deductible
  <2>5. CASE GwRefund(w)
    BY <2>5 DEF GwRefund, AfterAnswer
  <2>6. CASE MarkRefundOk(w) \/ PendingWrite(w) \/ PendingAudit(w) \/ MarkFailed(w)
    BY <2>6 DEF MarkRefundOk, PendingWrite, PendingAudit, MarkFailed, RefundedStatus
  <2>7. CASE PendingRollback(w) \/ GwRollback(w)
    BY <2>7 DEF PendingRollback, GwRollback, RollbackRefund, RolledBack,
                RollbackFailed, Strand, GiveBack
  <2>8. CASE LatestRefundPendingDetail(w) \/ QueryRefund(w)
    BY <2>8 DEF LatestRefundPendingDetail, QueryRefund, FinalTake
  <2>9. CASE FinalizePendingRefundSuccess(w) \/ FinalizeRefundFailed(w)
    BY <2>9 DEF FinalizePendingRefundSuccess, FinalizeRefundFailed, RefundedStatus,
                Take, Got, Deductible
  <2> QED
    BY <1>3, <2>1, <2>2, <2>3, <2>4, <2>5, <2>6, <2>7, <2>8, <2>9 DEF Step
<1>4. ASSUME NEW w \in Admins, CallFails(w) \/ AnswerLost(w) \/ Crash(w)
      PROVE TypeOK'
  BY <1>4 DEF CallFails, AfterError, DeductionError, AnswerLost, Crash
<1>7. ASSUME NEW w \in Admins, DeductionUnconfirmed(w) \/ RollbackFails(w)
      PROVE TypeOK'
  BY <1>7 DEF DeductionUnconfirmed, DeductionError, Take, Got, Deductible, RollbackFails,
              RollbackFailed, Strand, GiveBack
<1>5. CASE Spend
  BY <1>5 DEF Spend
<1>6. CASE Settle
  BY <1>6 DEF Settle
<1> QED
  BY <1>1, <1>2, <1>3, <1>4, <1>5, <1>6, <1>7 DEF Next

\* No refund handler writes a status outside COMPLETED and the refund statuses
\* (what PaymentFulfillment assumes of refunds), and no deduction, however
\* stale its plan, overdraws what the user has.
THEOREM TypeCorrect == Spec => []TypeOK
<1>1. Init => TypeOK
  BY AmountAssumption, AvailAssumption, FaultsAssumption, StepFacts
     DEF Init, TypeOK, Amounts
<1> QED
  BY <1>1, TypeStep, PTL DEF Spec

-----------------------------------------------------------------------------
(* The inductive invariant *)

\* Plans of handlers that work on a refund are for real amounts, and so is the
\* refund_amount of a pending order: the provider is only asked about refunds
\* it can know.
PlansReal ==
  /\ \A w \in Admins :
       /\ pc[w] \notin {"idle", "request"} => amt[w] \in Amounts
       /\ pc[w] = "query" => id[w] \in Amounts
  /\ status = "REFUND_PENDING" => refundAmount \in Amounts

\* A handler about to settle the row has seen the provider's success.
SettledIsReturned ==
  /\ RefundedIsReturned
  /\ \A w \in Admins : pc[w] \in {"mark_ok", "finalize"} => Returned

\* As long as no failed query overwrote the row: while the order can be claimed
\* nothing is taken but what was stranded; the owner of the claim has taken at
\* most its plan's part on top of that; and a settled order at most its amount.
Books ==
  raced = "no" =>
    /\ status \in Refundable => taken <= stranded
    /\ \A w \in Admins :
         /\ pc[w] \in HoldSteps => taken <= stranded + take[w]
         /\ pc[w] \in OwnSteps \ HoldSteps => taken <= stranded
    /\ (\A w \in Admins : pc[w] \notin HoldSteps) => taken <= stranded + Amount

Core == PlansReal /\ OneRefundOwner /\ SettledIsReturned /\ Books

IInv == TypeOK /\ Core

\* Which steps own the claim, and which of them hold goods.
LEMMA OwnFacts ==
  /\ {"gateway", "mark_ok", "pending_rollback", "gw_rollback"} = HoldSteps
  /\ HoldSteps \subseteq OwnSteps
  /\ OwnSteps \ HoldSteps
       = {"check_rollback", "deduct", "restore", "mark_failed", "pending_write"}
  /\ OwnSteps \cap {"idle", "request", "prep_deduct", "execute", "pending_audit",
                    "pending_detail", "query", "finalize", "finalize_failed"} = {}
  BY DEF OwnSteps, HoldSteps

\* The steps of a handler preserve the invariant: its claim is exclusive, so
\* the goods it adds or gives back are the only ones on the books.
LEMMA HandlerStep ==
  ASSUME IInv, NEW w \in Admins, Step(w) PROVE Core'
<1> USE AmountAssumption, AmountFacts, OwnFacts
    DEF IInv, Core, TypeOK, PlansReal, OneRefundOwner, SettledIsReturned,
        RefundedIsReturned, Returned, Books, Refundable,
        Goto, Leave, Keep, Taking, Begin, Order, NoFault, Fault,
        rowVars, pendingVars, auditVars, goodsVars, planVars
<1>1. CASE RequestRefund(w)
  BY <1>1 DEF RequestRefund
<1>2. CASE PrepDeduct(w)
  BY <1>2 DEF PrepDeduct, Planned
<1>3. CASE ExecuteRefund(w)
  BY <1>3 DEF ExecuteRefund, Claimable
<1>4. CASE CheckRollback(w)
  BY <1>4 DEF CheckRollback
<1>5. CASE Deduct(w)
  BY <1>5 DEF Deduct, DeductionError, Take, Got, Deductible
<1>6. CASE Restore(w)
  BY <1>6 DEF Restore
<1>7. CASE GwRefund(w)
  BY <1>7 DEF GwRefund, AfterAnswer
<1>8. CASE MarkRefundOk(w)
  BY <1>8 DEF MarkRefundOk, RefundedStatus
<1>9. CASE PendingRollback(w)
  BY <1>9 DEF PendingRollback, RollbackRefund, RolledBack, RollbackFailed, Strand,
              GiveBack
<1>10. CASE GwRollback(w)
  BY <1>10 DEF GwRollback, RollbackRefund, RolledBack, RollbackFailed, Strand,
               GiveBack
<1>11. CASE PendingWrite(w)
  BY <1>11 DEF PendingWrite
<1>12. CASE PendingAudit(w)
  BY <1>12 DEF PendingAudit
<1>13. CASE MarkFailed(w)
  BY <1>13 DEF MarkFailed
<1>14. CASE LatestRefundPendingDetail(w)
  BY <1>14 DEF LatestRefundPendingDetail
<1>15. CASE QueryRefund(w)
  BY <1>15 DEF QueryRefund, FinalTake
<1>16. CASE FinalizePendingRefundSuccess(w)
  BY <1>16 DEF FinalizePendingRefundSuccess, Finalizable, RefundedStatus, Take, Got,
               Deductible
<1>17. CASE FinalizeRefundFailed(w)
  BY <1>17 DEF FinalizeRefundFailed
<1> QED
  BY <1>1, <1>2, <1>3, <1>4, <1>5, <1>6, <1>7, <1>8, <1>9, <1>10, <1>11, <1>12, <1>13,
     <1>14, <1>15, <1>16, <1>17 DEF Step

\* So do the steps that start a handler, faults, and the environment.
LEMMA OtherStep ==
  ASSUME IInv,
         \/ UNCHANGED vars \/ Spend \/ Settle
         \/ \E w \in Admins : \/ Start(w) \/ CallFails(w) \/ AnswerLost(w)
                              \/ DeductionUnconfirmed(w) \/ RollbackFails(w) \/ Crash(w)
  PROVE  Core'
<1> USE AmountAssumption, AmountFacts, OwnFacts
    DEF IInv, Core, TypeOK, PlansReal, OneRefundOwner, SettledIsReturned,
        RefundedIsReturned, Returned, Books, Refundable,
        Goto, Leave, Keep, Taking, Begin, Order, NoFault, Fault,
        rowVars, pendingVars, auditVars, goodsVars, planVars
<1>1. CASE UNCHANGED vars
  BY <1>1 DEF vars
<1>2. CASE Spend
  BY <1>2 DEF Spend
<1>3. CASE Settle
  BY <1>3 DEF Settle
<1>4. ASSUME NEW w \in Admins, Start(w) PROVE Core'
  BY <1>4 DEF Start, RequestCheck, PrepareRefund, RestoreTo, QueryAndFinalizeRefund
<1>5. ASSUME NEW w \in Admins, CallFails(w) PROVE Core'
  BY <1>5 DEF CallFails, AfterError, DeductionError
<1>6. ASSUME NEW w \in Admins, AnswerLost(w) PROVE Core'
  BY <1>6 DEF AnswerLost
<1>7. ASSUME NEW w \in Admins, RollbackFails(w) PROVE Core'
  BY <1>7 DEF RollbackFails, RollbackFailed, Strand, GiveBack
<1>8. ASSUME NEW w \in Admins, Crash(w) PROVE Core'
  BY <1>8 DEF Crash
<1>9. ASSUME NEW w \in Admins, DeductionUnconfirmed(w) PROVE Core'
  BY <1>9 DEF DeductionUnconfirmed, DeductionError, Take, Got, Deductible
<1> QED
  BY <1>1, <1>2, <1>3, <1>4, <1>5, <1>6, <1>7, <1>8, <1>9

\* The inductive invariant holds of every behaviour.
THEOREM Invariance == Spec => []IInv
<1>1. Init => IInv
  BY AmountAssumption, AvailAssumption, FaultsAssumption, StepFacts, OwnFacts
     DEF Init, IInv, Core, TypeOK, PlansReal, OneRefundOwner, SettledIsReturned,
         RefundedIsReturned, Books
<1>2. IInv /\ [Next]_vars => IInv'
  BY TypeStep, HandlerStep, OtherStep DEF IInv, Next
<1> QED
  BY <1>1, <1>2, PTL DEF Spec

\* An order ends REFUNDED or PARTIALLY_REFUNDED only after the provider
\* returned money, whatever queries, retries and faults came in between.
THEOREM RefundsAreReal == Spec => []RefundedIsReturned
<1>1. IInv => RefundedIsReturned
  BY DEF IInv, Core, SettledIsReturned
<1> QED
  BY <1>1, Invariance, PTL

\* ExecuteRefund's claim is exclusive until its last write of the status.
THEOREM ClaimIsExclusive == Spec => []OneRefundOwner
<1>1. IInv => OneRefundOwner
  BY DEF IInv, Core
<1> QED
  BY <1>1, Invariance, PTL

-----------------------------------------------------------------------------
(* REFUNDING orders *)

\* A handler gives its claim up by writing another status, if nothing fails.
LEMMA OwnedStep == TypeOK /\ RefundingIsOwned /\ [Next]_vars => RefundingIsOwned'
<1> SUFFICES ASSUME TypeOK, RefundingIsOwned, [Next]_vars PROVE RefundingIsOwned'
  OBVIOUS
<1> USE OwnFacts
    DEF TypeOK, RefundingIsOwned, Goto, Leave, Keep, Taking, Begin, NoFault,
        rowVars, planVars
<1>1. CASE UNCHANGED vars \/ Spend \/ Settle
  BY <1>1 DEF vars, Spend, Settle
<1>2. ASSUME NEW w \in Admins, Start(w) PROVE RefundingIsOwned'
  BY <1>2 DEF Start, RequestCheck, PrepareRefund, QueryAndFinalizeRefund
<1>3. ASSUME NEW w \in Admins,
             \/ CallFails(w) \/ AnswerLost(w) \/ DeductionUnconfirmed(w)
             \/ RollbackFails(w) \/ Crash(w)
      PROVE  RefundingIsOwned'
  BY <1>3, FaultsAssumption
     DEF Fault, CallFails, AnswerLost, DeductionUnconfirmed, RollbackFails, Crash
<1>4. ASSUME NEW w \in Admins,
             \/ RequestRefund(w) \/ PrepDeduct(w) \/ ExecuteRefund(w)
             \/ CheckRollback(w) \/ Deduct(w)
      PROVE  RefundingIsOwned'
  BY <1>4 DEF RequestRefund, PrepDeduct, ExecuteRefund, CheckRollback, Deduct,
              DeductionError
<1>5. ASSUME NEW w \in Admins, GwRefund(w) PROVE RefundingIsOwned'
  BY <1>5 DEF GwRefund, AfterAnswer
<1>6. ASSUME NEW w \in Admins, PendingRollback(w) \/ GwRollback(w)
      PROVE  RefundingIsOwned'
  BY <1>6 DEF PendingRollback, GwRollback, RollbackRefund, RolledBack, RollbackFailed
<1>7. ASSUME NEW w \in Admins,
             \/ Restore(w) \/ MarkRefundOk(w) \/ PendingWrite(w) \/ MarkFailed(w)
      PROVE  RefundingIsOwned'
  BY <1>7 DEF Restore, MarkRefundOk, RefundedStatus, PendingWrite, MarkFailed
<1>8. ASSUME NEW w \in Admins,
             PendingAudit(w) \/ LatestRefundPendingDetail(w) \/ QueryRefund(w)
      PROVE  RefundingIsOwned'
  BY <1>8 DEF PendingAudit, LatestRefundPendingDetail, QueryRefund
<1>9. ASSUME NEW w \in Admins, FinalizePendingRefundSuccess(w) \/ FinalizeRefundFailed(w)
      PROVE  RefundingIsOwned'
  BY <1>9 DEF FinalizePendingRefundSuccess, RefundedStatus, FinalizeRefundFailed
<1> QED
  BY <1>1, <1>2, <1>3, <1>4, <1>5, <1>6, <1>7, <1>8, <1>9 DEF Next, Step

\* Without failed calls and crashes an order is REFUNDING only while a handler
\* that claimed it runs, though other handlers write the row under it.
THEOREM ClaimsEnd == Spec => []RefundingIsOwned
<1>1. Init => RefundingIsOwned
  BY DEF Init, RefundingIsOwned
<1> QED
  BY <1>1, OwnedStep, TypeCorrect, PTL DEF Spec

-----------------------------------------------------------------------------
(* What faults cost *)

\* The most that n faults can strand.
Cost(n) == Amount * n

\* One fault more costs one amount more.
LEMMA CostFacts ==
  ASSUME NEW n \in Nat
  PROVE  Cost(n) \in Nat /\ Cost(n + 1) = Cost(n) + Amount
  BY AmountAssumption DEF Cost

\* As long as no failed query overwrote the row, a fault strands the goods of
\* the one handler that holds any, and without a fault only the days of a
\* revoked subscription cannot be given back, by the handler that revoked it.
Costs ==
  /\ orderType = "balance" => sub = "held"
  /\ raced = "no" =>
       /\ stranded <= Cost(faults) + (IF sub = "revoked" THEN Amount ELSE 0)
       /\ \A w \in Admins : pc[w] \in HoldSteps /\ take[w] > 0 /\ sub = "revoked"
                            => stranded <= Cost(faults)

\* Every step keeps the costs.
LEMMA CostStep == IInv /\ Costs /\ [Next]_vars => Costs'
<1> SUFFICES ASSUME IInv, Costs, [Next]_vars PROVE Costs'
  OBVIOUS
<1>0. /\ faults \in Nat /\ Cost(faults) \in Nat
      /\ Cost(faults + 1) = Cost(faults) + Amount
  BY CostFacts, FaultsAssumption DEF IInv, TypeOK
<1> USE <1>0, AmountAssumption, OwnFacts
    DEF IInv, Core, TypeOK, OneRefundOwner, Costs,
        Goto, Leave, Keep, Taking, Begin, Order, NoFault, Fault,
        rowVars, pendingVars, auditVars, goodsVars, planVars
<1>1. CASE UNCHANGED vars \/ Spend \/ Settle
  BY <1>1 DEF vars, Spend, Settle
<1>2. ASSUME NEW w \in Admins, Start(w) PROVE Costs'
  BY <1>2 DEF Start, RequestCheck, PrepareRefund, QueryAndFinalizeRefund
<1>3. ASSUME NEW w \in Admins,
             \/ RequestRefund(w) \/ PrepDeduct(w) \/ ExecuteRefund(w)
             \/ CheckRollback(w) \/ Restore(w)
      PROVE  Costs'
  BY <1>3 DEF RequestRefund, PrepDeduct, ExecuteRefund, CheckRollback, Restore
<1>4. ASSUME NEW w \in Admins, Deduct(w) PROVE Costs'
  BY <1>4 DEF Deduct, DeductionError, CanTake, Take, Got, Deductible
<1>5. ASSUME NEW w \in Admins, GwRefund(w) PROVE Costs'
  BY <1>5 DEF GwRefund, AfterAnswer
<1>6. ASSUME NEW w \in Admins, MarkRefundOk(w) PROVE Costs'
  BY <1>6 DEF MarkRefundOk
<1>7. ASSUME NEW w \in Admins, PendingRollback(w) \/ GwRollback(w) PROVE Costs'
  BY <1>7 DEF PendingRollback, GwRollback, RollbackRefund, RolledBack, RollbackFailed,
              Strand, CanGiveBack, GiveBack
<1>8. ASSUME NEW w \in Admins, PendingWrite(w) \/ PendingAudit(w) \/ MarkFailed(w)
      PROVE  Costs'
  BY <1>8 DEF PendingWrite, PendingAudit, MarkFailed
<1>9. ASSUME NEW w \in Admins, LatestRefundPendingDetail(w) \/ QueryRefund(w)
      PROVE  Costs'
  BY <1>9 DEF LatestRefundPendingDetail, QueryRefund
<1>10. ASSUME NEW w \in Admins, FinalizePendingRefundSuccess(w) PROVE Costs'
  BY <1>10 DEF FinalizePendingRefundSuccess, Finalizable, CanTake, Take
<1>11. ASSUME NEW w \in Admins, FinalizeRefundFailed(w) PROVE Costs'
  BY <1>11 DEF FinalizeRefundFailed
<1>12. ASSUME NEW w \in Admins, CallFails(w) \/ AnswerLost(w) PROVE Costs'
  BY <1>12 DEF CallFails, AfterError, DeductionError, AnswerLost
<1>13. ASSUME NEW w \in Admins, DeductionUnconfirmed(w) PROVE Costs'
  BY <1>13 DEF DeductionUnconfirmed, DeductionError, CanTake, Take, Got, Deductible
<1>14. ASSUME NEW w \in Admins, RollbackFails(w) PROVE Costs'
  BY <1>14 DEF RollbackFails, RollbackFailed, Strand, GiveBack
<1>15. ASSUME NEW w \in Admins, Crash(w) PROVE Costs'
  BY <1>15 DEF Crash
<1> QED
  BY <1>1, <1>2, <1>3, <1>4, <1>5, <1>6, <1>7, <1>8, <1>9, <1>10, <1>11, <1>12, <1>13,
     <1>14, <1>15 DEF Next, Step

\* All the refunds of an order together keep at most the order's amount besides
\* what was stranded, and what was stranded is at most the amount for each
\* fault, and once for a revoked subscription.
THEOREM NoDoubleDeduction == Spec => []TakenAtMostOnce
<1>1. Init => Costs
  BY CostFacts, AmountAssumption DEF Init, Costs
<1>2. IInv /\ Costs => TakenAtMostOnce
  <2> SUFFICES ASSUME IInv, Costs, InFlight = {}, raced = "no"
               PROVE  taken <= stranded + Amount /\ stranded <= Amount * Strandings
    BY DEF TakenAtMostOnce
  <2> USE AmountAssumption DEF IInv, Core, TypeOK, Books, InFlight
  <2>1. ASSUME NEW w \in Admins, pc[w] \in HoldSteps PROVE taken <= stranded + Amount
    <3>1. take[w] = 0 /\ taken <= stranded + take[w]
      BY <2>1
    <3> QED
      BY <3>1
  <2>2. (\A w \in Admins : pc[w] \notin HoldSteps) => taken <= stranded + Amount
    OBVIOUS
  <2>3. Cost(faults) + (IF sub = "revoked" THEN Amount ELSE 0) = Amount * Strandings
    <3>1. /\ faults \in Nat /\ Cost(faults) \in Nat
          /\ Cost(faults + 1) = Cost(faults) + Amount
      BY CostFacts, FaultsAssumption
    <3>2. Amount * Strandings = Cost(Strandings)
      BY DEF Cost
    <3>3. CASE sub = "revoked"
      <4>1. Strandings = faults + 1
        BY <3>3 DEF Strandings
      <4> QED
        BY <3>1, <3>2, <3>3, <4>1
    <3>4. CASE sub # "revoked"
      <4>1. Strandings = faults
        BY <3>1, <3>4 DEF Strandings
      <4> QED
        BY <3>1, <3>2, <3>4, <4>1
    <3> QED
      BY <3>3, <3>4
  <2>4. stranded <= Amount * Strandings
    <3>1. stranded <= Cost(faults) + (IF sub = "revoked" THEN Amount ELSE 0)
      BY DEF Costs
    <3> QED
      BY <2>3, <3>1
  <2> QED
    BY <2>1, <2>2, <2>4
<1> QED
  BY <1>1, <1>2, CostStep, Invariance, PTL DEF Spec

-----------------------------------------------------------------------------
(* Goods in flight.  After a failed query has overwritten the row, several
   handlers can hold goods at once, so the books need their total.  It is the
   number of units held, a unit being a handler with a number. *)

\* What a handler holds, and what each of them does.
Held(w) == IF pc[w] \in HoldSteps THEN take[w] ELSE 0

Holding == [w \in Admins |-> Held(w)]

\* The units held when handler w holds h[w] of them.
Units(h) == {x \in Admins \X Amounts : x[2] <= h[x[1]]}

\* One handler's units are as many as it holds.
LEMMA PartCount ==
  ASSUME NEW w, NEW n \in Nat
  PROVE  IsFiniteSet({w} \X (1..n)) /\ Cardinality({w} \X (1..n)) = n
<1> DEFINE f == [i \in 1..n |-> <<w, i>>]
<1>1. f \in Bijection(1..n, {w} \X (1..n))
  <2>1. f \in [1..n -> {w} \X (1..n)]
    OBVIOUS
  <2>2. \A i, j \in 1..n : f[i] = f[j] => i = j
    OBVIOUS
  <2>3. ASSUME NEW x \in {w} \X (1..n) PROVE \E i \in 1..n : f[i] = x
    <3>1. PICK i \in 1..n : x = <<w, i>>
      OBVIOUS
    <3> QED
      BY <3>1
  <2> HIDE DEF f
  <2> QED
    BY <2>1, <2>2, <2>3 DEF Bijection, Injection, IsInjective, Surjection
<1>2. ExistsBijection(1..n, {w} \X (1..n))
  BY <1>1 DEF ExistsBijection
<1>3. IsFiniteSet(1..n) /\ Cardinality(1..n) = n
  BY FS_Interval
<1> QED
  BY <1>2, <1>3, FS_Bijection

\* A change of what one handler holds changes the total by as much.
LEMMA UnitsChange ==
  ASSUME NEW h \in [Admins -> 0..Amount], NEW w \in Admins, NEW n \in 0..Amount,
         IsFiniteSet(Units(h))
  PROVE  /\ IsFiniteSet(Units([h EXCEPT ![w] = n]))
         /\ Cardinality(Units([h EXCEPT ![w] = n])) = Cardinality(Units(h)) - h[w] + n
<1> DEFINE Rest == {x \in Units(h) : x[1] # w}
           Part(m) == {w} \X (1..m)
           g == [h EXCEPT ![w] = n]
<1> USE AmountAssumption
<1>1. IsFiniteSet(Rest)
  BY FS_Subset
<1>2. ASSUME NEW k \in [Admins -> 0..Amount], \A v \in Admins : v # w => k[v] = h[v]
      PROVE  /\ Units(k) = Rest \cup Part(k[w])
             /\ Rest \cap Part(k[w]) = {}
             /\ IsFiniteSet(Units(k))
             /\ Cardinality(Units(k)) = Cardinality(Rest) + k[w]
  <2>1. Units(k) = Rest \cup Part(k[w])
    <3>1. ASSUME NEW x \in Units(k) PROVE x \in Rest \cup Part(k[w])
      <4>1. PICK v \in Admins, i \in Amounts : x = <<v, i>>
        BY <3>1 DEF Units
      <4>2. i <= k[v]
        BY <3>1, <4>1 DEF Units
      <4>3. CASE v = w
        BY <4>1, <4>2, <4>3 DEF Amounts
      <4>4. CASE v # w
        BY <1>2, <4>1, <4>2, <4>4 DEF Units
      <4> QED
        BY <4>3, <4>4
    <3>2. ASSUME NEW x \in Rest PROVE x \in Units(k)
      <4>1. PICK v \in Admins, i \in Amounts : x = <<v, i>> /\ i <= h[v] /\ v # w
        BY <3>2 DEF Units
      <4> QED
        BY <1>2, <4>1 DEF Units
    <3>3. ASSUME NEW x \in Part(k[w]) PROVE x \in Units(k)
      <4>1. PICK i \in 1..k[w] : x = <<w, i>>
        BY <3>3
      <4>2. i \in Amounts /\ i <= k[w]
        BY <4>1 DEF Amounts
      <4> QED
        BY <4>1, <4>2 DEF Units
    <3> QED
      BY <3>1, <3>2, <3>3
  <2>2. Rest \cap Part(k[w]) = {}
    OBVIOUS
  <2>3. IsFiniteSet(Part(k[w])) /\ Cardinality(Part(k[w])) = k[w]
    <3>1. k[w] \in Nat
      OBVIOUS
    <3> QED
      BY <3>1, PartCount
  <2>4. /\ IsFiniteSet(Rest \cup Part(k[w]))
        /\ Cardinality(Rest \cup Part(k[w]))
             = Cardinality(Rest) + Cardinality(Part(k[w])) - Cardinality({})
    BY <1>1, <2>2, <2>3, FS_Union
  <2>5. Cardinality({}) = 0 /\ Cardinality(Rest) \in Nat
    BY <1>1, FS_EmptySet, FS_CardinalityType
  <2> HIDE DEF Rest, Part
  <2> QED
    BY <2>1, <2>2, <2>3, <2>4, <2>5
<1>3. /\ IsFiniteSet(Units(g))
      /\ Cardinality(Units(g)) = Cardinality(Rest) + n
  <2>1. g \in [Admins -> 0..Amount] /\ g[w] = n /\ \A v \in Admins : v # w => g[v] = h[v]
    OBVIOUS
  <2> HIDE DEF g, Rest, Part
  <2> QED
    BY <1>2, <2>1
<1>4. Cardinality(Units(h)) = Cardinality(Rest) + h[w]
  <2> HIDE DEF Rest, Part
  <2> QED
    BY <1>2
<1>5. Cardinality(Rest) \in Nat
  BY <1>1, FS_CardinalityType
<1> HIDE DEF Rest, g
<1>6. Cardinality(Units(g)) = Cardinality(Units(h)) - h[w] + n
  BY <1>3, <1>4, <1>5
<1> QED
  BY <1>3, <1>6 DEF g

\* Until the provider has returned money, all that was taken is stranded or in
\* the hands of a handler that is still to settle or give back.
Accounted ==
  ~Returned => /\ IsFiniteSet(Units(Holding))
               /\ taken = stranded + Cardinality(Units(Holding))

\* A step of handler w moves goods between the books and its own hands only,
\* unless the provider has returned money.
Moves(w) ==
  /\ \A v \in Admins : v # w => Held(v)' = Held(v)
  /\ taken' - stranded' = taken - stranded - Held(w) + Held(w)'

LEMMA HandlerMoves ==
  ASSUME IInv, NEW w \in Admins, ~Returned, Step(w) PROVE Moves(w)
<1> USE AmountAssumption, AmountFacts, OwnFacts
    DEF IInv, Core, TypeOK, SettledIsReturned, Moves, Held,
        Goto, Leave, Keep, Taking, Begin, Order, NoFault,
        rowVars, pendingVars, auditVars, goodsVars, planVars
<1>1. CASE RequestRefund(w) \/ PrepDeduct(w) \/ Restore(w)
  BY <1>1 DEF RequestRefund, PrepDeduct, Planned, Restore
<1>2. CASE ExecuteRefund(w) \/ CheckRollback(w)
  BY <1>2 DEF ExecuteRefund, CheckRollback
<1>3. CASE Deduct(w)
  BY <1>3 DEF Deduct, DeductionError, Take, Got, Deductible
<1>4. CASE GwRefund(w)
  BY <1>4 DEF GwRefund, AfterAnswer
<1>5. CASE MarkRefundOk(w) \/ FinalizePendingRefundSuccess(w)
  BY <1>5 DEF MarkRefundOk, FinalizePendingRefundSuccess
<1>6. CASE PendingRollback(w) \/ GwRollback(w)
  BY <1>6 DEF PendingRollback, GwRollback, RollbackRefund, RolledBack, RollbackFailed,
              Strand, GiveBack
<1>7. CASE PendingWrite(w) \/ PendingAudit(w) \/ MarkFailed(w)
  BY <1>7 DEF PendingWrite, PendingAudit, MarkFailed
<1>8. CASE LatestRefundPendingDetail(w) \/ QueryRefund(w) \/ FinalizeRefundFailed(w)
  BY <1>8 DEF LatestRefundPendingDetail, QueryRefund, FinalTake, FinalizeRefundFailed
<1> QED
  BY <1>1, <1>2, <1>3, <1>4, <1>5, <1>6, <1>7, <1>8 DEF Step

\* So does every other step of w: a fault strands what it makes w drop.
LEMMA OtherMoves ==
  ASSUME IInv, NEW w \in Admins, ~Returned,
         \/ Start(w) \/ CallFails(w) \/ AnswerLost(w) \/ DeductionUnconfirmed(w)
         \/ RollbackFails(w) \/ Crash(w)
  PROVE  Moves(w)
<1> USE AmountAssumption, AmountFacts, OwnFacts
    DEF IInv, Core, TypeOK, SettledIsReturned, Moves, Held,
        Goto, Leave, Keep, Taking, Begin, Order, NoFault, Fault,
        rowVars, pendingVars, auditVars, goodsVars, planVars
<1>1. CASE Start(w)
  BY <1>1 DEF Start, RequestCheck, PrepareRefund, QueryAndFinalizeRefund
<1>2. CASE CallFails(w)
  BY <1>2 DEF CallFails, AfterError, DeductionError
<1>3. CASE AnswerLost(w)
  BY <1>3 DEF AnswerLost
<1>4. CASE RollbackFails(w)
  BY <1>4 DEF RollbackFails, RollbackFailed, Strand, GiveBack
<1>5. CASE Crash(w)
  BY <1>5 DEF Crash
<1>6. CASE DeductionUnconfirmed(w)
  BY <1>6 DEF DeductionUnconfirmed, DeductionError, Take, Got, Deductible
<1> QED
  BY <1>1, <1>2, <1>3, <1>4, <1>5, <1>6

\* The provider never takes a returned refund back.
LEMMA ReturnedStays == TypeOK /\ [Next]_vars /\ Returned => Returned'
<1> SUFFICES ASSUME TypeOK, [Next]_vars, Returned PROVE Returned'
  OBVIOUS
<1> USE DEF TypeOK, Returned, Order
<1>1. CASE UNCHANGED vars
  BY <1>1 DEF vars
<1>2. ASSUME NEW w \in Admins, Start(w) PROVE Returned'
  BY <1>2 DEF Start, RequestCheck, PrepareRefund, QueryAndFinalizeRefund
<1>3. ASSUME NEW w \in Admins, Step(w) PROVE Returned'
  <2>1. CASE GwRefund(w)
    BY <2>1 DEF GwRefund
  <2>2. CASE UNCHANGED <<refund, tradeNo>>
    BY <2>2
  <2> QED
    BY <1>3, <2>1, <2>2
       DEF Step, RequestRefund, PrepDeduct, ExecuteRefund, CheckRollback, Deduct, Restore,
           MarkRefundOk, PendingRollback, PendingWrite, PendingAudit, GwRollback, MarkFailed,
           LatestRefundPendingDetail, QueryRefund, FinalizePendingRefundSuccess,
           FinalizeRefundFailed
<1>4. ASSUME NEW w \in Admins,
             \/ CallFails(w) \/ AnswerLost(w) \/ DeductionUnconfirmed(w)
             \/ RollbackFails(w) \/ Crash(w)
      PROVE  Returned'
  BY <1>4 DEF CallFails, AnswerLost, DeductionUnconfirmed, RollbackFails, Crash
<1>5. CASE Spend
  BY <1>5 DEF Spend
<1>6. CASE Settle
  BY <1>6 DEF Settle
<1> QED
  BY <1>1, <1>2, <1>3, <1>4, <1>5, <1>6 DEF Next

\* A move keeps the goods accounted for.
LEMMA MoveAccounted ==
  ASSUME TypeOK, TypeOK', NEW w \in Admins, ~Returned, Accounted, Moves(w)
  PROVE  Accounted'
<1>1. Holding \in [Admins -> 0..Amount] /\ Holding' \in [Admins -> 0..Amount]
  BY AmountAssumption DEF TypeOK, Holding, Held
<1>2. Holding' = [Holding EXCEPT ![w] = Holding'[w]]
  BY DEF Moves, Holding
<1>3. IsFiniteSet(Units(Holding)) /\ taken = stranded + Cardinality(Units(Holding))
  BY DEF Accounted
<1>4. /\ IsFiniteSet(Units(Holding'))
      /\ Cardinality(Units(Holding')) = Cardinality(Units(Holding)) - Holding[w] + Holding'[w]
  BY <1>1, <1>2, <1>3, UnitsChange
<1>5. taken' - stranded' = taken - stranded - Holding[w] + Holding'[w]
  BY DEF Moves, Holding
<1>6. Cardinality(Units(Holding)) \in Nat
  BY <1>3, FS_CardinalityType
<1>7. taken' = stranded' + Cardinality(Units(Holding'))
  BY <1>1, <1>3, <1>4, <1>5, <1>6 DEF TypeOK
<1>8. Units(Holding') = Units(Holding)'
  BY DEF Units, Amounts
<1> QED
  BY <1>4, <1>7, <1>8 DEF Accounted

\* The books are balanced by every step.
LEMMA AccountedStep == IInv /\ IInv' /\ Accounted /\ [Next]_vars => Accounted'
<1> SUFFICES ASSUME IInv, IInv', Accounted, [Next]_vars, ~Returned' PROVE Accounted'
  BY DEF Accounted
<1>1. ~Returned /\ TypeOK /\ TypeOK'
  BY ReturnedStays DEF IInv
<1>2. CASE UNCHANGED vars \/ Spend \/ Settle
  <2>1. UNCHANGED <<pc, take, taken, stranded>>
    BY <1>2 DEF vars, Spend, Settle, NoFault, planVars, goodsVars
  <2>2. Units(Holding)' = Units(Holding)
    BY <2>1 DEF Units, Holding, Held
  <2> QED
    BY <1>1, <2>1, <2>2 DEF Accounted
<1>3. ASSUME NEW w \in Admins,
             \/ Start(w) \/ Step(w) \/ CallFails(w) \/ AnswerLost(w)
             \/ DeductionUnconfirmed(w) \/ RollbackFails(w) \/ Crash(w)
      PROVE  Accounted'
  <2>1. Moves(w)
    BY <1>1, <1>3, HandlerMoves, OtherMoves
  <2> QED
    BY <1>1, <2>1, MoveAccounted
<1> QED
  BY <1>2, <1>3 DEF Next

\* Once no handler holds goods, the user has lost goods to refunds only if the
\* provider returned money, for any number of handlers that race each other.
THEOREM NothingForNothing == Spec => []NothingTakenForNothing
<1>1. Init => Accounted
  <2> SUFFICES ASSUME Init
               PROVE  /\ IsFiniteSet(Units(Holding))
                      /\ taken = stranded + Cardinality(Units(Holding))
    BY DEF Accounted
  <2>1. Units(Holding) = {}
    BY AmountAssumption DEF Init, Units, Holding, Held, Amounts, HoldSteps
  <2> QED
    BY <2>1, FS_EmptySet DEF Init
<1>2. IInv /\ Accounted => NothingTakenForNothing
  <2> SUFFICES ASSUME IInv, Accounted, InFlight = {}, ~Returned PROVE taken <= stranded
    BY DEF NothingTakenForNothing, IInv, TypeOK
  <2>1. \A w \in Admins : Holding[w] = 0
    BY DEF IInv, TypeOK, InFlight, Holding, Held
  <2>2. Units(Holding) = {}
    BY <2>1, AmountAssumption DEF Units, Amounts
  <2> QED
    BY <2>2, FS_EmptySet DEF Accounted, IInv, TypeOK
<1> QED
  BY <1>1, <1>2, AccountedStep, Invariance, PTL DEF Spec

-----------------------------------------------------------------------------
(* Retries after a failed rollback *)

\* hasAuditLog's answer is the row's: its read does not fail on a row that is
\* there, which the code would take for no row.
RowIsRead ==
  \A w \in Admins :
    pc[w] = "check_rollback" /\ pc'[w] = "deduct" => rollbackRow = "no"

\* The owner of the claim goes on to a deduction only if no rollback failed.
SkipsDeduction ==
  raced = "no" => \A w \in Admins : pc[w] = "deduct" => rollbackRow = "no"

\* The row can only be written by the owner of the claim, who is not at the
\* deduction any more.
LEMMA SkipStep ==
  ASSUME IInv, SkipsDeduction, [Next]_vars, RowIsRead PROVE SkipsDeduction'
<1> USE OwnFacts
    DEF IInv, Core, TypeOK, OneRefundOwner, SkipsDeduction, Goto, Leave, Keep, Taking,
        Begin, NoFault, rowVars, pendingVars, auditVars, planVars
<1>1. ASSUME NEW w \in Admins, Start(w) PROVE SkipsDeduction'
  BY <1>1 DEF Start, RequestCheck, PrepareRefund, QueryAndFinalizeRefund
<1>2. ASSUME NEW w \in Admins,
             \/ RequestRefund(w) \/ PrepDeduct(w) \/ ExecuteRefund(w)
             \/ CheckRollback(w) \/ Deduct(w) \/ Restore(w)
      PROVE SkipsDeduction'
  BY <1>2 DEF RequestRefund, PrepDeduct, ExecuteRefund, CheckRollback, Deduct,
              DeductionError, Restore
<1>3. ASSUME NEW w \in Admins, GwRefund(w) \/ MarkRefundOk(w) \/ MarkFailed(w)
      PROVE SkipsDeduction'
  BY <1>3 DEF GwRefund, AfterAnswer, MarkRefundOk, MarkFailed
<1>4. ASSUME NEW w \in Admins, PendingRollback(w) \/ GwRollback(w) \/ RollbackFails(w)
      PROVE SkipsDeduction'
  BY <1>4 DEF PendingRollback, GwRollback, RollbackRefund, RolledBack, RollbackFails,
              RollbackFailed, Strand
<1>5. ASSUME NEW w \in Admins, PendingWrite(w) \/ PendingAudit(w)
      PROVE SkipsDeduction'
  BY <1>5 DEF PendingWrite, PendingAudit
<1>6. ASSUME NEW w \in Admins,
             \/ LatestRefundPendingDetail(w) \/ QueryRefund(w)
             \/ FinalizePendingRefundSuccess(w) \/ FinalizeRefundFailed(w)
      PROVE SkipsDeduction'
  BY <1>6 DEF LatestRefundPendingDetail, QueryRefund, FinalizePendingRefundSuccess,
              FinalizeRefundFailed
<1>7. ASSUME NEW w \in Admins, CallFails(w) PROVE SkipsDeduction'
  BY <1>7 DEF CallFails, AfterError, DeductionError, RowIsRead
<1>8. ASSUME NEW w \in Admins, AnswerLost(w) \/ DeductionUnconfirmed(w) \/ Crash(w)
      PROVE SkipsDeduction'
  BY <1>8 DEF AnswerLost, DeductionUnconfirmed, DeductionError, Crash
<1>9. CASE Spend \/ Settle \/ UNCHANGED vars
  BY <1>9 DEF Spend, Settle, vars
<1> QED
  BY <1>1, <1>2, <1>3, <1>4, <1>5, <1>6, <1>7, <1>8, <1>9 DEF Next, Step

\* After a failed rollback, and as long as hasAuditLog's read does not fail and
\* no failed query overwrote the row, ExecuteRefund's retries take nothing more:
\* the finalization of a pending refund, which does not look for the row, is
\* the one handler that breaks NoDeductionAfterFailedRollback.
THEOREM RetriesTakeNothing ==
  Spec /\ [][RowIsRead]_vars
    => [][raced = "no" /\ rollbackRow = "yes" /\ taken' > taken
          => \E w \in Admins : FinalizePendingRefundSuccess(w)]_vars
<1> DEFINE More == raced = "no" /\ rollbackRow = "yes" /\ taken' > taken
           Final == \E w \in Admins : FinalizePendingRefundSuccess(w)
<1>1. Init => SkipsDeduction
  BY DEF Init, SkipsDeduction
<1>2. IInv /\ SkipsDeduction /\ [Next]_vars /\ [RowIsRead]_vars => SkipsDeduction'
  <2>1. SkipsDeduction /\ UNCHANGED vars => SkipsDeduction'
    BY DEF SkipsDeduction, vars, auditVars
  <2> QED
    BY <2>1, SkipStep
<1>3. ASSUME IInv, SkipsDeduction, Next, More PROVE Final
  <2> USE <1>3 DEF IInv, TypeOK, SkipsDeduction, goodsVars
  <2>1. ASSUME NEW w \in Admins, Deduct(w) \/ DeductionUnconfirmed(w) PROVE FALSE
    BY <2>1 DEF Deduct, DeductionUnconfirmed
  <2>2. ASSUME NEW w \in Admins, PendingRollback(w) \/ GwRollback(w) \/ RollbackFails(w)
        PROVE FALSE
    BY <2>2 DEF PendingRollback, GwRollback, RollbackRefund, RolledBack, GiveBack,
                RollbackFails, RollbackFailed, Strand
  <2>3. ASSUME NEW w \in Admins, Start(w) \/ CallFails(w) \/ AnswerLost(w) \/ Crash(w)
        PROVE FALSE
    BY <2>3 DEF Start, RequestCheck, PrepareRefund, QueryAndFinalizeRefund, CallFails,
                AnswerLost, Crash
  <2>4. ASSUME NEW w \in Admins,
               \/ RequestRefund(w) \/ PrepDeduct(w) \/ ExecuteRefund(w)
               \/ CheckRollback(w) \/ Restore(w) \/ GwRefund(w)
        PROVE FALSE
    BY <2>4 DEF RequestRefund, PrepDeduct, ExecuteRefund, CheckRollback, Restore, GwRefund
  <2>5. ASSUME NEW w \in Admins,
               \/ MarkRefundOk(w) \/ PendingWrite(w) \/ PendingAudit(w) \/ MarkFailed(w)
               \/ LatestRefundPendingDetail(w) \/ QueryRefund(w) \/ FinalizeRefundFailed(w)
        PROVE FALSE
    BY <2>5 DEF MarkRefundOk, PendingWrite, PendingAudit, MarkFailed,
                LatestRefundPendingDetail, QueryRefund, FinalizeRefundFailed
  <2>6. CASE Spend \/ Settle
    BY <2>6 DEF Spend, Settle
  <2> QED
    BY <2>1, <2>2, <2>3, <2>4, <2>5, <2>6 DEF Next, Step
<1>4. IInv /\ SkipsDeduction /\ [Next]_vars => [More => Final]_vars
  BY <1>3
<1> QED
  BY <1>1, <1>2, <1>4, Invariance, PTL DEF Spec
=============================================================================
