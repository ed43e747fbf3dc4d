----------------------- MODULE PaymentFulfillmentProofs -----------------------
(***************************************************************************)
(* Safety of PaymentFulfillment for any set of workers and any number of   *)
(* faults.                                                                 *)
(***************************************************************************)
EXTENDS PaymentFulfillment, TLAPS

(* Membership in the enumerations, stated once so that the provers need not
   expand them in every step. *)

\* Every step a handler is sent to is one of Steps.
LEMMA StepFacts ==
  /\ "idle" \in Steps /\ "fail" \in Steps /\ "invoke" \in Steps
  /\ "details" \in Steps /\ "create_failed" \in Steps /\ "query" \in Steps
  /\ "persist" \in Steps /\ "cancel_payment" \in Steps /\ "cancel" \in Steps
  /\ "confirm" \in Steps /\ "to_paid" \in Steps /\ "already" \in Steps
  /\ "fulfill" \in Steps /\ "acquire" \in Steps /\ "acquire_miss" \in Steps
  /\ "reload" \in Steps /\ "lookup" \in Steps /\ "create_code" \in Steps
  /\ "lock" \in Steps /\ "check" \in Steps /\ "credit" \in Steps
  /\ "assign_check" \in Steps /\ "assign_new" \in Steps /\ "assign_recovered" \in Steps
  /\ "rebate_scan" \in Steps /\ "rebate_tx" \in Steps /\ "complete" \in Steps
  /\ "complete_miss" \in Steps
  BY DEF Steps, EarlySteps, LeaseSteps

\* Every handler that starts is one of Tasks.
LEMMA TaskFacts ==
  /\ "none" \in Tasks /\ "create" \in Tasks /\ "webhook" \in Tasks
  /\ "webhook_short" \in Tasks /\ "cancel" \in Tasks /\ "expire" \in Tasks
  /\ "reconcile" \in Tasks /\ "fulfill" \in Tasks
  BY DEF Tasks

\* Every status a handler writes is one of OrderStatuses.
LEMMA StatusFacts ==
  /\ "PENDING" \in OrderStatuses /\ "PAID" \in OrderStatuses /\ "RECHARGING" \in OrderStatuses
  /\ "COMPLETED" \in OrderStatuses /\ "EXPIRED" \in OrderStatuses /\ "CANCELLED" \in OrderStatuses
  /\ "FAILED" \in OrderStatuses
  /\ RefundStatuses \subseteq OrderStatuses
  BY DEF OrderStatuses

\* The other statuses are no refund statuses, and there are no more.
LEMMA NoRefundFacts ==
  /\ {"PENDING", "PAID", "RECHARGING", "COMPLETED", "EXPIRED", "CANCELLED", "FAILED"}
       \cap RefundStatuses = {}
  /\ \A s \in OrderStatuses :
       s \in {"PENDING", "CANCELLED", "EXPIRED", "COMPLETED"} \cup Fulfillable
              \cup RefundStatuses
  BY DEF OrderStatuses, RefundStatuses, Fulfillable

\* Every audit row a handler inserts is one of AuditActions.
LEMMA AuditFacts ==
  /\ "SUBSCRIPTION_ASSIGNED" \in AuditActions /\ "SUBSCRIPTION_SUCCESS" \in AuditActions
  /\ "RECHARGE_SUCCESS" \in AuditActions /\ "AFFILIATE_REBATE_APPLIED" \in AuditActions
  /\ "AFFILIATE_REBATE_SKIPPED" \in AuditActions /\ "PAYMENT_AFTER_EXPIRY" \in AuditActions
  BY DEF AuditActions

\* No step of any handler, failed or not, leaves the types.
LEMMA TypeStep == TypeOK /\ [Next]_vars => TypeOK'
<1> SUFFICES ASSUME TypeOK, [Next]_vars PROVE TypeOK'
  OBVIOUS
<1> USE FaultsAssumption, StepFacts, TaskFacts, StatusFacts, AuditFacts
    DEF TypeOK, Write, NoWrite, Goto, Begin, FoundPaid, Leave, Return, Other,
        rowVars, codeVars, effectVars, provVars
<1>1. CASE UNCHANGED vars
  BY <1>1 DEF vars
<1>2. ASSUME NEW w \in Workers, Start(w) PROVE TypeOK'
  BY <1>2 DEF Start, Webhook, WebhookShort, CancelOrder, ExpireTimedOutOrder,
              ReconcilePaid, RetryFulfillment
<1>3. ASSUME NEW w \in Workers, Step(w) PROVE TypeOK'
  <2>1. CASE InvokeProvider(w) \/ SaveDetails(w) \/ FailCreate(w)
    BY <2>1 DEF InvokeProvider, SaveDetails, FailCreate
  <2>2. CASE QueryOrder(w) \/ PersistTradeNo(w) \/ CancelPayment(w) \/ CancelCore(w)
    BY <2>2 DEF QueryOrder, PersistTradeNo, CancelPayment, CancelCore, CancelStatus
  <2>3. CASE ConfirmPayment(w) \/ ToPaid(w) \/ AlreadyProcessed(w)
    BY <2>3 DEF ConfirmPayment, ToPaid, AlreadyProcessed, Swallow
  <2>4. CASE ExecuteFulfillment(w) \/ AcquireLease(w) \/ AcquireMissed(w)
    BY <2>4 DEF ExecuteFulfillment, AcquireLease, AcquireMissed
  <2>5. CASE ReloadLease(w) \/ MarkCompleted(w) \/ CompletionMissed(w) \/ MarkFailed(w)
    BY <2>5 DEF ReloadLease, MarkCompleted, CompletionMissed, MarkFailed, SuccessAction
  <2>6. CASE LookupCode(w) \/ CreateCode(w) \/ AcquireRedeemLock(w) \/ CheckCode(w)
    BY <2>6 DEF LookupCode, CreateCode, AcquireRedeemLock, CheckCode, resolveRedeemAction
  <2>7. CASE UseCode(w) \/ CheckAssigned(w) \/ AssignSubscription(w)
    BY <2>7 DEF UseCode, CheckAssigned, AssignSubscription
  <2>8. CASE ScanRebate(w) \/ ApplyRebate(w)
    BY <2>8 DEF ScanRebate, ApplyRebate
  <2> QED
    BY <1>3, <2>1, <2>2, <2>3, <2>4, <2>5, <2>6, <2>7, <2>8 DEF Step
<1>4. ASSUME NEW w \in Workers, CallFails(w) \/ Crash(w) PROVE TypeOK'
  BY <1>4 DEF CallFails, Crash, Swallow
<1>5. CASE Environment
  BY <1>5, RefundAssumption DEF Environment, UserPays, Age, BecomeDue,
                                RedeemLockExpires, RefundStep, ProviderLookupFails
<1> QED
  BY <1>1, <1>2, <1>3, <1>4, <1>5 DEF Next

\* The values of all variables keep their shape: no handler, whatever it meets,
\* writes a status, a step or an audit action outside its enumeration.
THEOREM TypeCorrect == Spec => []TypeOK
<1>1. Init => TypeOK
  BY FaultsAssumption, StepFacts, TaskFacts, StatusFacts DEF Init, TypeOK
<1> QED
  BY <1>1, TypeStep, PTL DEF Spec

-----------------------------------------------------------------------------
(* The inductive invariant *)

CreateSteps == {"invoke", "details", "create_failed"}
QuerySteps  == {"query", "cancel_payment", "cancel"}

\* Steps a handler may be at without the provider having the money.
BeforePaid == {"idle", "confirm"} \cup CreateSteps \cup QuerySteps

BalanceSteps   == {"lookup", "create_code", "lock", "check", "credit"}
DeliveredSteps == {"rebate_scan", "rebate_tx", "complete", "complete_miss"}

\* Every effect is counted by the row that guards it: the redeem code, and the
\* unique audit rows.
Counters ==
  /\ credited = IF code = "used" THEN 1 ELSE 0
  /\ subs = IF "SUBSCRIPTION_ASSIGNED" \in audit THEN 1 ELSE 0
  /\ rebates = IF "AFFILIATE_REBATE_APPLIED" \in audit THEN 1 ELSE 0
  /\ mails = IF SuccessAction \in audit THEN 1 ELSE 0

\* A balance order touches only its code, a subscription order only its
\* subscription.
ByType ==
  /\ orderType = "subscription" => code = "none"
  /\ orderType = "balance" => /\ "SUBSCRIPTION_ASSIGNED" \notin audit
                              /\ "SUBSCRIPTION_SUCCESS" \notin audit
  /\ "SUBSCRIPTION_SUCCESS" \in audit => "SUBSCRIPTION_ASSIGNED" \in audit
  /\ \A w \in Workers :
       /\ pc[w] \in BalanceSteps => orderType = "balance"
       /\ pc[w] \in {"assign_check", "assign_new"} => orderType = "subscription"
       /\ pc[w] # "assign_recovered"

\* A worker gets to the rebate only after the hand-over, and to the completion
\* only after the rebate.
Progress ==
  /\ \A w \in Workers :
       /\ pc[w] \in DeliveredSteps => Delivered
       /\ pc[w] \in {"complete", "complete_miss"} => RebateSettled
  /\ RebateSettled => Delivered
  /\ CompletedIsDelivered

\* Past confirmPayment the provider has the money.
Money ==
  /\ \A w \in Workers :
       /\ pc[w] \in BeforePaid \/ upstream = "paid"
       /\ pc[w] = "confirm" /\ task[w] # "webhook_short" => upstream = "paid"
  /\ Delivered \/ paidAt = "set" \/ status \in {"PAID", "RECHARGING"} \/ Settled
       => upstream = "paid"
  /\ PaidIsNotCancelled

\* One worker creates the order at the provider, and the user cannot pay
\* before it is done.
Creation ==
  /\ \A w \in Workers : pc[w] \in CreateSteps => task[w] = "create" /\ link = "none"
  /\ \A v, w \in Workers : pc[v] \in CreateSteps /\ pc[w] \in CreateSteps => v = w
  /\ link = "none" => upstream # "paid"

\* A webhook returns nil only from a settled order or a recorded late payment.
Acks ==
  /\ AckedIsSettled
  /\ \A w \in Workers :
       /\ pc[w] \in QuerySteps => task[w] \in {"cancel", "expire", "reconcile"}
       /\ pc[w] = "already" => status \notin {"PENDING", "CANCELLED"}

IInv == TypeOK /\ Counters /\ ByType /\ Progress /\ Money /\ Creation /\ Acks

\* What the steps of the handlers and of the environment preserve besides the
\* types.
Safe == Counters /\ ByType /\ Progress /\ Money /\ Creation /\ Acks

\* A running handler's next step preserves the invariant, one case per step.
LEMMA HandlerStep == ASSUME NEW w \in Workers, IInv, Step(w) PROVE Safe'
<1> USE NoRefundFacts
    DEF Write, NoWrite, Goto, FoundPaid, Leave, Return, Other, rowVars, codeVars,
        effectVars, provVars, IInv, Safe, TypeOK, Counters, ByType, Progress,
        Money, Creation, Acks, CreateSteps, QuerySteps, BeforePaid, BalanceSteps,
        DeliveredSteps, SuccessAction, Delivered, RebateSettled,
        CompletedIsDelivered, Settled, psIsRefundStatus, PaidIsNotCancelled,
        AckedIsSettled
<1>1. CASE InvokeProvider(w)
  BY <1>1 DEF InvokeProvider
<1>2. CASE SaveDetails(w)
  BY <1>2 DEF SaveDetails
<1>3. CASE FailCreate(w)
  BY <1>3 DEF FailCreate
<1>4. CASE QueryOrder(w)
  BY <1>4 DEF QueryOrder
<1>5. CASE PersistTradeNo(w)
  BY <1>5 DEF PersistTradeNo
<1>6. CASE CancelPayment(w)
  BY <1>6 DEF CancelPayment
<1>7. CASE CancelCore(w)
  BY <1>7 DEF CancelCore, Cancellable, CancelStatus
<1>8. CASE ConfirmPayment(w)
  BY <1>8 DEF ConfirmPayment
<1>9. CASE ToPaid(w)
  BY <1>9 DEF ToPaid, Payable
<1>10. CASE AlreadyProcessed(w)
  BY <1>10 DEF AlreadyProcessed, Swallow, Fulfillable
<1>11. CASE ExecuteFulfillment(w)
  BY <1>11 DEF ExecuteFulfillment, Fulfillable
<1>12. CASE AcquireLease(w)
  BY <1>12 DEF AcquireLease, Leasable
<1>13. CASE AcquireMissed(w)
  BY <1>13 DEF AcquireMissed, MissIsFine
<1>14. CASE ReloadLease(w)
  BY <1>14 DEF ReloadLease
<1>15. CASE MarkCompleted(w)
  BY <1>15 DEF MarkCompleted, HoldsLease
<1>16. CASE CompletionMissed(w)
  BY <1>16 DEF CompletionMissed
<1>17. CASE MarkFailed(w)
  BY <1>17 DEF MarkFailed, HoldsLease
<1>18. CASE LookupCode(w)
  BY <1>18 DEF LookupCode, resolveRedeemAction
<1>19. CASE CreateCode(w)
  BY <1>19 DEF CreateCode
<1>20. CASE AcquireRedeemLock(w)
  BY <1>20 DEF AcquireRedeemLock
<1>21. CASE CheckCode(w)
  BY <1>21 DEF CheckCode
<1>22. CASE UseCode(w)
  BY <1>22 DEF UseCode, Usable
<1>23. CASE CheckAssigned(w)
  BY <1>23 DEF CheckAssigned, Assigned
<1>24. CASE AssignSubscription(w)
  BY <1>24 DEF AssignSubscription
<1>25. CASE ScanRebate(w)
  BY <1>25 DEF ScanRebate
<1>26. CASE ApplyRebate(w)
  BY <1>26 DEF ApplyRebate
<1> QED
  BY Step(w), <1>1, <1>2, <1>3, <1>4, <1>5, <1>6, <1>7, <1>8, <1>9, <1>10,
     <1>11, <1>12, <1>13, <1>14, <1>15, <1>16, <1>17, <1>18, <1>19, <1>20,
     <1>21, <1>22, <1>23, <1>24, <1>25, <1>26 DEF Step

\* So do the start, the failure and the crash of a handler, and the environment.
LEMMA OtherStep ==
  ASSUME IInv,
         \/ \E w \in Workers : Start(w) \/ CallFails(w) \/ Crash(w)
         \/ Environment
         \/ UNCHANGED vars
  PROVE  Safe'
<1> USE NoRefundFacts
    DEF Write, NoWrite, Goto, Begin, Leave, Return, Other, rowVars, codeVars,
        effectVars, provVars, IInv, Safe, TypeOK, Counters, ByType, Progress,
        Money, Creation, Acks, CreateSteps, QuerySteps, BeforePaid, BalanceSteps,
        DeliveredSteps, SuccessAction, Delivered, RebateSettled,
        CompletedIsDelivered, Settled, psIsRefundStatus, PaidIsNotCancelled,
        AckedIsSettled
<1>1. ASSUME NEW w \in Workers, Start(w) PROVE Safe'
  BY <1>1 DEF Start, Webhook, WebhookShort, CancelOrder, ExpireTimedOutOrder,
              ReconcilePaid, RetryFulfillment, Retryable
<1>2. ASSUME NEW w \in Workers, CallFails(w) PROVE Safe'
  BY <1>2 DEF CallFails, Swallow, LeaseSteps
<1>3. ASSUME NEW w \in Workers, Crash(w) PROVE Safe'
  BY <1>3 DEF Crash
<1>4. CASE UserPays
  BY <1>4 DEF UserPays
<1>5. CASE Age
  BY <1>5 DEF Age
<1>6. CASE BecomeDue
  BY <1>6 DEF BecomeDue
<1>7. CASE RedeemLockExpires
  BY <1>7 DEF RedeemLockExpires
<1>8. CASE RefundStep
  BY <1>8, RefundAssumption DEF RefundStep
<1>9. CASE ProviderLookupFails
  BY <1>9 DEF ProviderLookupFails
<1>10. CASE UNCHANGED vars
  BY <1>10 DEF vars
<1> QED
  BY <1>1, <1>2, <1>3, <1>4, <1>5, <1>6, <1>7, <1>8, <1>9, <1>10 DEF Environment

\* The invariant holds in every reachable state, for any number of workers
\* that take over, repeat, fail and crash in any order.
THEOREM Invariance == Spec => []IInv
<1>1. Init => IInv
  <2> SUFFICES ASSUME Init PROVE IInv
    OBVIOUS
  <2>1. TypeOK
    BY FaultsAssumption, StepFacts, TaskFacts, StatusFacts DEF Init, TypeOK
  <2>2. Safe
    BY NoRefundFacts
    DEF Init, Safe, Counters, ByType, Progress, Money, Creation, Acks, CreateSteps,
        QuerySteps, BeforePaid, BalanceSteps, DeliveredSteps, SuccessAction,
        Delivered, RebateSettled, CompletedIsDelivered, Settled, psIsRefundStatus,
        PaidIsNotCancelled, AckedIsSettled
  <2> QED
    BY <2>1, <2>2 DEF IInv, Safe
<1>2. IInv /\ [Next]_vars => IInv'
  <2> SUFFICES ASSUME IInv, [Next]_vars PROVE IInv'
    OBVIOUS
  <2>1. TypeOK'
    BY TypeStep DEF IInv
  <2>2. Safe'
    BY HandlerStep, OtherStep DEF Next
  <2> QED
    BY <2>1, <2>2 DEF IInv, Safe
<1> QED
  BY <1>1, <1>2, PTL DEF Spec

\* However often notifications, takeovers and retries repeat a fulfilment, the
\* user is credited, the rebate accrued and the mail sent at most once.
THEOREM EffectsAtMostOnce == Spec => []AtMostOnce
<1>1. IInv => AtMostOnce
  BY DEF IInv, Counters, AtMostOnce
<1> QED
  BY <1>1, Invariance, PTL

\* No hand-over, rebate or PAID status without the provider having the money.
THEOREM NoDeliveryUnpaid == Spec => []NothingWithoutPayment
<1>1. IInv => NothingWithoutPayment
  BY DEF IInv, TypeOK, Counters, Progress, Money, NothingWithoutPayment, RebateSettled
<1> QED
  BY <1>1, Invariance, PTL

\* A completed order was handed over and its rebate settled.
THEOREM CompletionIsReal == Spec => []CompletedIsDelivered
<1>1. IInv => CompletedIsDelivered
  BY DEF IInv, Progress
<1> QED
  BY <1>1, Invariance, PTL

\* An order whose payment was confirmed is never left cancelled or expired.
THEOREM PaidStaysPaid == Spec => []PaidIsNotCancelled
<1>1. IInv => PaidIsNotCancelled
  BY DEF IInv, Money
<1> QED
  BY <1>1, Invariance, PTL

\* A 2xx that hides no failed call is sent only when nothing is left to do for
\* the notification: the order is settled or the late payment is on record.
THEOREM AcksAreEarned == Spec => []AckedIsSettled
<1>1. IInv => AckedIsSettled
  BY DEF IInv, Acks
<1> QED
  BY <1>1, Invariance, PTL

\* The failed calls a 2xx can hide: the provider lookup of handleNotify, and in
\* confirmPayment and alreadyProcessed the read of the order or the insert of
\* the late payment's audit row.
HiddenFailure ==
  /\ faults' = faults + 1
  /\ \/ ProviderLookupFails
     \/ \E w \in Workers : pc[w] \in {"confirm", "already"} /\ pc'[w] = "idle"

\* The step that first answers a notification with a 2xx leaves a settled order
\* or a recorded late payment, or hides one of those failed calls: no other
\* failure, crash or takeover ends the provider's redelivery early.
THEOREM AcksOrHiddenFailures ==
  Spec => [][ack = "no" /\ ack' # "no"
               => \/ (Settled \/ "PAYMENT_AFTER_EXPIRY" \in audit)'
                  \/ HiddenFailure]_vars
<1> DEFINE Swallows == ack = "no" /\ ack' = "swallowed"
<1>1. ASSUME IInv, Next, Swallows PROVE HiddenFailure
  <2> USE <1>1 DEF Goto, FoundPaid, Begin, Leave, Return, IInv, TypeOK
  <2>1. ASSUME NEW w \in Workers, Start(w) \/ Crash(w) PROVE FALSE
    BY <2>1 DEF Start, Webhook, WebhookShort, CancelOrder, ExpireTimedOutOrder,
                ReconcilePaid, RetryFulfillment, Crash
  <2>2. ASSUME NEW w \in Workers, CallFails(w) PROVE HiddenFailure
    BY <2>2 DEF CallFails, Swallow, HiddenFailure
  <2>3. ASSUME NEW w \in Workers, AlreadyProcessed(w) PROVE HiddenFailure
    BY <2>3 DEF AlreadyProcessed, Swallow, HiddenFailure
  <2>4. ASSUME NEW w \in Workers,
               \/ InvokeProvider(w) \/ SaveDetails(w) \/ FailCreate(w)
               \/ QueryOrder(w) \/ PersistTradeNo(w) \/ CancelPayment(w) \/ CancelCore(w)
               \/ ConfirmPayment(w) \/ ToPaid(w)
        PROVE  FALSE
    BY <2>4 DEF InvokeProvider, SaveDetails, FailCreate, QueryOrder, PersistTradeNo,
                CancelPayment, CancelCore, ConfirmPayment, ToPaid
  <2>5. ASSUME NEW w \in Workers,
               \/ ExecuteFulfillment(w) \/ AcquireLease(w) \/ AcquireMissed(w)
               \/ ReloadLease(w) \/ MarkCompleted(w) \/ CompletionMissed(w)
               \/ MarkFailed(w)
        PROVE  FALSE
    BY <2>5 DEF ExecuteFulfillment, AcquireLease, AcquireMissed, ReloadLease,
                MarkCompleted, CompletionMissed, MarkFailed
  <2>6. ASSUME NEW w \in Workers,
               \/ LookupCode(w) \/ CreateCode(w) \/ AcquireRedeemLock(w)
               \/ CheckCode(w) \/ UseCode(w) \/ CheckAssigned(w)
               \/ AssignSubscription(w) \/ ScanRebate(w) \/ ApplyRebate(w)
        PROVE  FALSE
    BY <2>6 DEF LookupCode, CreateCode, AcquireRedeemLock, CheckCode, UseCode,
                CheckAssigned, AssignSubscription, ScanRebate, ApplyRebate
  <2>7. CASE UserPays \/ Age \/ BecomeDue \/ RedeemLockExpires \/ RefundStep
    BY <2>7 DEF UserPays, Age, BecomeDue, RedeemLockExpires, RefundStep
  <2>8. CASE ProviderLookupFails
    BY <2>8 DEF ProviderLookupFails, HiddenFailure
  <2> QED
    BY <2>1, <2>2, <2>3, <2>4, <2>5, <2>6, <2>7, <2>8 DEF Next, Step, Environment
<1>2. IInv /\ IInv' /\ [Next]_vars
        => [ack = "no" /\ ack' # "no"
              => \/ (Settled \/ "PAYMENT_AFTER_EXPIRY" \in audit)'
                 \/ HiddenFailure]_vars
  <2>1. IInv' => TypeOK' /\ AckedIsSettled'
    BY DEF IInv, Acks
  <2> QED
    BY <1>1, <2>1 DEF TypeOK, AckedIsSettled
<1> QED
  BY <1>2, Invariance, PTL DEF Spec

\* Every step maps to a step of the promise or leaves it alone.
LEMMA ContractStep ==
  ASSUME IInv, [Next]_vars PROVE [Contract!Next]_(Contract!contractVars)
<1> USE NoRefundFacts
    DEF Write, NoWrite, Goto, FoundPaid, Leave, Return, Other, rowVars, codeVars,
        effectVars, provVars, IInv, TypeOK, Counters, ByType, Progress, Money,
        Creation, CreateSteps, QuerySteps, BeforePaid, BalanceSteps, DeliveredSteps,
        Delivered, RebateSettled, CompletedIsDelivered, Settled, psIsRefundStatus,
        Contract!contractVars
<1>1. ASSUME NEW w \in Workers, Start(w) \/ CallFails(w) \/ Crash(w)
      PROVE UNCHANGED Contract!contractVars
  BY <1>1 DEF Start, Webhook, WebhookShort, CancelOrder, ExpireTimedOutOrder,
              ReconcilePaid, RetryFulfillment, Begin, CallFails, Swallow, Crash
<1>2. ASSUME NEW w \in Workers,
             InvokeProvider(w) \/ SaveDetails(w) \/ FailCreate(w) \/ CancelPayment(w)
      PROVE UNCHANGED Contract!contractVars
  BY <1>2 DEF InvokeProvider, SaveDetails, FailCreate, CancelPayment
<1>3. ASSUME NEW w \in Workers,
             \/ QueryOrder(w) \/ PersistTradeNo(w) \/ CancelCore(w)
             \/ ConfirmPayment(w) \/ ToPaid(w)
      PROVE UNCHANGED Contract!contractVars
  BY <1>3 DEF QueryOrder, PersistTradeNo, CancelCore, Cancellable, CancelStatus,
              ConfirmPayment, ToPaid, Payable
<1>4. ASSUME NEW w \in Workers, AlreadyProcessed(w)
      PROVE UNCHANGED Contract!contractVars
  BY <1>4 DEF AlreadyProcessed, Swallow
<1>5. ASSUME NEW w \in Workers,
             \/ ExecuteFulfillment(w) \/ AcquireLease(w) \/ AcquireMissed(w)
             \/ ReloadLease(w) \/ CompletionMissed(w) \/ MarkFailed(w)
      PROVE UNCHANGED Contract!contractVars
  BY <1>5 DEF ExecuteFulfillment, AcquireLease, Leasable, AcquireMissed, ReloadLease,
              CompletionMissed, MarkFailed, HoldsLease
<1>6. ASSUME NEW w \in Workers,
             \/ LookupCode(w) \/ CreateCode(w) \/ AcquireRedeemLock(w)
             \/ CheckCode(w) \/ CheckAssigned(w) \/ ScanRebate(w)
      PROVE UNCHANGED Contract!contractVars
  BY <1>6 DEF LookupCode, CreateCode, AcquireRedeemLock, CheckCode, CheckAssigned,
              ScanRebate
<1>7. ASSUME NEW w \in Workers, UseCode(w)
      PROVE Contract!HandOver \/ UNCHANGED Contract!contractVars
  BY <1>7 DEF UseCode, Usable, Contract!HandOver
<1>8. ASSUME NEW w \in Workers, AssignSubscription(w)
      PROVE Contract!HandOver \/ UNCHANGED Contract!contractVars
  BY <1>8 DEF AssignSubscription, Contract!HandOver
<1>9. ASSUME NEW w \in Workers, ApplyRebate(w)
      PROVE Contract!SettleRebate \/ UNCHANGED Contract!contractVars
  BY <1>9 DEF ApplyRebate, Contract!SettleRebate
<1>10. ASSUME NEW w \in Workers, MarkCompleted(w)
       PROVE Contract!Complete \/ UNCHANGED Contract!contractVars
  BY <1>10 DEF MarkCompleted, HoldsLease, SuccessAction, Contract!Complete
<1>11. CASE UserPays
  BY <1>11 DEF UserPays, Contract!Pay, Contract!Next
<1>12. CASE Age \/ BecomeDue \/ RedeemLockExpires \/ ProviderLookupFails \/ UNCHANGED vars
  BY <1>12 DEF Age, BecomeDue, RedeemLockExpires, ProviderLookupFails, vars
<1>13. CASE RefundStep
  BY <1>13, RefundAssumption DEF RefundStep
<1> QED
  BY <1>1, <1>2, <1>3, <1>4, <1>5, <1>6, <1>7, <1>8, <1>9, <1>10, <1>11, <1>12, <1>13
     DEF Next, Step, Environment, Contract!Next

\* The concurrent, failing, retried handlers implement the promise of
\* PaymentContract: hand over once after payment, settle the rebate once after
\* that, complete for good after both.
THEOREM Refinement == Spec => ImplementsContract
<1>1. Init => Contract!Init
  BY NoRefundFacts DEF Init, Contract!Init, RebateSettled, Settled, psIsRefundStatus
<1>2. IInv /\ [Next]_vars => [Contract!Next]_(Contract!contractVars)
  BY ContractStep
<1> QED
  BY <1>1, <1>2, Invariance, PTL DEF Spec, ImplementsContract, Contract!Spec

-----------------------------------------------------------------------------
(* The lease, when no fulfilment outlives it *)

\* The worker has claimed the lease and has not left the fulfilment yet.
Fulfilling(w) == pc[w] \in LeaseSteps \cup {"fail", "reload"}

\* The five minutes of the lease do not run out on a fulfilment in progress.
InTime == age = "fresh" /\ age' = "stale" => \A w \in Workers : ~Fulfilling(w)

\* One worker at a time is in the fulfilment, and the row says so.
Alone ==
  /\ \A v, w \in Workers : Fulfilling(v) /\ Fulfilling(w) => v = w
  /\ \A w \in Workers : Fulfilling(w) => status = "RECHARGING" /\ age = "fresh"
  /\ \A w \in current : Fulfilling(w)

\* A second worker gets in only over a stale RECHARGING row, and no other
\* handler takes the row out of RECHARGING: not CreateOrder's error path
\* either, whose order nobody can have paid.
LEMMA AloneStep == ASSUME IInv, Alone, [Next]_vars, InTime PROVE Alone'
<1> USE NoRefundFacts
    DEF Write, NoWrite, Goto, FoundPaid, Leave, Return, Other, rowVars, codeVars,
        effectVars, provVars, IInv, TypeOK, Alone, Fulfilling, LeaseSteps
<1>1. ASSUME NEW w \in Workers, Start(w) PROVE Alone'
  BY <1>1 DEF Start, Webhook, WebhookShort, CancelOrder, ExpireTimedOutOrder,
              ReconcilePaid, RetryFulfillment, Begin
<1>2. ASSUME NEW w \in Workers, CallFails(w) \/ Crash(w) PROVE Alone'
  BY <1>2 DEF CallFails, Crash, Swallow
<1>3. ASSUME NEW w \in Workers, InvokeProvider(w) \/ SaveDetails(w) PROVE Alone'
  BY <1>3 DEF InvokeProvider, SaveDetails
<1>4. ASSUME NEW w \in Workers, FailCreate(w) PROVE Alone'
  BY <1>4 DEF FailCreate, Creation, Money, CreateSteps
<1>5. ASSUME NEW w \in Workers,
             QueryOrder(w) \/ PersistTradeNo(w) \/ CancelPayment(w) \/ CancelCore(w)
      PROVE Alone'
  BY <1>5 DEF QueryOrder, PersistTradeNo, CancelPayment, CancelCore, Cancellable
<1>6. ASSUME NEW w \in Workers, ConfirmPayment(w) \/ ToPaid(w) \/ AlreadyProcessed(w)
      PROVE Alone'
  BY <1>6 DEF ConfirmPayment, ToPaid, Payable, AlreadyProcessed, Swallow
<1>7. ASSUME NEW w \in Workers,
             ExecuteFulfillment(w) \/ AcquireLease(w) \/ AcquireMissed(w)
      PROVE Alone'
  BY <1>7 DEF ExecuteFulfillment, AcquireLease, Leasable, AcquireMissed
<1>8. ASSUME NEW w \in Workers, ReloadLease(w) \/ CompletionMissed(w) PROVE Alone'
  BY <1>8 DEF ReloadLease, CompletionMissed
<1>9. ASSUME NEW w \in Workers, MarkCompleted(w) \/ MarkFailed(w) PROVE Alone'
  BY <1>9 DEF MarkCompleted, MarkFailed, HoldsLease
<1>10. ASSUME NEW w \in Workers,
              \/ LookupCode(w) \/ CreateCode(w) \/ AcquireRedeemLock(w)
              \/ CheckCode(w) \/ UseCode(w) \/ CheckAssigned(w)
       PROVE Alone'
  BY <1>10 DEF LookupCode, resolveRedeemAction, CreateCode, AcquireRedeemLock,
               CheckCode, UseCode, CheckAssigned
<1>11. ASSUME NEW w \in Workers, AssignSubscription(w) \/ ScanRebate(w) \/ ApplyRebate(w)
       PROVE Alone'
  BY <1>11 DEF AssignSubscription, ScanRebate, ApplyRebate
<1>12. CASE Age
  BY <1>12 DEF Age, InTime
<1>13. CASE \/ UserPays \/ BecomeDue \/ RedeemLockExpires \/ ProviderLookupFails
            \/ UNCHANGED vars
  BY <1>13 DEF UserPays, BecomeDue, RedeemLockExpires, ProviderLookupFails, vars
<1>14. CASE RefundStep
  BY <1>14 DEF RefundStep, psIsRefundStatus
<1> QED
  BY <1>1, <1>2, <1>3, <1>4, <1>5, <1>6, <1>7, <1>8, <1>9, <1>10, <1>11, <1>12,
     <1>13, <1>14 DEF Next, Step, Environment

\* Two workers hold the lease version of the row only after a fulfilment went
\* on for five minutes: as long as none does, acquirePaymentFulfillmentLease
\* and its read back of updated_at are a mutual exclusion, crashes, failed
\* calls and unconditional writes of the row included.
THEOREM LeaseExclusiveInTime == Spec /\ [][InTime]_vars => []OneLeaseOwner
<1>1. Init => Alone
  BY DEF Init, Alone, Fulfilling, LeaseSteps
<1>2. IInv /\ Alone /\ [Next]_vars /\ InTime => Alone'
  BY AloneStep
<1>3. Alone /\ UNCHANGED vars => Alone'
  BY DEF Alone, Fulfilling, vars, rowVars
<1>4. IInv /\ Alone /\ [Next]_vars /\ [InTime]_vars => Alone'
  BY <1>2, <1>3
<1>5. IInv /\ Alone => OneLeaseOwner
  BY DEF IInv, TypeOK, Alone, OneLeaseOwner
<1> QED
  BY <1>1, <1>4, <1>5, Invariance, PTL DEF Spec

-----------------------------------------------------------------------------
(* What the refunds find: the row of a settled order *)

\* Past the creation an order that left the unpaid statuses was confirmed by
\* toPaid, which stores the upstream trade number with paid_at; and while the
\* order is being created nobody can have confirmed it.
Confirmed ==
  /\ link = "sent" /\ status \notin {"PENDING", "CANCELLED", "EXPIRED"} => paidAt = "set"
  /\ paidAt = "set" => tradeNo = "upstream"
  /\ \A w \in Workers :
       pc[w] \in CreateSteps => status \in {"PENDING", "CANCELLED", "EXPIRED"}

\* Only toPaid takes an order with a link out of the unpaid statuses, and no
\* later write of payment_trade_no changes it back.
LEMMA ConfirmedStep == ASSUME IInv, Confirmed, [Next]_vars PROVE Confirmed'
<1> USE NoRefundFacts
    DEF Write, NoWrite, Goto, FoundPaid, Leave, Return, Other, rowVars, codeVars,
        effectVars, provVars, IInv, TypeOK, Confirmed, Creation, Money, CreateSteps,
        BeforePaid, QuerySteps
<1>1. ASSUME NEW w \in Workers, Start(w) \/ CallFails(w) \/ Crash(w) PROVE Confirmed'
  BY <1>1 DEF Start, Webhook, WebhookShort, CancelOrder, ExpireTimedOutOrder,
              ReconcilePaid, RetryFulfillment, Begin, CallFails, Crash, Swallow
<1>2. ASSUME NEW w \in Workers, InvokeProvider(w) \/ SaveDetails(w) \/ FailCreate(w)
      PROVE Confirmed'
  BY <1>2 DEF InvokeProvider, SaveDetails, FailCreate
<1>3. ASSUME NEW w \in Workers,
             QueryOrder(w) \/ PersistTradeNo(w) \/ CancelPayment(w) \/ CancelCore(w)
      PROVE Confirmed'
  BY <1>3 DEF QueryOrder, PersistTradeNo, CancelPayment, CancelCore, Cancellable,
              CancelStatus
<1>4. ASSUME NEW w \in Workers, ConfirmPayment(w) \/ ToPaid(w) \/ AlreadyProcessed(w)
      PROVE Confirmed'
  BY <1>4 DEF ConfirmPayment, ToPaid, Payable, AlreadyProcessed, Swallow
<1>5. ASSUME NEW w \in Workers,
             \/ ExecuteFulfillment(w) \/ AcquireLease(w) \/ AcquireMissed(w)
             \/ ReloadLease(w) \/ MarkCompleted(w) \/ CompletionMissed(w)
             \/ MarkFailed(w)
      PROVE Confirmed'
  BY <1>5 DEF ExecuteFulfillment, AcquireLease, Leasable, AcquireMissed, ReloadLease,
              MarkCompleted, CompletionMissed, MarkFailed, HoldsLease
<1>6. ASSUME NEW w \in Workers,
             \/ LookupCode(w) \/ CreateCode(w) \/ AcquireRedeemLock(w)
             \/ CheckCode(w) \/ UseCode(w) \/ CheckAssigned(w)
             \/ AssignSubscription(w) \/ ScanRebate(w) \/ ApplyRebate(w)
      PROVE Confirmed'
  BY <1>6 DEF LookupCode, resolveRedeemAction, CreateCode, AcquireRedeemLock,
              CheckCode, UseCode, CheckAssigned, AssignSubscription, ScanRebate,
              ApplyRebate
<1>7. CASE Environment \/ UNCHANGED vars
  BY <1>7 DEF Environment, UserPays, Age, BecomeDue, RedeemLockExpires, RefundStep,
              ProviderLookupFails, psIsRefundStatus, vars
<1> QED
  BY <1>1, <1>2, <1>3, <1>4, <1>5, <1>6, <1>7 DEF Next, Step

\* Once an order is settled no handler of the payment side changes what its
\* refunds rely on: type, status, paid_at and the trade number the provider
\* refunds by are changed by refund steps alone, though PersistTradeNo and
\* SaveDetails write the row whatever its status.
THEOREM SettledRowStays ==
  Spec => [][Settled => RefundStep \/ UNCHANGED <<orderType, status, paidAt, tradeNo>>]_vars
<1> DEFINE Row == <<orderType, status, paidAt, tradeNo>>
<1>1. Init => Confirmed
  BY DEF Init, Confirmed, CreateSteps
<1>2. IInv /\ Confirmed /\ [Next]_vars => Confirmed'
  BY ConfirmedStep
<1>3. ASSUME IInv, Confirmed, Next, Settled PROVE RefundStep \/ UNCHANGED Row
  <2> USE <1>3, NoRefundFacts
      DEF Write, NoWrite, Goto, FoundPaid, Leave, Return, Other, rowVars, codeVars,
          effectVars, provVars, IInv, TypeOK, Confirmed, Settled, psIsRefundStatus,
          Money, Creation, CreateSteps
  <2>1. ASSUME NEW w \in Workers, Start(w) \/ CallFails(w) \/ Crash(w)
        PROVE UNCHANGED Row
    BY <2>1 DEF Start, Webhook, WebhookShort, CancelOrder, ExpireTimedOutOrder,
                ReconcilePaid, RetryFulfillment, Begin, CallFails, Crash, Swallow
  <2>2. ASSUME NEW w \in Workers, InvokeProvider(w) \/ SaveDetails(w) \/ FailCreate(w)
        PROVE UNCHANGED Row
    BY <2>2 DEF InvokeProvider, SaveDetails, FailCreate
  <2>3. ASSUME NEW w \in Workers,
               QueryOrder(w) \/ PersistTradeNo(w) \/ CancelPayment(w) \/ CancelCore(w)
        PROVE UNCHANGED Row
    BY <2>3 DEF QueryOrder, PersistTradeNo, CancelPayment, CancelCore, Cancellable
  <2>4. ASSUME NEW w \in Workers, ConfirmPayment(w) \/ ToPaid(w) \/ AlreadyProcessed(w)
        PROVE UNCHANGED Row
    BY <2>4 DEF ConfirmPayment, ToPaid, Payable, AlreadyProcessed, Swallow
  <2>5. ASSUME NEW w \in Workers,
               \/ ExecuteFulfillment(w) \/ AcquireLease(w) \/ AcquireMissed(w)
               \/ ReloadLease(w) \/ MarkCompleted(w) \/ CompletionMissed(w)
               \/ MarkFailed(w)
        PROVE UNCHANGED Row
    BY <2>5 DEF ExecuteFulfillment, AcquireLease, Leasable, AcquireMissed, ReloadLease,
                MarkCompleted, CompletionMissed, MarkFailed, HoldsLease
  <2>6. ASSUME NEW w \in Workers,
               \/ LookupCode(w) \/ CreateCode(w) \/ AcquireRedeemLock(w)
               \/ CheckCode(w) \/ UseCode(w) \/ CheckAssigned(w)
               \/ AssignSubscription(w) \/ ScanRebate(w) \/ ApplyRebate(w)
        PROVE UNCHANGED Row
    BY <2>6 DEF LookupCode, CreateCode, AcquireRedeemLock, CheckCode, UseCode,
                CheckAssigned, AssignSubscription, ScanRebate, ApplyRebate
  <2>7. CASE Environment
    BY <2>7 DEF Environment, UserPays, Age, BecomeDue, RedeemLockExpires,
                ProviderLookupFails
  <2> QED
    BY <2>1, <2>2, <2>3, <2>4, <2>5, <2>6, <2>7 DEF Next, Step
<1>4. IInv /\ Confirmed /\ [Next]_vars
        => [Settled => RefundStep \/ UNCHANGED Row]_vars
  BY <1>3
<1> QED
  BY <1>1, <1>2, <1>4, Invariance, PTL DEF Spec
=============================================================================
