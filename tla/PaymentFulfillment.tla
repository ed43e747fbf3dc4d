-------------------------- MODULE PaymentFulfillment --------------------------
(***************************************************************************)
(* The life of one payment order, from the call that creates it at the     *)
(* provider to the step that marks it COMPLETED, under concurrent request  *)
(* handlers: provider webhooks (delivered late, twice, or again after an   *)
(* error), upstream queries by users and by the background job, cancels,   *)
(* expiry and administrators' retries.                                     *)
(*                                                                         *)
(* An action is one database statement or transaction, one Redis command   *)
(* or one provider call of a handler; handlers interleave between them and *)
(* may fail or crash there.  Everything the code keys by order id (the     *)
(* row, its redeem code, its subscription, its audit log) is that of the   *)
(* one order, so one order is enough.                                      *)
(*                                                                         *)
(* updated_at is written by every update of the row (the schema's          *)
(* UpdateDefault) and the code only asks two things of it: is it older     *)
(* than five minutes (age), and is it still the value a worker remembers  *)
(* as its lease version (w \in current).                                   *)
(***************************************************************************)
EXTENDS Naturals, FiniteSets, PaymentStatus

CONSTANTS
  Workers,      \* goroutines that run payment handlers, on any instance
  MaxFaults,    \* bound on crashes, failed calls and stalled fulfilments
  RefundMoves   \* the refund statuses that refunds of the order go through

ASSUME FaultsAssumption == MaxFaults \in Nat
ASSUME RefundAssumption == RefundMoves \subseteq RefundStatuses

VARIABLES
  orderType,    \* column order_type
  status,       \* column status
  paidAt,       \* column paid_at: "null" or "set"
  tradeNo,      \* column payment_trade_no: the one created, or the upstream's
  age,          \* updated_at is less than five minutes ago ("fresh") or not
  deadline,     \* expires_at is "ahead" or has "passed"
  current,      \* workers whose lease.version equals updated_at
  code,         \* the redeem code whose text is the order's recharge_code
  redeemLock,   \* the Redis lock on that code: "free" or "held"
  audit,        \* actions of the order's audit rows, unique by (order, action)
  credited,     \* times the order's amount was added to the user's balance
  subs,         \* subscriptions carrying the order's note
  rebates,      \* affiliate rebates accrued for the order
  mails,        \* success notifications sent
  upstream,     \* the provider's side of the payment
  link,         \* the payment link has been "sent" to the user or not
  ack,          \* the 2xx the provider got for the success notification: "no",
                \* "ok", or "swallowed" when it hides a failed call
  pc,           \* next step of each worker
  task,         \* the handler each worker runs
  seen,         \* payment_trade_no in the snapshot the handler read
  faults        \* faults so far

rowVars    == <<orderType, status, paidAt, tradeNo, age, deadline, current>>
codeVars   == <<code, redeemLock>>
effectVars == <<credited, subs, rebates, mails>>
provVars   == <<upstream, link>>
vars == <<rowVars, codeVars, audit, effectVars, provVars, ack,
          pc, task, seen, faults>>

AuditActions ==
  {"SUBSCRIPTION_ASSIGNED", "SUBSCRIPTION_SUCCESS", "RECHARGE_SUCCESS",
   "AFFILIATE_REBATE_APPLIED", "AFFILIATE_REBATE_SKIPPED",
   "PAYMENT_AFTER_EXPIRY"}

Tasks == {"none", "create", "webhook", "webhook_short", "cancel", "expire",
          "reconcile", "fulfill"}

\* Steps before a worker owns the fulfilment lease.
EarlySteps == {"invoke", "details", "create_failed", "query", "persist",
               "cancel_payment", "cancel", "confirm", "to_paid", "already",
               "fulfill", "acquire", "acquire_miss", "reload"}

\* Steps of doBalance and doSub, run under the lease.
LeaseSteps == {"lookup", "create_code", "lock", "check", "credit",
               "assign_check", "assign_new", "assign_recovered",
               "rebate_scan", "rebate_tx", "complete", "complete_miss"}

Steps == {"idle", "fail"} \cup EarlySteps \cup LeaseSteps

TypeOK ==
  /\ orderType \in {"balance", "subscription"}
  /\ status \in OrderStatuses
  /\ paidAt \in {"null", "set"}
  /\ tradeNo \in {"created", "upstream"}
  /\ age \in {"fresh", "stale"}
  /\ deadline \in {"ahead", "passed"}
  /\ current \subseteq Workers
  /\ code \in {"none", "unused", "used"}
  /\ redeemLock \in {"free", "held"}
  /\ audit \subseteq AuditActions
  /\ credited \in Nat /\ subs \in Nat /\ rebates \in Nat /\ mails \in Nat
  /\ upstream \in {"none", "unpaid", "paid", "closed"}
  /\ link \in {"none", "sent"}
  /\ ack \in {"no", "ok", "swallowed"}
  /\ pc \in [Workers -> Steps]
  /\ task \in [Workers -> Tasks]
  /\ seen \in [Workers -> {"created", "upstream"}]
  /\ faults \in 0..MaxFaults

-----------------------------------------------------------------------------
(* Helpers *)

\* An update of the row that sets status to s: updated_at becomes now, so no
\* remembered version equals it any more.
Write(s) ==
  /\ status' = s
  /\ age' = "fresh"
  /\ current' = {}

NoWrite == UNCHANGED <<status, age, current>>

Goto(w, step) == /\ pc' = [pc EXCEPT ![w] = step]
                 /\ UNCHANGED <<task, seen, ack>>

\* A handler starts; those that query upstream have read the trade number.
Begin(w, t, step) ==
  /\ pc[w] = "idle"
  /\ pc' = [pc EXCEPT ![w] = step]
  /\ task' = [task EXCEPT ![w] = t]
  /\ seen' = [seen EXCEPT ![w] = IF step = "query" THEN tradeNo ELSE "created"]
  /\ UNCHANGED ack

\* The query found the payment: from here on the caller does not matter, it
\* answers already_paid whatever becomes of the fulfilment.
FoundPaid(w, step) ==
  /\ pc' = [pc EXCEPT ![w] = step]
  /\ task' = [task EXCEPT ![w] = "fulfill"]
  /\ seen' = [seen EXCEPT ![w] = "created"]
  /\ UNCHANGED ack

\* A handler returns.  A webhook that returns nil is answered with a 2xx.
Leave(w, ok) ==
  /\ pc' = [pc EXCEPT ![w] = "idle"]
  /\ task' = [task EXCEPT ![w] = "none"]
  /\ seen' = [seen EXCEPT ![w] = "created"]
  /\ ack' = IF ok /\ task[w] = "webhook" /\ ack = "no" THEN "ok" ELSE ack

\* A handler returns without having written the row.
Return(w, ok) ==
  /\ Leave(w, ok)
  /\ current' = current \ {w}
  /\ UNCHANGED <<status, age>>

\* confirmPayment and alreadyProcessed return nil although their read of the
\* order, or the insert of the late payment's audit row, failed: the webhook is
\* answered with a 2xx.
Swallow(w) ==
  /\ pc' = [pc EXCEPT ![w] = "idle"]
  /\ task' = [task EXCEPT ![w] = "none"]
  /\ seen' = [seen EXCEPT ![w] = "created"]
  /\ ack' = IF task[w] = "webhook" /\ ack = "no" THEN "swallowed" ELSE ack
  /\ NoWrite

Other == UNCHANGED <<orderType, deadline>>

\* hasPaymentSubscriptionAssignmentAudit
Assigned == audit \cap {"SUBSCRIPTION_ASSIGNED", "SUBSCRIPTION_SUCCESS"} # {}

\* The audit rows that tryClaimAffiliateRebateAudit's NOT EXISTS looks for.
RebateSettled ==
  audit \cap {"AFFILIATE_REBATE_APPLIED", "AFFILIATE_REBATE_SKIPPED"} # {}

SuccessAction ==
  IF orderType = "subscription" THEN "SUBSCRIPTION_SUCCESS" ELSE "RECHARGE_SUCCESS"

\* What the user paid for has been handed over.
Delivered == IF orderType = "subscription" THEN subs > 0 ELSE credited > 0

-----------------------------------------------------------------------------
(* CreateOrder: createOrderInTx has inserted the PENDING row. *)

\* invokeProvider up to CreatePayment.  An error may hide that the provider
\* did create the payment; the user gets no link then.
InvokeProvider(w) ==
  /\ pc[w] = "invoke"
  /\ \E ok \in BOOLEAN, created \in BOOLEAN :
       /\ ok => created
       /\ upstream' = IF created THEN "unpaid" ELSE upstream
       /\ Goto(w, IF ok THEN "details" ELSE "create_failed")
  /\ UNCHANGED <<rowVars, codeVars, audit, effectVars, link, faults>>

\* invokeProvider from CreatePayment on: the unconditional UpdateOneID.
SaveDetails(w) ==
  /\ pc[w] = "details"
  /\ \/ /\ Write(status)
        /\ tradeNo' \in {"created", "upstream"}
        /\ link' = "sent"
        /\ Leave(w, TRUE)
     \/ /\ NoWrite
        /\ Goto(w, "create_failed")
        /\ UNCHANGED <<tradeNo, link>>
  /\ UNCHANGED <<paidAt, codeVars, audit, effectVars, upstream, faults>>
  /\ Other

\* CreateOrder's error path: status FAILED, whatever the row holds by now.
FailCreate(w) ==
  /\ pc[w] = "create_failed"
  /\ Write("FAILED")
  /\ Leave(w, FALSE)
  /\ UNCHANGED <<paidAt, tradeNo, codeVars, audit, effectVars, provVars, faults>>
  /\ Other

-----------------------------------------------------------------------------
(* Handlers start *)

\* handleNotify and HandlePaymentNotification: a success notification whose
\* provider was found and that was verified, as often as the provider sends one.
Webhook(w) ==
  /\ upstream = "paid"
  /\ Begin(w, "webhook", "confirm")
  /\ UNCHANGED <<rowVars, codeVars, audit, effectVars, provVars, faults>>

\* handleNotify when GetWebhookProviders fails: every provider but wxpay, whose
\* 400 is no answer at all for this model, gets a 2xx, and nobody looks at the
\* order.
ProviderLookupFails ==
  /\ upstream = "paid"
  /\ faults < MaxFaults /\ faults' = faults + 1
  /\ ack' = IF ack = "no" THEN "swallowed" ELSE ack
  /\ UNCHANGED <<rowVars, codeVars, audit, effectVars, provVars, pc, task, seen>>

\* A verified notification whose amount is not the order's.
WebhookShort(w) ==
  /\ upstream # "none"
  /\ Begin(w, "webhook_short", "confirm")
  /\ UNCHANGED <<rowVars, codeVars, audit, effectVars, provVars, faults>>

\* CancelOrder and AdminCancelOrder.
CancelOrder(w) ==
  /\ status = "PENDING"
  /\ Begin(w, "cancel", "query")
  /\ UNCHANGED <<rowVars, codeVars, audit, effectVars, provVars, faults>>

\* ExpireTimedOutOrders.
ExpireTimedOutOrder(w) ==
  /\ status = "PENDING" /\ deadline = "passed"
  /\ Begin(w, "expire", "query")
  /\ UNCHANGED <<rowVars, codeVars, audit, effectVars, provVars, faults>>

\* VerifyOrderByOutTradeNo and the resume-token lookup (PENDING or EXPIRED),
\* and ReconcilePendingPaymentOrders (PENDING).
ReconcilePaid(w) ==
  /\ status \in {"PENDING", "EXPIRED"}
  /\ Begin(w, "reconcile", "query")
  /\ UNCHANGED <<rowVars, codeVars, audit, effectVars, provVars, faults>>

\* Mutant: an order that was never paid can be retried.
RetryableUnpaid == ~psIsRefundStatus(status) /\ status \in Fulfillable

\* RetryFulfillment's checks.
Retryable == paidAt = "set" /\ ~psIsRefundStatus(status) /\ status \in Fulfillable

RetryFulfillment(w) ==
  /\ Retryable
  /\ Begin(w, "fulfill", "fulfill")
  /\ UNCHANGED <<rowVars, codeVars, audit, effectVars, provVars, faults>>

-----------------------------------------------------------------------------
(* checkPaidWithOptions and cancelCore *)

\* The provider's answer to QueryOrder: paid, not paid, or an error (no
\* provider, no reference, a failed call, an invalid amount twice).
QueryOrder(w) ==
  /\ pc[w] = "query"
  /\ \/ /\ upstream = "paid"
        /\ FoundPaid(w, IF seen[w] # "upstream" THEN "persist" ELSE "confirm")
        /\ NoWrite
     \/ /\ upstream # "paid"
        /\ task[w] # "reconcile"
        /\ Goto(w, "cancel_payment")
        /\ NoWrite
     \/ /\ task[w] # "reconcile"
        /\ Goto(w, "cancel")
        /\ NoWrite
     \/ /\ task[w] = "reconcile"
        /\ Return(w, TRUE)
  /\ UNCHANGED <<paidAt, tradeNo, codeVars, audit, effectVars, provVars, faults>>
  /\ Other

\* The upstream trade number is stored by an update with no status guard.
PersistTradeNo(w) ==
  /\ pc[w] = "persist"
  /\ \/ Write(status) /\ tradeNo' = "upstream"
     \/ NoWrite /\ UNCHANGED tradeNo
  /\ Goto(w, "confirm")
  /\ UNCHANGED <<paidAt, codeVars, audit, effectVars, provVars, faults>>
  /\ Other

\* CancelPayment of a CancelableProvider; its error is ignored.
CancelPayment(w) ==
  /\ pc[w] = "cancel_payment"
  /\ \/ upstream = "unpaid" /\ upstream' = "closed"
     \/ UNCHANGED upstream
  /\ Goto(w, "cancel")
  /\ UNCHANGED <<rowVars, codeVars, audit, effectVars, link, faults>>

\* Mutant: the update trusts the status read before the upstream query.
CancellableBlindly == TRUE

\* Mutant: a cancelled order gets a status the column does not know.
CancelStatusUnknown(w) == IF task[w] = "expire" THEN "TIMEOUT" ELSE "CANCELLED"

\* The WHERE clause and the new status of cancelCore's update.
Cancellable == status = "PENDING"
CancelStatus(w) == IF task[w] = "expire" THEN "EXPIRED" ELSE "CANCELLED"

CancelCore(w) ==
  /\ pc[w] = "cancel"
  /\ \/ /\ Cancellable
        /\ Write(CancelStatus(w))
        /\ Leave(w, TRUE)
     \/ /\ ~Cancellable
        /\ Return(w, TRUE)
  /\ UNCHANGED <<paidAt, tradeNo, codeVars, audit, effectVars, provVars, faults>>
  /\ Other

-----------------------------------------------------------------------------
(* confirmPayment, toPaid, alreadyProcessed *)

\* confirmPayment: a wrong provider, wrong metadata or a wrong amount ends in
\* an audit row and an error.
ConfirmPayment(w) ==
  /\ pc[w] = "confirm"
  /\ \/ /\ task[w] # "webhook_short"
        /\ Goto(w, "to_paid")
        /\ NoWrite
     \/ /\ task[w] = "webhook_short"
        /\ Return(w, FALSE)
  /\ UNCHANGED <<paidAt, tradeNo, codeVars, audit, effectVars, provVars, faults>>
  /\ Other

\* The WHERE clause of toPaid.
Payable == \/ status \in {"PENDING", "CANCELLED"}
           \/ status = "EXPIRED" /\ age = "fresh"

ToPaid(w) ==
  /\ pc[w] = "to_paid"
  /\ \/ /\ Payable
        /\ Write("PAID")
        /\ paidAt' = "set"
        /\ tradeNo' = "upstream"
        /\ Goto(w, "fulfill")
     \/ /\ ~Payable
        /\ NoWrite
        /\ Goto(w, "already")
        /\ UNCHANGED <<paidAt, tradeNo>>
  /\ UNCHANGED <<codeVars, audit, effectVars, provVars, faults>>
  /\ Other

\* What alreadyProcessed does with the status it reads.  A late payment is put
\* on record by writeAuditLog, which logs a failing insert and returns.
AlreadyProcessed(w) ==
  /\ pc[w] = "already"
  /\ \/ /\ status \in Fulfillable
        /\ Goto(w, "fulfill")
        /\ NoWrite
        /\ UNCHANGED <<audit, faults>>
     \/ /\ status = "EXPIRED"
        /\ audit' = audit \cup {"PAYMENT_AFTER_EXPIRY"}
        /\ Return(w, TRUE)
        /\ UNCHANGED faults
     \/ /\ status = "EXPIRED"
        /\ faults < MaxFaults /\ faults' = faults + 1
        /\ Swallow(w)
        /\ UNCHANGED audit
     \/ /\ status \notin Fulfillable \cup {"EXPIRED"}
        /\ Return(w, TRUE)
        /\ UNCHANGED <<audit, faults>>
  /\ UNCHANGED <<paidAt, tradeNo, codeVars, effectVars, provVars>>
  /\ Other

-----------------------------------------------------------------------------
(* executeFulfillment, the lease, markCompleted and markFailed *)

\* executeFulfillment and the reads at the head of Execute*Fulfillment.
ExecuteFulfillment(w) ==
  /\ pc[w] = "fulfill"
  /\ \/ /\ status = "COMPLETED"
        /\ Return(w, TRUE)
     \/ /\ status \in Fulfillable
        /\ Goto(w, "acquire")
        /\ NoWrite
     \/ /\ status \notin Fulfillable \cup {"COMPLETED"}
        /\ Return(w, FALSE)
  /\ UNCHANGED <<paidAt, tradeNo, codeVars, audit, effectVars, provVars, faults>>
  /\ Other

\* Mutant: a stale lease is never taken over.
LeasableWithoutTakeover == status \in {"PAID", "FAILED"}

\* Mutant: the claim does not check the status again.
LeasableBlindly == status # "RECHARGING" \/ age = "stale"

\* The WHERE clause of acquirePaymentFulfillmentLease.
Leasable == \/ status \in {"PAID", "FAILED"}
            \/ status = "RECHARGING" /\ age = "stale"

AcquireLease(w) ==
  /\ pc[w] = "acquire"
  /\ \/ /\ Leasable
        /\ Write("RECHARGING")
        /\ Goto(w, "reload")
     \/ /\ ~Leasable
        /\ NoWrite
        /\ Goto(w, "acquire_miss")
  /\ UNCHANGED <<paidAt, tradeNo, codeVars, audit, effectVars, provVars, faults>>
  /\ Other

\* Mutant: a fulfilment in progress counts as done.
MissIsFineInProgress == status \in {"COMPLETED", "RECHARGING"}

\* No row was updated: nil if someone completed the order, else a conflict.
MissIsFine == status = "COMPLETED"

AcquireMissed(w) ==
  /\ pc[w] = "acquire_miss"
  /\ Return(w, MissIsFine)
  /\ UNCHANGED <<paidAt, tradeNo, codeVars, audit, effectVars, provVars, faults>>
  /\ Other

\* The claimed row is read back and its updated_at becomes the lease version.
ReloadLease(w) ==
  /\ pc[w] = "reload"
  /\ \/ /\ status = "RECHARGING"
        /\ current' = current \cup {w}
        /\ UNCHANGED <<status, age>>
        /\ Goto(w, IF orderType = "subscription" THEN "assign_check" ELSE "lookup")
     \/ /\ status # "RECHARGING"
        /\ Return(w, FALSE)
  /\ UNCHANGED <<paidAt, tradeNo, codeVars, audit, effectVars, provVars, faults>>
  /\ Other

\* The WHERE clause of markCompleted and markFailed.
HoldsLease(w) == status = "RECHARGING" /\ w \in current

MarkCompleted(w) ==
  /\ pc[w] = "complete"
  /\ \/ /\ HoldsLease(w)
        /\ Write("COMPLETED")
        /\ audit' = audit \cup {SuccessAction}
        /\ mails' = IF SuccessAction \in audit THEN mails ELSE mails + 1
        /\ Leave(w, TRUE)
     \/ /\ ~HoldsLease(w)
        /\ NoWrite
        /\ Goto(w, "complete_miss")
        /\ UNCHANGED <<audit, mails>>
  /\ UNCHANGED <<paidAt, tradeNo, codeVars, credited, subs, rebates, provVars,
                 faults>>
  /\ Other

CompletionMissed(w) ==
  /\ pc[w] = "complete_miss"
  /\ \/ /\ status = "COMPLETED"
        /\ Return(w, TRUE)
     \/ /\ status # "COMPLETED"
        /\ Goto(w, "fail")
        /\ NoWrite
  /\ UNCHANGED <<paidAt, tradeNo, codeVars, audit, effectVars, provVars, faults>>
  /\ Other

MarkFailed(w) ==
  /\ pc[w] = "fail"
  /\ \/ /\ HoldsLease(w)
        /\ Write("FAILED")
        /\ Leave(w, FALSE)
     \/ /\ ~HoldsLease(w)
        /\ Return(w, FALSE)
  /\ UNCHANGED <<paidAt, tradeNo, codeVars, audit, effectVars, provVars, faults>>
  /\ Other

-----------------------------------------------------------------------------
(* doBalance and the redeem service *)

\* Mutant: a code that exists is taken for a code that was redeemed.
resolveRedeemActionExists(c) == IF c = "none" THEN "create_code" ELSE "rebate_scan"

\* Skip to completion, redeem only, or create and redeem.
resolveRedeemAction(c) ==
  IF c = "none" THEN "create_code" ELSE IF c = "unused" THEN "lock" ELSE "rebate_scan"

\* GetByCode, resolveRedeemAction and validatePaymentRedeemCode.
LookupCode(w) ==
  /\ pc[w] = "lookup"
  /\ Goto(w, resolveRedeemAction(code))
  /\ UNCHANGED <<rowVars, codeVars, audit, effectVars, provVars, faults>>

\* CreateCode: the code column is unique, so a second insert fails.
CreateCode(w) ==
  /\ pc[w] = "create_code"
  /\ \/ code = "none" /\ code' = "unused" /\ Goto(w, "lock")
     \/ code # "none" /\ UNCHANGED code /\ Goto(w, "fail")
  /\ UNCHANGED <<rowVars, redeemLock, audit, effectVars, provVars, faults>>

\* acquireRedeemLock: taken, held by someone else, or Redis is in error and
\* the service goes on without the lock.
AcquireRedeemLock(w) ==
  /\ pc[w] = "lock"
  /\ \/ redeemLock = "free" /\ redeemLock' = "held" /\ Goto(w, "check")
     \/ redeemLock = "held" /\ UNCHANGED redeemLock /\ Goto(w, "fail")
     \/ UNCHANGED redeemLock /\ Goto(w, "check")
  /\ UNCHANGED <<rowVars, code, audit, effectVars, provVars, faults>>

\* redeem reads the code again; CanUse.  Every way out releases the lock.
CheckCode(w) ==
  /\ pc[w] = "check"
  /\ \/ code = "unused" /\ UNCHANGED redeemLock /\ Goto(w, "credit")
     \/ code # "unused" /\ redeemLock' = "free" /\ Goto(w, "fail")
  /\ UNCHANGED <<rowVars, code, audit, effectVars, provVars, faults>>

\* Mutant: the code is marked used by id alone.
UsableBlindly == TRUE

\* The WHERE clause of the repository's Use.
Usable == code = "unused"

\* redeem's transaction: Use (guarded by status = unused) and UpdateBalance.
\* The read after the commit may fail and turn a done credit into an error.
UseCode(w) ==
  /\ pc[w] = "credit"
  /\ redeemLock' = "free"
  /\ \/ /\ Usable
        /\ code' = "used"
        /\ credited' = credited + 1
        /\ \/ Goto(w, "rebate_scan") /\ UNCHANGED faults
           \/ Goto(w, "fail") /\ faults < MaxFaults /\ faults' = faults + 1
     \/ /\ ~Usable
        /\ Goto(w, "fail")
        /\ UNCHANGED <<code, credited, faults>>
  /\ UNCHANGED <<rowVars, audit, subs, rebates, mails, provVars>>

-----------------------------------------------------------------------------
(* doSub: ensurePaymentSubscriptionAssigned *)

\* The reads of the transaction: the assignment audit, then the order's note.
CheckAssigned(w) ==
  /\ pc[w] = "assign_check"
  /\ Goto(w, IF Assigned THEN "rebate_scan"
             ELSE IF subs > 0 THEN "assign_recovered" ELSE "assign_new")
  /\ UNCHANGED <<rowVars, codeVars, audit, effectVars, provVars, faults>>

\* The writes and the commit.  The unique (order_id, action) index makes the
\* insert of a second SUBSCRIPTION_ASSIGNED row roll the transaction back; it
\* is then found claimed.  Cache invalidation may fail after the commit.
AssignSubscription(w) ==
  /\ pc[w] \in {"assign_new", "assign_recovered"}
  /\ IF "SUBSCRIPTION_ASSIGNED" \in audit
     THEN UNCHANGED <<audit, subs>>
     ELSE /\ audit' = audit \cup {"SUBSCRIPTION_ASSIGNED"}
          /\ subs' = IF pc[w] = "assign_new" THEN subs + 1 ELSE subs
  /\ \/ Goto(w, "rebate_scan") /\ UNCHANGED faults
     \/ Goto(w, "fail") /\ faults < MaxFaults /\ faults' = faults + 1
  /\ UNCHANGED <<rowVars, codeVars, credited, rebates, mails, provVars>>

-----------------------------------------------------------------------------
(* applyAffiliateRebateForOrder *)

\* The NOT EXISTS of the claim, evaluated on the statement's snapshot.
ScanRebate(w) ==
  /\ pc[w] = "rebate_scan"
  /\ Goto(w, IF RebateSettled THEN "complete" ELSE "rebate_tx")
  /\ UNCHANGED <<rowVars, codeVars, audit, effectVars, provVars, faults>>

\* The rest of the transaction: the insert does nothing if an APPLIED row
\* appeared since; else the rebate is accrued, or skipped by renaming the
\* claimed row to SKIPPED, which fails if that row is there already.
ApplyRebate(w) ==
  /\ pc[w] = "rebate_tx"
  /\ \/ /\ "AFFILIATE_REBATE_APPLIED" \in audit
        /\ Goto(w, "complete")
        /\ UNCHANGED <<audit, rebates>>
     \/ /\ "AFFILIATE_REBATE_APPLIED" \notin audit
        /\ audit' = audit \cup {"AFFILIATE_REBATE_APPLIED"}
        /\ rebates' = rebates + 1
        /\ Goto(w, "complete")
     \/ /\ ~RebateSettled
        /\ audit' = audit \cup {"AFFILIATE_REBATE_SKIPPED"}
        /\ Goto(w, "complete")
        /\ UNCHANGED rebates
     \/ /\ "AFFILIATE_REBATE_SKIPPED" \in audit
        /\ "AFFILIATE_REBATE_APPLIED" \notin audit
        /\ Goto(w, "fail")
        /\ UNCHANGED <<audit, rebates>>
  /\ UNCHANGED <<rowVars, codeVars, credited, subs, mails, provVars, faults>>

-----------------------------------------------------------------------------
(* The environment: time, the user at the provider, faults, refunds *)

UserPays ==
  /\ link = "sent" /\ upstream = "unpaid"
  /\ upstream' = "paid"
  /\ UNCHANGED <<rowVars, codeVars, audit, effectVars, link, ack, pc, task,
                 seen, faults>>

\* Five minutes pass since the last update; only the tests of EXPIRED and of
\* RECHARGING rows look at it.  If a worker runs a fulfilment
\* meanwhile it is stalled, which counts as a fault.
Age ==
  /\ age = "fresh" /\ status \in {"EXPIRED", "RECHARGING"}
  /\ age' = "stale"
  /\ IF \A w \in Workers : pc[w] \notin LeaseSteps \cup {"fail", "reload"}
     THEN UNCHANGED faults
     ELSE faults < MaxFaults /\ faults' = faults + 1
  /\ UNCHANGED <<orderType, status, paidAt, tradeNo, deadline, current, codeVars,
                 audit, effectVars, provVars, ack, pc, task, seen>>

\* expires_at passes; only queries for PENDING orders look at it.
BecomeDue ==
  /\ deadline = "ahead" /\ status = "PENDING"
  /\ deadline' = "passed"
  /\ UNCHANGED <<orderType, status, paidAt, tradeNo, age, current,
                 codeVars, audit, effectVars, provVars, ack, pc, task, seen,
                 faults>>

\* The TTL of the Redis lock runs out.
RedeemLockExpires ==
  /\ redeemLock = "held"
  /\ redeemLock' = "free"
  /\ UNCHANGED <<rowVars, code, audit, effectVars, provVars, ack, pc, task,
                 seen, faults>>

\* A call of a handler fails: under the lease the worker goes on to markFailed,
\* before it (or in markFailed itself) the handler returns the error.
CallFails(w) ==
  /\ faults < MaxFaults
  /\ faults' = faults + 1
  /\ \/ /\ pc[w] \in LeaseSteps \ {"complete_miss"}
        /\ Goto(w, "fail")
        /\ redeemLock' = IF pc[w] \in {"check", "credit"} THEN "free" ELSE redeemLock
        /\ NoWrite
     \/ /\ pc[w] \in {"confirm", "to_paid", "fulfill", "acquire", "acquire_miss",
                       "reload", "fail"}
        /\ Return(w, FALSE)
        /\ UNCHANGED redeemLock
     \/ /\ pc[w] \in {"confirm", "already"}
        /\ Swallow(w)
        /\ UNCHANGED redeemLock
  /\ UNCHANGED <<paidAt, tradeNo, code, audit, effectVars, provVars>>
  /\ Other

\* The process dies, or the request's context is cancelled for good.
Crash(w) ==
  /\ pc[w] # "idle"
  /\ faults < MaxFaults
  /\ faults' = faults + 1
  /\ Return(w, FALSE)
  /\ UNCHANGED <<paidAt, tradeNo, codeVars, audit, effectVars, provVars>>
  /\ Other

\* The refund handlers move a completed order among the refund statuses and
\* back (module PaymentRefund).
RefundStep ==
  /\ status = "COMPLETED" \/ psIsRefundStatus(status)
  /\ \E s \in {"COMPLETED"} \cup RefundMoves : s # status /\ Write(s)
  /\ UNCHANGED <<paidAt, tradeNo, codeVars, audit, effectVars, provVars, ack,
                 pc, task, seen, faults>>
  /\ Other

-----------------------------------------------------------------------------
Init ==
  /\ orderType \in {"balance", "subscription"}
  /\ status = "PENDING"
  /\ paidAt = "null" /\ tradeNo = "created"
  /\ age = "fresh" /\ deadline = "ahead" /\ current = {}
  /\ code = "none" /\ redeemLock = "free"
  /\ audit = {}
  /\ credited = 0 /\ subs = 0 /\ rebates = 0 /\ mails = 0
  /\ upstream = "none" /\ link = "none" /\ ack = "no"
  /\ \E c \in Workers :
       /\ pc = [w \in Workers |-> IF w = c THEN "invoke" ELSE "idle"]
       /\ task = [w \in Workers |-> IF w = c THEN "create" ELSE "none"]
  /\ seen = [w \in Workers |-> "created"]
  /\ faults = 0

\* A handler starts.
Start(w) ==
  \/ Webhook(w) \/ WebhookShort(w) \/ CancelOrder(w)
  \/ ExpireTimedOutOrder(w) \/ ReconcilePaid(w) \/ RetryFulfillment(w)

\* A running handler takes its next step.
Step(w) ==
  \/ InvokeProvider(w) \/ SaveDetails(w) \/ FailCreate(w)
  \/ QueryOrder(w) \/ PersistTradeNo(w) \/ CancelPayment(w) \/ CancelCore(w)
  \/ ConfirmPayment(w) \/ ToPaid(w) \/ AlreadyProcessed(w)
  \/ ExecuteFulfillment(w) \/ AcquireLease(w) \/ AcquireMissed(w)
  \/ ReloadLease(w) \/ MarkCompleted(w) \/ CompletionMissed(w) \/ MarkFailed(w)
  \/ LookupCode(w) \/ CreateCode(w) \/ AcquireRedeemLock(w) \/ CheckCode(w)
  \/ UseCode(w) \/ CheckAssigned(w) \/ AssignSubscription(w)
  \/ ScanRebate(w) \/ ApplyRebate(w)

Environment == \/ UserPays \/ Age \/ BecomeDue \/ RedeemLockExpires \/ RefundStep
               \/ ProviderLookupFails

Next == \/ \E w \in Workers : Start(w) \/ Step(w) \/ CallFails(w) \/ Crash(w)
        \/ Environment

\* A webhook that has not been acknowledged is delivered again.
Redeliver == ack = "no" /\ \E w \in Workers : Webhook(w)

\* Handlers run on; time passes; Redis keys expire; the provider repeats an
\* unacknowledged notification; the expiry job runs every minute.  Nothing is
\* assumed of users and administrators.
Fairness ==
  /\ \A w \in Workers : WF_vars(Step(w))
  /\ WF_vars(Age) /\ WF_vars(BecomeDue) /\ WF_vars(RedeemLockExpires)
  /\ SF_vars(Redeliver)
  /\ SF_vars(\E w \in Workers : ExpireTimedOutOrder(w))

Spec == Init /\ [][Next]_vars
FairSpec == Spec /\ Fairness

-----------------------------------------------------------------------------
(* Properties *)

Settled == status = "COMPLETED" \/ psIsRefundStatus(status)

\* However often a notification is delivered, a lease is taken over or a
\* fulfilment is repeated after a failure or a crash, the user is credited (or
\* given a subscription) at most once, the inviter gets at most one rebate, and
\* at most one success mail goes out.
AtMostOnce == credited <= 1 /\ subs <= 1 /\ rebates <= 1 /\ mails <= 1

\* Nothing is handed over, and no order is PAID or beyond, unless the provider
\* has the money: amount checks and the paid_at guard of RetryFulfillment.
NothingWithoutPayment ==
  (Delivered \/ rebates > 0 \/ paidAt = "set" \/ status \in {"PAID", "RECHARGING"} \/ Settled)
     => upstream = "paid"

\* COMPLETED (and every refund status after it) means that the purchase was
\* handed over and its rebate settled, whichever of several overlapping
\* fulfilments marked it.
CompletedIsDelivered == Settled => Delivered /\ RebateSettled

\* A paid order is never left CANCELLED or EXPIRED by a cancel or an expiry
\* that raced the payment, nor PENDING again.
PaidIsNotCancelled == paidAt = "set" => status \notin {"PENDING", "CANCELLED", "EXPIRED"}

\* The provider is told to stop repeating a notification only when the order
\* is completed or the late payment is on record, or when the 2xx hides a failed
\* call ("swallowed"): the provider lookup of handleNotify, the read of the order
\* in confirmPayment or in alreadyProcessed, or the insert of the late payment's
\* audit row.  Whatever else fails, or is done by another worker, is not acked.
AckedIsSettled ==
  ack = "ok" => Settled \/ "PAYMENT_AFTER_EXPIRY" \in audit

\* The order as the service's promise sees it.
Contract == INSTANCE PaymentContract WITH
  paid <- upstream = "paid", handed <- credited + subs, settled <- RebateSettled,
  rebate <- rebates, completed <- Settled

\* The handlers, interleaved and failing in any order, implement the promise:
\* pay, hand over once, settle the rebate once, complete for good.
ImplementsContract == Contract!Spec

\* Two workers never both hold the lease version of the row.
OneLeaseOwner == \A v, w \in current : v = w

\* A payment the provider has is settled in the end, unless it came after the
\* grace period, which is recorded, or its notification was swallowed together
\* with a failed call (see AckedIsSettled).
PaidOrderSettles ==
  upstream = "paid" ~> (Settled \/ "PAYMENT_AFTER_EXPIRY" \in audit
                        \/ ack = "swallowed")

\* An order paid while PENDING is settled in the end.
PaidInTimeSettles == (upstream = "paid" /\ status = "PENDING") ~> Settled
=============================================================================
