# Verification of the money and admission core of gourd-api

gourd-api is a gateway that resells access to AI providers: users buy balance
or subscriptions, and API calls are billed against them. The code where a wrong
interleaving costs money or capacity is small compared with the gateway itself,
and this development covers its core: the payment order from its creation to its
completion, its refund, the idempotency coordinator that deduplicates write
requests, the batch image job with its balance hold, and the lease that caps the
open WebSocket connections of an API key.

All paths below are relative to `src/backend/internal/` unless they begin with
`src/`.

## 1. The system

| Component | State | Operations | Hard behaviour |
|---|---|---|---|
| Payment fulfilment (`service/payment_fulfillment.go`) | row of `payment_orders`, `payment_audit_logs` (unique by order and action) | notification → confirm → PAID → lease → deliver → rebate → COMPLETED, retry | duplicate and late webhooks, lease takeover after 5 minutes, crash between any two statements |
| Order lifecycle (`service/payment_order_lifecycle.go`, expiry job) | the same row, the payment at the provider | cancel, expire, reconcile, upstream query | a payment arriving while the order is cancelled or expired; failing queries |
| Order creation (`service/payment_order.go`) | the same row | insert, create payment, store details | the provider's answer is lost; unconditional FAILED |
| Redeem codes (`service/redeem_service.go`) | code row, Redis lock, balance | create, redeem | lock lost or Redis down; commit followed by an error |
| Refunds (`service/payment_refund.go`) | the order row, balance or subscription days, provider refunds | request, prepare, execute, query and finalize | stale plans, failed rollbacks, pending refunds, two administrators |
| Idempotency (`service/idempotency.go`, `repository/idempotency_repo.go`, cleanup job) | row of `idempotency_records` | create, read, reclaim, renew, mark, delete | expired locks, stale reads, requests that die |
| Batch image jobs (`service/batch_image_*.go`, `repository/batch_image_{repo,queue}.go`, `repository/usage_billing_repo.go`) | job row, balance and frozen balance, recorded billing requests, Redis queue and job lock, the provider's batch | submit, cancel, delete, work, settle, recover | hold captured or released once; workers that stop, stall or overlap; retries that run out; a cancel during the submit |
| WebSocket ingress lease (`service/concurrency_service.go`, `repository/concurrency_cache.go`) | Redis sorted set, a refresh loop per connection | acquire, refresh, release, loss | Redis unreachable, repeated and late calls, dead instances |
| Request slots, Live leases, user message queue | Redis sorted sets and locks | acquire, wait, release, clean up | slots of dead processes, wait limits |
| OAuth token refresh | credentials row, Redis lock | refresh | two refreshes of a rotating token |
| Scheduler snapshot, auth cache outbox | outbox table, cached buckets | poll, rebuild, invalidate | events lost or applied out of order |
| Usage billing of gateway requests | balance, dedup rows, caches | apply, flush | double billing on retry |
| Gateway, protocol translation, WebSocket pool, plugins, backup, prompt audit, frontend | mostly per request | forward, translate | network I/O |

How they interact: HTTP handlers, webhooks and minute jobs of several server
instances call the services as goroutines. They share no memory that matters
here, only PostgreSQL, Redis and the provider. A handler therefore is a sequence
of statements, and between two of them anything may happen. Most guards are
`UPDATE ... WHERE status = ...` with the number of affected rows as the answer.
The fulfilment calls the redeem service, the subscription service and the
affiliate service; the refund acts on an order the fulfilment completed; the
idempotency coordinator wraps administrators' write endpoints. A batch image job
is submitted by an HTTP request, handed to workers through a Redis queue, run by
a provider, and paid from a hold on the user's balance, which lives in the same
two columns as the holds of the user's other jobs. The ingress lease is taken by
the handler of `ResponsesWebSocket` and kept by a goroutine beside it.

What makes the components correct: goods are delivered once, and only against
money; the provider is told to stop repeating a notification only when nothing is
left to do; a paid order gets settled; a refund takes goods back once and only
for money returned; two requests do not run at once on one record of a key, and a
replay returns the result of the same request; a batch image job is charged when it
completes, refunded when it fails, never both, and ends; no more connections are
served than the cap allows, and capacity comes back from dead instances.
`PROJECT.json` lists the hazards line by
line with the properties that address them.

## 2. Modules

| Module | Models |
|---|---|
| `PaymentStatus` | the status column and its partitions |
| `PaymentContract` | abstract: pay, hand over once, settle the rebate, complete |
| `PaymentFulfillment` | creation, webhook, query, cancel, expiry, reconcile, lease, delivery, rebate, completion of one order |
| `MCPaymentFulfillment` | symmetry for TLC |
| `PaymentFulfillmentProofs` | type correctness, inductive invariant, safety, refinement of `PaymentContract`, the lease, the settled row |
| `PaymentRefund` | request, refund, rollback, pending refund and its finalization for one completed order |
| `MCPaymentRefund` | symmetry for TLC |
| `PaymentRefundProofs` | type correctness, inductive invariant, safety, goods in flight, retries |
| `IdempotencyContract` | abstract: a key with one payload, one execution after the other, results on record |
| `Idempotency` | `Execute`, the repository, lease renewal and cleanup for one key |
| `IdempotencyProofs` | type correctness, inductive invariant, safety, refinement of `IdempotencyContract`, repeated executions |
| `HoldContract` | abstract: a hold frozen once, spent for a price or given back, and a final verdict |
| `BatchImage` | submit, cancel, deletion, recovery, worker, settlement, queue, lock and hold of one batch image job |
| `BatchImageProofs` | type correctness, inductive invariant, safety, refinement of `HoldContract`, the leaked hold |
| `IngressLease` | acquire, refresh loop, release and Redis scripts of the WebSocket connections of one API key |
| `IngressLeaseProofs` | type correctness, inductive invariant, safety, an action property |

In the first three models a goroutine is a worker with a program counter `pc[w]`, an
action is one statement, one transaction, one Redis command or one provider call
(with the local computation up to the next), and `map` in `PROJECT.json` gives
the lines of each definition. Definitions named after mutations ("Mutant: ...")
are alternative forms of a guard; no action uses them, they document which bug
the properties would notice.

**PaymentFulfillment.** The row's columns are the variables `status`, `paidAt`,
`tradeNo`; `updated_at` is represented by the two questions the code asks of it:
is it older than five minutes (`age`; lease takeover and the grace period of
EXPIRED) and is it still the value a worker remembered (`w \in current`; the
lease version). Every update of the row renews it, so `Write` empties `current`.
`audit` is the set of actions on record. `credited`, `subs`, `rebates`, `mails`
count effects. A worker starts a handler (`Start`), takes its `Step`s, and may
have a call fail (`CallFails`) or die (`Crash`) at any of them. `Age` while a
worker is under way counts as a fault (a stalled worker). Transactions that read
a snapshot and write later are two actions where a concurrent commit can come
between (`CheckAssigned`/`AssignSubscription`, `ScanRebate`/`ApplyRebate`).
`ack = "swallowed"` marks a webhook whose 2xx hides a failed call. There are four
such places: the provider lookup (`handler/payment_webhook_handler.go:90-98`, for
every provider but WeChat Pay; action `ProviderLookupFails`), the reads of the order
in `confirmPayment` and `alreadyProcessed` (`payment_fulfillment.go:80-83` and
`:190-193` return nil), and the insert of the PAYMENT_AFTER_EXPIRY row (`:205`;
`writeAuditLog` only logs its error).

**PaymentRefund.** `avail` is the user's balance, or the days left of the
subscription the order bought; `taken` is the net amount taken back, `stranded`
the part taken by attempts that died (`Crash`), whose rollback failed
(`RollbackFails`, or a revoked subscription that cannot be extended again), or whose
deduction was committed and reported as failed (`DeductionUnconfirmed`: after its
commit `ExtendSubscription` reads the row back, `service/subscription_service.go:872-875`,
and `RevokeSubscription` invalidates caches, `:760-766`; the status is then restored
with the days gone, and no row says so). A rollback can be committed and reported as
failed in the same way. A plan is `amt`,
`take`, `back` (the status `restoreStatus` writes). `pendingId`/`pendingOK` are
the content of the only REFUND_PENDING audit row the unique index allows. The
provider keeps one refund per amount, as the clients key them by order and
amount. `raced` records that `finalizeRefundFailed`, an update with no
condition, overwrote a row that was no longer pending.

**Idempotency.** Times are distances from the present, so time passes without
bound in a finite state space: `lock` and `expiry` count down and saturate,
`lag[w]` is the age of the `now` the request computed on arrival and keeps
using. `link` is the set of requests whose record id is the row's, so that a row
deleted and created again is a different one. `late` is a history variable for
`ReplayedNotRepeated`. The cleanup is one SQL statement but not one step:
`SelectVictims` is its CTE, which picks expired rows on the statement's snapshot,
`DeleteVictims` its DELETE, which goes by id and under READ COMMITTED waits for a
concurrent update and deletes the row all the same (`repository/idempotency_repo.go:221-231`);
`victim` says that the row has been picked. An owner that is not in `link` executes
without a record.

**BatchImage.** The actors are `sub` (Submit), `usr` (the owner's Cancel), `rec`
(the billing recovery) and the workers `pc[w]`; an action is one transaction, one
Redis script or one provider call, and an actor that has read the row keeps what
it read in its step. `held`, `captured` and `released` are the rows of
`usage_billing_dedup`: a request whose id is claimed is answered as done.
`released = "skipped"` is a release that found no hold and used up its id.
`OtherFrozen` is what the user's other jobs have frozen, since capture and release
compare and change the frozen balance of the user as a whole. The queue is
`inflight` (the job's key), `ready`, `active` and `delayed` (its entries); `lock`
is the job lock. Timers appear as what they allow: a delay ends, an active entry
without heartbeats is recovered, a lock nobody refreshes expires (`late[w]`: the
worker's heartbeats have lapsed while it goes on), a Submit whose heartbeats
lapsed (`slow`) looks abandoned to the recovery. Reserve and capture may commit
and still be reported as failed.

`disturbed` is a history variable: it becomes "yes" when the lock of a worker
that still processes the job expires, when a capture that is on record is
reported as failed, or when `RecordBatchImageJobSubmitFailure` overwrites the error
code by which a settlement that has run out of retries is recognised. The code
has no answer to these three (a worker does not check its lock before it acts; the
release after exhausted retries does not ask for a capture), so the properties
about the outcome are stated for undisturbed jobs, and `MoneyConserved` and the
first half of `CompletedIsCharged` for all.

**IngressLease.** A member of the sorted set is represented by its age (`TTL` if
it has none or an expired one, which every script removes first), the handler
and its refresh loop by `conn`, a call to Redis by `call` (sent, or its answer)
and `wait`. `timer` is the ticker, `conf` the time since `lastConfirmedAt`. Time
advances for all at once (`Time`) and not past a ticker that has fired or a call
that has used up its time. A call may fail before or after Redis has executed it,
the client library may send it again (`Resend`), and a request whose caller has
given up stays in `late` until it is executed or lost.

## 3. Runs

| Run | Result | Bounds | States |
|---|---|---|---|
| `payment_fulfillment` | passes | 2 workers, 2 faults, refunds move to REFUNDING and REFUNDED, symmetry | 291,731 |
| `payment_liveness` | passes | 2 workers, 1 fault, `FairSpec`, no symmetry | 217,074 |
| `payment_lease_owner` | violated | 2 workers, 1 fault | |
| `payment_paid_in_time` | violated | 2 workers, no fault, `FairSpec` | |
| `payment_refund` | passes | 2 administrators, amount 2 (so partial refunds exist), balance 2 or 3 days, 1 fault, symmetry | 5,672,188 |
| `payment_refund_retry` | violated | 1 administrator, amount 1, balance 2 or 2 days, 1 fault | |
| `idempotency` | passes | 2 requests, 2 payloads, TTL 4, lock 2, backoff 1, wait 1, run 3, `FairSpec`, deadlock checked | 401,809 |
| `idempotency_replay` | violated | 2 requests, 1 payload, TTL 3 | |
| `idempotency_cleanup` | violated | 2 requests, 1 payload, TTL 3 | |
| `batch_image` | passes | 2 workers, hold 2, costs 1 and 3, balance 2, 2 frozen by other jobs, 2 retries, 1 fault, `FairSpec` | 343,976 |
| `batch_image_hold_leak` | violated | 1 worker, no fault | |
| `ingress_lease` | passes | 2 connections, cap 1, TTL 6, interval 2, timeout 1, `FairSpec`, deadlock checked | 22,668 |

Two workers are enough for every race between two handlers; a third only adds
another taker-over of the same lease, and the safety theorems hold for any number.
Two faults allow a failure in the recovery from a failure. Orders and keys are
independent in the code, so one is enough. A balance of 2, which the
user spends meanwhile, separates full, partial and insufficient deductions of an
amount of 2; 3 days are shortened by the first deduction of 2 and revoked by a
second, or by the first once a day has passed. In `idempotency` the lock is
shorter than an execution may take (2 < 3), and both are shorter than the lifetime.
In `batch_image` the costs lie on both sides of the hold, the other jobs' frozen
balance is large enough to be taken by mistake, and the balance is just enough for
one hold; refusals (a cost above the hold, the retries) need no fault, so the one
fault comes on top of them; so do failures of the recovery, which acts once on a
job and whose failures are not counted. In `ingress_lease` the TTL is three intervals, as in
the code (60, 20 and 2 seconds); three connections with cap 2 and TTL 4 (7.99 million
states) gave the same result. Deadlock is not checked for payments and batch jobs:
an order or a job nobody acts on any more is a legitimate end.

What the passing runs show:

* `AtMostOnce`, `NothingWithoutPayment`, `CompletedIsDelivered`,
  `PaidIsNotCancelled`, `AckedIsSettled`: see section 1; they hold although a
  lease can have two owners, because delivery is guarded by the redeem code and
  the unique audit rows rather than by the lease.
* `ImplementsContract`: the same as a refinement, steps included: a completed
  order never becomes uncompleted, an accrued rebate is never revoked.
* `PaidOrderSettles`: a paid order ends completed (or in a refund), or its
  payment is recorded as late, or its notification was swallowed.
* `RefundedIsReturned`, `NothingTakenForNothing`, `TakenAtMostOnce`,
  `OneRefundOwner`: the refund's accounts. What the user loses beyond the amount is
  bounded by `stranded`, and `stranded` by the amount for every fault and once for a
  revoked subscription, so a retry pays for each failure at most once and never for
  an attempt that gave its goods back. `TypeOK` of this module also says that
  the user's goods never become negative.
* `RefundingIsOwned`: no path of a refund forgets to leave REFUNDING: as long as no
  call fails, the order is in that status only while a handler that claimed it runs,
  though a failed query may have overwritten the row under it.
* `StoredResultMatches`, `ReplayedNotRepeated`, `OrphanEnds`: the coordinator
  replays the right result and frees abandoned records.
* `ImplementsKeyContract`: as a refinement, steps included: a key keeps its payload
  until it is swept, it is condemned only while nobody executes on its record, an
  execution starts only when none runs on the record, and a result gets on record
  only by the execution that produced it. A request that starts on a condemned key
  may lose its record and then executes beside its successor; that is what
  `OneExecutor` below is violated by, and the contract allows nothing else.
* `MoneyConserved`, `CompletedIsCharged`, `OtherHoldsUntouched`,
  `FailedIsNotCharged`: the accounts of a batch image job, through repeated
  captures, exhausted retries and whatever Submit, Cancel and the recovery do to
  the row meanwhile. `TypeOK` also says that no balance becomes negative.
* `ImplementsHoldContract`: the same as a refinement, steps included: money moves
  only by taking, charging and giving back the one hold, a charge costs the price of
  the output, and a job that is completed, failed or cancelled stays so. Disturbed
  jobs are exempt from the rule that a hold is used once, not from the account.
* `UnsettledIsQueued`, `QueuedJobEnds`, `UnsubmittedJobEnds`: no job with a bill
  to settle leaves the queue, a queued job ends with its hold captured or a release
  on record, and one that never got that far is ended by the recovery. That a
  release on record has really given the hold back is the subject of
  `FailedSubmitReleasesHold` below.
* `CapHolds`, `OverstayBounded`: at most `Max` connections whose lease was
  confirmed within the TTL less the length of a call, and none is served longer
  than `TTL + Interval + Timeout` without confirmation. The comment above
  `refresh` speaks of "one full lease TTL"; the loop looks at its clock only at a
  tick, so the bound is the first tick after the TTL.
* `RefusedHoldsNothing`, `LostIsFinal`, `CapacityReturns`: repeated and late calls
  neither leave a member behind a refusal nor revive a lost lease, and the
  capacity of a dead connection returns.

What the violated runs show (details under `findings`):

* `OneLeaseOwner`: the lease is claimed and its version read in two statements,
  so a worker stalled between them adopts its successor's version.
* `PaidInTimeSettles`: an order paid in time is expired when the upstream query
  fails, or answered just before the payment; a notification delayed beyond the
  grace period does not reconcile it.
* `NoDeductionAfterFailedRollback`: the finalization of a pending refund does
  not ask whether an earlier rollback failed, and deducts again.
* `NoExecutionOnRecordedSuccess`: `TryReclaim` does not ask again whether the
  record is expired.
* `OneExecutor`: the cleanup deletes by id a record that was reclaimed after it was
  picked; the next request inserts a new one, and two requests execute at once.
* `FailedSubmitReleasesHold`: a cancel between the insert of a job and its hold
  uses up the job's release; the hold taken next stays frozen.

**Fairness.** Weak fairness of `Step(w)`: a goroutine that has started runs on.
Weak fairness of `Age`, `BecomeDue`, `RedeemLockExpires`, `Tick`: time passes
and Redis keys have a TTL. Strong fairness of `Redeliver`: providers repeat a
notification that was not acknowledged, whatever the server was doing at each
attempt. Strong fairness of `ExpireTimedOutOrder`: the expiry job runs every
minute (`service/payment_order_expiry_service.go`). Nothing is assumed of users
or administrators: redelivery alone settles a paid order. `SelectVictims` is weakly and `DeleteVictims`
strongly fair: the cleanup job runs every minute, and its statement does not fail
every time. `BatchImage`: weak fairness of every goroutine's
steps, of the delayed mover, the stale recovery and the billing recovery (all on
timers), of the expiry of locks, and of the provider ending a batch; none of the
owner. `IngressLease`: weak fairness of time, of the tickers and of calls coming to
an end (they have timeouts); none of releases, so `CapacityReturns` also covers a
handler that never returns. Crashes and failures have no fairness and are
bounded by `MaxFaults`, in `IngressLease` not at all.

## 4. Proofs

The theorems hold for every set of workers, every number of faults, every amount
and all timeouts that satisfy the assumptions: `FaultsAssumption`
(`MaxFaults \in Nat`), `RefundAssumption` (refund moves are refund statuses),
`AmountAssumption`, `AvailAssumption`, `TimesAssumption` (a request waits
less than the lock before it executes and runs less than the record's lifetime) and
`FingerprintsAssumption` (a fingerprint is not the mark for "no fingerprint").
For `BatchImage`: `AmountsAssumption` (amounts are naturals, the hold positive),
`WorkersAssumption` (names of workers are not states of the lock),
`BoundsAssumption`. For `IngressLease`: finitely many connections, a positive cap,
and `TimesAssumption` (`Timeout < Interval`, `Interval + Timeout < TTL`).

* **PaymentFulfillmentProofs.** `AtMostOnce` is not inductive: that a credit is
  not repeated follows from the code being used. `IInv` therefore ties every
  effect to the row that guards it (`Counters`), keeps balance and subscription
  orders apart (`ByType`), says what a worker's step implies for delivery and
  rebate (`Progress`) and for payment (`Money`), that only one worker creates the
  order and no one can pay before it has (`Creation`), and what an acknowledged
  webhook implies (`Acks`). From `Invariance` follow `EffectsAtMostOnce`,
  `NoDeliveryUnpaid`, `CompletionIsReal`, `PaidStaysPaid` and `AcksAreEarned`.
  `AcksOrHiddenFailures` says what the exception in `AckedIsSettled` amounts to: the
  step that gives the first 2xx leaves the order settled or the late payment on record,
  or it is one of the four failed calls of section 2 (`HiddenFailure`). `Refinement` maps every step to a step
  of `PaymentContract` or a stutter. Two more results mark where this model meets
  its surroundings. `LeaseExclusiveInTime` is the other half of the violated
  `OneLeaseOwner`: under the hypothesis `[][InTime]_vars`, that the five minutes never
  run out on a fulfilment in progress, the lease has one owner (invariant `Alone`:
  one worker in the fulfilment, a fresh RECHARGING row while there is one).
  `SettledRowStays` is what `PaymentRefund` takes for granted: of a settled order only
  refund steps change type, status, `paid_at` and trade number. Two handlers write the
  trade number whatever the status, so it needs that a confirmed order already has the
  upstream's number and that no order settles while it is still being created
  (invariant `Confirmed`).
* **PaymentRefundProofs.** `IInv` adds to the exclusive claim (`OneRefundOwner`)
  the books: while an order can be claimed nothing is taken but what was stranded,
  and the owner has taken at most its plan's part on top (`Books`); that settled
  orders have a provider refund behind them (`SettledIsReturned`); and that plans
  are for real amounts (`PlansReal`). Results: `RefundsAreReal`,
  `ClaimIsExclusive`; `ClaimsEnd` is inductive by itself. `NoDoubleDeduction` also
  needs the price of faults (`Costs`): before any overwrite one handler holds goods, so
  a fault strands at most the amount, and without a fault only the handler that
  revoked the subscription strands its days, once. `NothingForNothing` needs more: after the
  unconditional overwrite several handlers can hold goods at once, and the books need
  the total of what they hold. Sums over the handlers would need induction; instead
  the goods are a set, `Units`, of pairs of a handler and a number, whose cardinality
  is the total, and the library's theorems about finite sets give what one
  handler's step changes (`UnitsChange`). `Accounted` (as long as no money was returned,
  `taken` is `stranded` plus the units held) is then kept by every step, because each
  changes one handler's holding and the books by the same amount (`Moves`).
  `RetriesTakeNothing` is the true part of the violated
  `NoDeductionAfterFailedRollback`: under the hypothesis that `hasAuditLog` does not
  fail on an existing row (`RowIsRead`), and before any overwrite, only the
  finalization of a pending refund takes goods after a failed rollback.
* **IdempotencyProofs.** `IInv` says who refers to the row (`Links`), that
  waiting requests are young (`Young`), that the record of an owner that still has
  one is in progress and outlives it (`OwnerHolds`), that a request with a stale read
  finds the new owner's lock in force (`Waiters`), and that a request that met a success
  finds nothing to reclaim (`Replays`). Results: `ExclusiveRecord` (one executor on the
  record in the table), `ReplaysMatch`, `SuccessIsReplayed`. `ExclusiveExecution` is the
  other half of the violated `OneExecutor`: under the hypothesis `DeletesExpiredOnly`,
  that the deletion meets only rows that are still expired (what a second test of
  `expires_at` in the DELETE would ensure), every owner has the record (`AllRecorded`)
  and one executes at a time. `Refinement` maps an owner to a running execution, an
  owner without a record to a loose one, a picked row to a condemned key, and the
  response of a succeeded row to the stored result; it needs that requests under way
  and rows have fingerprints (`Named`), and from `IInv` that nobody executes on the
  record when it is created, reclaimed or picked. `RepeatsAreStaleReclaims` narrows the violated
  `NoExecutionOnRecordedSuccess` down to its cause: only a request that found the
  earlier success expired, and reclaims by status, executes over a newer one.
* **BatchImageProofs.** Three layers. `Base` holds whatever happens: who can have
  taken the hold, what the provider's batch must be for a status, that a charge
  comes before completion. `Ledger` is the exact account of both balances in terms
  of the recorded requests, from which `Conserved` follows. `Orderly` holds while
  the job is undisturbed: the worker that processes the job owns its lock
  (`Locked`), an unsettled job has an entry in the queue (`Queued`), and the
  worker's step determines which of capture and release can have happened
  (`OneOutcome`); it is needed because no single transaction excludes the other.
  Results: `Conserved`, `Charged`, `OthersUntouched`, `NotCharged`, `NotDropped`.
  `Refinement` shows one lemma per group of actors that a step takes, charges or
  gives back the hold, passes the verdict, or changes nothing the user's bill sees.
  `LeakIsEarlyRelease` gives the exact amount an undisturbed failed job leaves frozen:
  nothing, or the whole hold if the release came before the reserve, which is what
  `FailedSubmitReleasesHold` is violated by.
* **IngressLeaseProofs.** `IInv` relates the three clocks: how far `conf` can be
  past the TTL at a given ticker reading (`Clocks`), that a member is at most a call
  older than its confirmation (`Ages`), which requests can still be under way
  (`Leftovers`), and that at most `Max` members count. `Capped` follows because
  every freshly confirmed connection has a counted member, with the cardinality
  theorems for subsets of finite sets. Results: `Capped`, `Bounded`, `Refused`,
  `NoReturn`.

Only model-checked: the liveness properties (`PaidOrderSettles`,
`OrphanEnds`, `QueuedJobEnds`, `UnsubmittedJobEnds`, `CapacityReturns`; fairness is
out of the prover's reach). Every invariant and action property of a passing run, and
each of the three refinements, is a theorem. What the violated runs refute is false;
for five of them a theorem says under which condition, or with which exception, it
does hold, and the sixth, `PaidInTimeSettles`, is a liveness property.

## 5. Abstractions and limits

* One order, one key, one user. Limits over several orders (pending and daily
  limits) are not modelled.
* Payments: provider verification, signatures and amounts are reduced to
  "matches" or "does not" (`WebhookShort`). The affiliate service is configured
  and may accrue or skip. Administrators do not edit the order's redeem code.
  `updated_at` values of different updates differ. Audit rows that nothing reads
  are left out, and the audit row and mail written after COMPLETED are part of
  that step, since no other worker can complete the order again. The user can
  only pay once the payment link has been returned.
* Refunds: deductions, rollbacks and provider refunds may be done and reported as
  failed. For the other statements this needs no action of its own: the handler
  returns, as it does when it stops right after the statement (`Crash`) or has nothing
  left to do. Providers are those that can be asked about a refund. `markRefundOk`'s
  update and audit row are one step, and so are a failed rollback and its audit row;
  either row may be lost. `RefundedIsReturned` asks for some successful refund and
  does not see its amount: when a second refund of another amount is left pending, the
  code finalizes it on the answer about the first, whose id is the one on record
  (`payment_refund.go:683`). The refund model starts from a
  completed order; `PaymentFulfillment` sees it as `RefundStep`.
* Idempotency: no clock skew between instances. `TimesAssumption` is a condition
  on the deployment: with an execution longer than the lifetime, or a stall longer
  than the lock between a request's arrival and its reclaim, exclusion is not
  guaranteed by the code. Requests without a key touch no record. Response bodies
  are represented by the payload they answer, so truncation of long ones is not
  covered.
* Batch image: one job, amounts in whole units. The contents of items, prices,
  downloads and stored files are left out; the cost of the output is fixed when the
  provider ends the batch. A second Submit with the same idempotency key is
  `Resubmit`, only for an existing job. The inflight key's TTL of seven days and
  the removal of old dedup rows to the archive table are not modelled. `retry`
  saturates at `MaxRetries`. The hold is positive: for a job without one the code
  moves no money.
* Ingress lease: Redis keeps scores in whole seconds, so in the code the bounds of
  `CapHolds` are exact to a second. `Timeout` is the longest a call may take,
  whether the operation timeout or the client's own read timeout ends it. `Resend`
  repeats a request that Redis has executed; a first copy that Redis executes only after
  the second was answered, which a read timeout configured below the operation timeout
  would allow, is not modelled. At most
  one request per connection is left behind at a time. A lease id is reused only
  when nothing refers to it any more; in the code it is always new. A cap of zero
  switches the lease off in the code and is excluded.

### Not modelled

The components with status `not_modelled` in `PROJECT.json`. The ones with state
worth a model: OAuth token refresh (a Redis lock and a rotating token); the request
slots of users and accounts, which share the scripts' shape with the ingress lease
but have no refresh, their wait counters and the cleanup at start, which removes
the slots of every process but its own; the Live session leases; the scheduler and
auth cache outboxes; the usage record pool; the billing of gateway requests. Limits
over several orders of a user (`payment_order.go:244`) need a model with several
orders. Generated data access code (`src/backend/ent`), protocol translation,
provider clients and the frontend have no protocol of their own to check, and are
most of the repository's lines.

## 6. Plan

Done: payment fulfilment, refunds, idempotency, batch image jobs and the ingress
lease, with proofs; contracts of the payment, the idempotency key and the hold, with
refinements. Next, in this order:

1. `TokenRefresh`: refresh lock, second read, rotated tokens; a token is refreshed
   by one holder of the lock at a time, and a lost lock does not store an old token.
2. Request slots with wait counters and the cleanup at start, beside `IngressLease`.
3. Compositions: the system operation lock over `Idempotency`, the scheduler outbox.
