------------------------------ MODULE BatchImage ------------------------------
(***************************************************************************)
(* One batch image job, from the request that submits it to the end of its *)
(* balance hold: the job row, the Redis queue and lock that hand it to the *)
(* workers, the provider's batch, the user's balance and frozen balance,   *)
(* and the billing requests hold, capture and release, each of which the   *)
(* usage_billing_dedup table admits once.                                  *)
(*                                                                         *)
(* The actors are Submit, the owner's Cancel, the billing recovery and the *)
(* workers.  A step is one transaction, one Redis script or one provider   *)
(* call; an actor that has read the row keeps what it read in its step.    *)
(* The other jobs of the same user hold OtherFrozen of the frozen balance: *)
(* the two balances are columns of the user, not of the job.               *)
(***************************************************************************)
EXTENDS Integers

CONSTANTS
  Workers,      \* goroutines that run RunOnce, on any instance
  Hold,         \* hold_amount of the job
  Costs,        \* what the provider's output may cost (success_count * price)
  Balance,      \* the user's balance before Submit
  OtherFrozen,  \* what the user's other jobs have frozen
  MaxRetries,   \* batchImageSettlementMaxRetries
  MaxFaults     \* bound: failed calls, crashes and lapsed heartbeats

ASSUME AmountsAssumption ==
  /\ Hold \in Nat \ {0}
  /\ Costs \subseteq Nat
  /\ Balance \in Nat
  /\ OtherFrozen \in Nat

\* "free" and "dead" are states of the lock.
ASSUME WorkersAssumption == "free" \notin Workers /\ "dead" \notin Workers

ASSUME BoundsAssumption == MaxRetries \in Nat \ {0} /\ MaxFaults \in Nat

VARIABLES
  status,     \* status of the row, "none" without a row
  named,      \* is provider_job_name set ("no" or "yes")?
  hidden,     \* is user_deleted_at set?
  retry,      \* retry_count, counted up to MaxRetries
  lastErr,    \* last_error_code: "none", "SETTLEMENT" or "QUEUE"
  balance, frozen,            \* the user's balances
  held, captured,  \* are the hold and the capture request recorded?
  released,   \* the release request: "no", "skipped" (nothing held) or "done"
  inflight,   \* 1 while the job's inflight key exists
  ready, active, delayed,  \* how often the job is in the list and the two sets
  lock,       \* the job lock: "free", its worker, "dead" once that is gone
  prov,       \* the provider's batch
  asked,      \* has the provider been asked to cancel it?
  cost,       \* what its output costs
  sub,        \* next step of Submit, "done" once it has returned or stopped
  slow,       \* have Submit's heartbeats lapsed?
  usr,        \* next step of Cancel
  rec,        \* next step of the billing recovery
  pc,         \* next step of each worker
  late,       \* have the worker's heartbeats lapsed while it processes?
  disturbed,  \* "yes" once a worker has outlived its lock, a recorded
              \* capture has been reported as failed, or a settlement's
              \* error code has been overwritten
  faults

jobVars == <<named, hidden, retry, lastErr>>
money == <<balance, frozen, held, captured, released>>
queue == <<inflight, ready, active, delayed>>
upstream == <<prov, asked, cost>>
vars == <<status, jobVars, money, queue, lock, upstream, sub, slow, usr, rec, pc,
          late, disturbed, faults>>

Terminal == {"completed", "failed", "cancelled", "output_deleted"}

Statuses == {"created", "uploading", "submitted", "running", "indexing",
             "settling"} \cup Terminal

\* The steps of a worker that talk to the provider or record what it said.
ProviderSteps == {"get", "to_running", "to_indexing", "index", "index_failed",
                  "to_settling", "to_failed", "to_cancelled"}

\* The steps of Settle.
SettleSteps == {"settle", "capture", "mark_settled", "record_billing",
                "record_cost", "release_exhausted", "record_release",
                "to_exhausted", "recheck"}

\* The steps a worker takes in Process, while its heartbeat runs.
ProcessSteps == {"read", "process", "release"} \cup ProviderSteps \cup SettleSteps

\* The steps a worker takes under the job lock.
LockedSteps == ProcessSteps \cup {"requeue", "ack", "unlock"}

WorkerSteps == LockedSteps \cup {"idle", "lock", "conflict"}

SubmitSteps == {"create", "reserve", "items", "upload", "submit", "update",
                "abort", "enqueue", "queue_failed", "release", "release_only",
                "record", "hide", "record_retry", "retry", "done"}

CancelSteps == {"idle", "release", "retry", "provider", "enqueue", "cancel"}

RecoverySteps == {"idle", "release", "retry"}

YesNo == {"no", "yes"}

TypeOK ==
  /\ status \in Statuses \cup {"none"}
  /\ named \in YesNo /\ hidden \in YesNo
  /\ retry \in 0..MaxRetries
  /\ lastErr \in {"none", "SETTLEMENT", "QUEUE"}
  /\ balance \in Nat /\ frozen \in Nat
  /\ held \in YesNo /\ captured \in YesNo
  /\ released \in {"no", "skipped", "done"}
  /\ inflight \in 0..1 /\ ready \in Nat /\ active \in 0..1 /\ delayed \in 0..1
  /\ lock \in Workers \cup {"free", "dead"}
  /\ prov \in {"none", "queued", "running", "succeeded", "garbled", "failed", "cancelled"}
  /\ asked \in YesNo
  /\ cost \in Costs \cup {0}
  /\ sub \in SubmitSteps /\ slow \in YesNo
  /\ usr \in CancelSteps
  /\ rec \in RecoverySteps
  /\ pc \in [Workers -> WorkerSteps]
  /\ late \in [Workers -> YesNo]
  /\ disturbed \in YesNo
  /\ faults \in 0..MaxFaults

Init ==
  /\ status = "none" /\ named = "no" /\ hidden = "no"
  /\ retry = 0 /\ lastErr = "none"
  /\ balance = Balance /\ frozen = OtherFrozen
  /\ held = "no" /\ captured = "no" /\ released = "no"
  /\ inflight = 0 /\ ready = 0 /\ active = 0 /\ delayed = 0
  /\ lock = "free"
  /\ prov = "none" /\ asked = "no" /\ cost = 0
  /\ sub = "create" /\ slow = "no"
  /\ usr = "idle" /\ rec = "idle"
  /\ pc = [w \in Workers |-> "idle"]
  /\ late = [w \in Workers |-> "no"] /\ disturbed = "no" /\ faults = 0

-----------------------------------------------------------------------------
(* The job row *)

Allowed(from) ==
  CASE from = "created"   -> {"uploading", "submitted", "cancelled"}
    [] from = "uploading" -> {"submitted", "cancelled"}
    [] from = "submitted" -> {"running", "indexing", "cancelled"}
    [] from = "running"   -> {"running", "indexing", "cancelled"}
    [] from = "indexing"  -> {"settling"}
    [] from = "settling"  -> {"completed"}
    [] OTHER -> {}

\* Mutant: the status is written whatever it was.
CanTransitionAny(from, to) == from # "none"

\* CanTransitionBatchImageJob; nothing in the system asks for output_deleted.
CanTransition(from, to) == from \notin Terminal /\ (to = "failed" \/ to \in Allowed(from))

\* Some call fails, or a process stops.
Fault == faults < MaxFaults /\ faults' = faults + 1

NoFault == UNCHANGED faults

\* SetBatchImageJobSettlementFailed.
CountFailure ==
  /\ retry' = IF retry < MaxRetries THEN retry + 1 ELSE retry
  /\ lastErr' = "SETTLEMENT"

\* isBatchImageSettlementRetryExhausted, of a settling job.
Exhausted == retry = MaxRetries /\ lastErr = "SETTLEMENT"

-----------------------------------------------------------------------------
(* The billing requests: each is one transaction that first claims its id *)

CanReserve == held = "no" /\ balance >= Hold

Reserve ==
  /\ CanReserve
  /\ held' = "yes"
  /\ balance' = balance - Hold
  /\ frozen' = frozen + Hold
  /\ UNCHANGED <<captured, released>>

\* Mutant: the unused part of the hold is kept.
CaptureKept == balance

\* Mutant: the hold is spent and the cost is charged as well.
CaptureTwice == balance - cost

\* What capture leaves of the balance.
CaptureBalance == balance + (Hold - cost)

\* Mutant: a capture that is repeated is refused.
CanCaptureOnce == captured = "no" /\ cost <= Hold /\ frozen >= Hold

\* The frozen balance is compared as a whole, whoever froze it.
CanCapture == captured = "yes" \/ (cost <= Hold /\ frozen >= Hold)

Capture ==
  /\ CanCapture
  /\ IF captured = "yes"
       THEN UNCHANGED <<balance, frozen, captured>>
       ELSE /\ captured' = "yes"
            /\ balance' = CaptureBalance
            /\ frozen' = frozen - Hold
  /\ UNCHANGED <<held, released>>

\* Mutant: released whether or not the hold was taken.
NeverHeldUnchecked == FALSE

NeverHeld == held = "no"

CanRelease == released # "no" \/ NeverHeld \/ frozen >= Hold

\* A release of a hold that was never taken moves nothing but claims the id.
Release ==
  /\ CanRelease
  /\ IF released # "no"
       THEN UNCHANGED <<balance, frozen, released>>
       ELSE IF NeverHeld
         THEN released' = "skipped" /\ UNCHANGED <<balance, frozen>>
         ELSE /\ released' = "done"
              /\ balance' = balance + Hold
              /\ frozen' = frozen - Hold
  /\ UNCHANGED <<held, captured>>

\* The release transaction of an actor: it ends, is refused for the frozen
\* balance, or fails.
ReleaseStep(ended, failed) ==
  \/ Release /\ ended /\ NoFault
  \/ ~CanRelease /\ failed /\ NoFault /\ UNCHANGED money
  \/ failed /\ Fault /\ UNCHANGED money

-----------------------------------------------------------------------------
(* The queue *)

Enqueue ==
  /\ inflight' = 1
  /\ ready' = IF inflight = 0 THEN ready + 1 ELSE ready
  /\ UNCHANGED <<active, delayed>>

\* An actor's Enqueue: done, refused as already queued, or failed.
EnqueueStep(ended, failed) ==
  \/ Enqueue /\ ended /\ NoFault
  \/ failed /\ Fault /\ UNCHANGED queue

\* MoveDueDelayedToReady: every delay ends.
MoveDueDelayed ==
  /\ delayed = 1
  /\ delayed' = 0
  /\ ready' = ready + 1
  /\ UNCHANGED <<status, jobVars, money, inflight, active, lock, upstream, sub, slow,
                 usr, rec, pc, late, disturbed, faults>>

\* Mutant: a worker that has stopped still counts as alive.
HeartbeatsStopped(w) == late[w] = "no"

\* A worker that has just reserved the job, or whose heartbeat runs, keeps its
\* active entry and its lock fresh.
Heartbeats(w) == pc[w] # "idle" /\ late[w] = "no"

\* RecoverStaleActive.
RecoverStaleActive ==
  /\ active = 1
  /\ \A w \in Workers : ~Heartbeats(w)
  /\ active' = 0
  /\ ready' = ready + 1
  /\ UNCHANGED <<status, jobVars, money, inflight, delayed, lock, upstream, sub, slow,
                 usr, rec, pc, late, disturbed, faults>>

\* The lock's TTL ends, nobody having refreshed it.
LockExpires ==
  /\ lock = "dead" \/ \E w \in Workers : lock = w /\ late[w] = "yes"
  /\ lock' = "free"
  /\ disturbed' = IF lock = "dead" THEN disturbed ELSE "yes"
  /\ UNCHANGED <<status, jobVars, money, queue, upstream, sub, slow, usr, rec, pc,
                 late, faults>>

-----------------------------------------------------------------------------
(* The provider *)

ProviderRuns ==
  /\ prov = "queued"
  /\ prov' = "running"
  /\ UNCHANGED <<status, jobVars, money, queue, lock, asked, cost, sub, slow, usr, rec,
                 pc, late, disturbed, faults>>

\* The batch ends; its output, if any, does not change any more.
ProviderEnds ==
  /\ prov \in {"queued", "running"}
  /\ \/ /\ prov' = "succeeded"
        /\ cost' \in Costs
     \/ /\ prov' \in {"garbled", "failed"}
        /\ UNCHANGED cost
     \/ asked = "yes" /\ prov' = "cancelled" /\ UNCHANGED cost
  /\ UNCHANGED <<status, jobVars, money, queue, lock, asked, sub, slow, usr, rec, pc,
                 late, disturbed, faults>>

-----------------------------------------------------------------------------
(* Submit *)

others == <<usr, rec, pc, late, disturbed, lock>>

\* CreateBatchImageJob.
CreateJob ==
  /\ sub = "create"
  /\ status' = "created"
  /\ sub' = "reserve"
  /\ UNCHANGED <<jobVars, money, queue, upstream, slow, others, faults>>

\* ReserveBatchImageBalance.  The commit may take effect and still be reported
\* as failed.
ReserveHold ==
  /\ sub = "reserve"
  /\ \/ Reserve /\ sub' = "items" /\ NoFault
     \/ ~CanReserve /\ sub' = "record" /\ NoFault /\ UNCHANGED money
     \/ sub' = "record" /\ Fault /\ (UNCHANGED money \/ Reserve)
  /\ UNCHANGED <<status, jobVars, queue, upstream, slow, others>>

\* createPendingItems.
CreateItems ==
  /\ sub = "items"
  /\ \/ sub' = "upload" /\ NoFault
     \/ sub' = "release" /\ Fault
  /\ UNCHANGED <<status, jobVars, money, queue, upstream, slow, others>>

\* The transition to uploading; a job that has been cancelled or failed in the
\* meantime keeps its status.
StartUpload ==
  /\ sub = "upload"
  /\ \/ /\ CanTransition(status, "uploading")
        /\ status' = "uploading"
        /\ sub' = "submit"
        /\ NoFault
     \/ /\ ~CanTransition(status, "uploading")
        /\ sub' = "release_only"
        /\ NoFault /\ UNCHANGED status
     \/ sub' = "release" /\ Fault /\ UNCHANGED status
  /\ UNCHANGED <<jobVars, money, queue, upstream, slow, others>>

\* provider.Submit.
SubmitToProvider ==
  /\ sub = "submit"
  /\ \/ prov' = "queued" /\ sub' = "update" /\ NoFault
     \/ sub' = "release" /\ Fault /\ UNCHANGED prov
  /\ UNCHANGED <<status, jobVars, money, queue, asked, cost, slow, others>>

\* UpdateBatchImageJobProviderSubmit.
UpdateProviderSubmit ==
  /\ sub = "update"
  /\ \/ /\ CanTransition(status, "submitted")
        /\ status' = "submitted" /\ named' = "yes"
        /\ sub' = "enqueue"
        /\ NoFault
     \/ /\ ~CanTransition(status, "submitted")
        /\ sub' = "abort"
        /\ NoFault /\ UNCHANGED <<status, named>>
     \/ sub' = "abort" /\ Fault /\ UNCHANGED <<status, named>>
  /\ UNCHANGED <<hidden, retry, lastErr, money, queue, upstream, slow, others>>

\* abortOrphanProviderJob, best effort.
AbortOrphan ==
  /\ sub = "abort"
  /\ sub' = "done"
  /\ \/ asked' = "yes" /\ NoFault
     \/ Fault /\ UNCHANGED asked
  /\ UNCHANGED <<status, jobVars, money, queue, prov, cost, slow, others>>

SubmitEnqueue ==
  /\ sub = "enqueue"
  /\ EnqueueStep(sub' = "done", sub' = "queue_failed")
  /\ UNCHANGED <<status, jobVars, money, upstream, slow, others>>

\* RecordBatchImageJobSubmitFailure without markFailed.
RecordQueueFailed ==
  /\ sub = "queue_failed"
  /\ sub' = "done"
  /\ \/ /\ lastErr' = "QUEUE"
        /\ disturbed' = IF lastErr = "SETTLEMENT" THEN "yes" ELSE disturbed
        /\ NoFault
     \/ Fault /\ UNCHANGED <<lastErr, disturbed>>
  /\ UNCHANGED <<status, named, hidden, retry, money, queue, upstream, slow, usr, rec, pc,
                 late, lock>>

\* releaseFailedSubmitHold.
ReleaseFailedSubmit ==
  /\ \/ sub = "release" /\ ReleaseStep(sub' = "record", sub' = "record_retry")
     \/ sub = "release_only" /\ ReleaseStep(sub' = "done", sub' = "record_retry")
  /\ UNCHANGED <<status, jobVars, queue, upstream, slow, others>>

\* RecordBatchImageJobSubmitFailure with markFailed: by batch id alone.
RecordSubmitFailure ==
  /\ \/ sub = "record" /\ sub' = "hide"
     \/ sub = "record_retry" /\ sub' = "retry"
  /\ \/ status' = "failed" /\ NoFault
     \/ Fault /\ UNCHANGED status
  /\ UNCHANGED <<jobVars, money, queue, upstream, slow, others>>

\* hidePreUpstreamSubmitFailure.
HideFailure ==
  /\ sub = "hide"
  /\ sub' = "done"
  /\ \/ hidden' = (IF status \in Terminal THEN "yes" ELSE hidden) /\ NoFault
     \/ Fault /\ UNCHANGED hidden
  /\ UNCHANGED <<status, named, retry, lastErr, money, queue, upstream, slow, others>>

\* enqueueBillingRetry.
SubmitRetry ==
  /\ sub = "retry"
  /\ EnqueueStep(sub' = "done", sub' = "done")
  /\ UNCHANGED <<status, jobVars, money, upstream, slow, others>>

\* The client repeats the request with its idempotency key.
Resubmit ==
  /\ sub = "done" /\ status = "submitted"
  /\ sub' = "enqueue"
  /\ UNCHANGED <<status, jobVars, money, queue, upstream, slow, others, faults>>

SubmitStep ==
  \/ CreateJob \/ ReserveHold \/ CreateItems \/ StartUpload \/ SubmitToProvider
  \/ UpdateProviderSubmit \/ AbortOrphan \/ SubmitEnqueue \/ RecordQueueFailed
  \/ ReleaseFailedSubmit \/ RecordSubmitFailure \/ HideFailure \/ SubmitRetry

\* The process that runs Submit stops.
SubmitCrash ==
  /\ sub \notin {"create", "done"}
  /\ sub' = "done"
  /\ Fault
  /\ UNCHANGED <<status, jobVars, money, queue, upstream, slow, others>>

\* TouchBatchImageJobSubmitting fails, or provider.Submit outlives the cutoff.
SubmitHeartbeatLapses ==
  /\ sub \in {"submit", "update"} /\ slow = "no"
  /\ slow' = "yes"
  /\ Fault
  /\ UNCHANGED <<status, jobVars, money, queue, upstream, sub, others>>

-----------------------------------------------------------------------------
(* Cancel and the other requests of the owner *)

\* GetBatchImageJobByBatchIDForOwner.
CancelRead ==
  /\ usr = "idle"
  /\ status # "none" /\ hidden = "no"
  /\ usr' = CASE status \in {"failed", "cancelled"} -> "release"
              [] status \in {"settling", "completed", "output_deleted"} -> "idle"
              [] OTHER -> IF named = "yes" THEN "provider" ELSE "cancel"
  /\ UNCHANGED <<status, jobVars, money, queue, lock, upstream, sub, slow, rec, pc,
                 late, disturbed, faults>>

\* provider.Cancel.
CancelProvider ==
  /\ usr = "provider"
  /\ \/ asked' = "yes" /\ usr' = "enqueue" /\ NoFault
     \/ usr' = "idle" /\ Fault /\ UNCHANGED asked
  /\ UNCHANGED <<status, jobVars, money, queue, lock, prov, cost, sub, slow, rec, pc,
                 late, disturbed>>

CancelTransition ==
  /\ usr = "cancel"
  /\ \/ /\ CanTransition(status, "cancelled")
        /\ status' = "cancelled"
        /\ usr' = "release"
        /\ NoFault
     \/ ~CanTransition(status, "cancelled") /\ usr' = "idle" /\ NoFault /\ UNCHANGED status
     \/ usr' = "idle" /\ Fault /\ UNCHANGED status
  /\ UNCHANGED <<jobVars, money, queue, lock, upstream, sub, slow, rec, pc, late, disturbed>>

CancelRelease ==
  /\ usr = "release"
  /\ ReleaseStep(usr' = "idle", usr' = "retry")
  /\ UNCHANGED <<status, jobVars, queue, lock, upstream, sub, slow, rec, pc, late, disturbed>>

CancelEnqueue ==
  /\ usr \in {"enqueue", "retry"}
  /\ EnqueueStep(usr' = "idle", usr' = "idle")
  /\ UNCHANGED <<status, jobVars, money, lock, upstream, sub, slow, rec, pc, late, disturbed>>

CancelStep == CancelProvider \/ CancelTransition \/ CancelRelease \/ CancelEnqueue

\* The request is abandoned.
CancelCrash ==
  /\ usr # "idle"
  /\ usr' = "idle"
  /\ Fault
  /\ UNCHANGED <<status, jobVars, money, queue, lock, upstream, sub, slow, rec, pc,
                 late, disturbed>>

\* DeleteRecord.
DeleteRecord ==
  /\ status \in Terminal /\ hidden = "no"
  /\ hidden' = "yes"
  /\ UNCHANGED <<status, named, retry, lastErr, money, queue, lock, upstream, sub, slow,
                 usr, rec, pc, late, disturbed, faults>>

\* MarkBatchImageOutputDeleted, by the owner or by the cleanup service.
DeleteOutput ==
  /\ status = "completed"
  /\ status' = "output_deleted"
  /\ UNCHANGED <<jobVars, money, queue, lock, upstream, sub, slow, usr, rec, pc, late,
                 disturbed, faults>>

-----------------------------------------------------------------------------
(* The billing recovery *)

\* Mutant: a job that was never uploaded is not listed.
UnsubmittedUploading == status = "uploading" /\ named = "no"

Unsubmitted == status \in {"created", "uploading"} /\ named = "no"

\* ListStaleUnsubmittedBatchImageJobs and FailStaleUnsubmittedBatchImageJob,
\* which checks the row again.
FailStaleUnsubmitted ==
  /\ rec = "idle"
  /\ Unsubmitted
  /\ sub = "done" \/ slow = "yes"
  /\ \/ status' = "failed" /\ rec' = "release" /\ NoFault
     \/ Fault /\ UNCHANGED <<status, rec>>
  /\ UNCHANGED <<jobVars, money, queue, lock, upstream, sub, slow, usr, pc, late, disturbed>>

\* The release succeeds, or is refused or fails.  From here on failures are not
\* counted: a job is recovered once.
RecoveryRelease ==
  /\ rec = "release"
  /\ \/ Release /\ rec' = "idle"
     \/ rec' = "retry" /\ UNCHANGED money
  /\ UNCHANGED <<status, jobVars, queue, lock, upstream, sub, slow, usr, pc, late,
                 disturbed, faults>>

\* enqueueReleaseRetry, best effort.
RecoveryEnqueue ==
  /\ rec = "retry"
  /\ rec' = "idle"
  /\ Enqueue \/ UNCHANGED queue
  /\ UNCHANGED <<status, jobVars, money, lock, upstream, sub, slow, usr, pc, late,
                 disturbed, faults>>

RecoveryStep == FailStaleUnsubmitted \/ RecoveryRelease \/ RecoveryEnqueue

RecoveryCrash ==
  /\ rec # "idle"
  /\ rec' = "idle"
  /\ UNCHANGED <<status, jobVars, money, queue, lock, upstream, sub, slow, usr, pc,
                 late, disturbed, faults>>

-----------------------------------------------------------------------------
(* The workers: RunOnce *)

Goto(w, step) == pc' = [pc EXCEPT ![w] = step]

apart == <<sub, slow, usr, rec>>

\* Redis Reserve: from ready to active.
ReserveJob(w) ==
  /\ pc[w] = "idle"
  /\ ready > 0
  /\ ready' = ready - 1
  /\ active' = 1
  /\ Goto(w, "lock")
  /\ UNCHANGED <<status, jobVars, money, inflight, delayed, lock, upstream, apart, late,
                 disturbed, faults>>

\* Mutant: the lock is taken from its holder.
LockFreeAlways == TRUE

LockFree == lock = "free"

TryAcquireJobLock(w) ==
  /\ pc[w] = "lock"
  /\ \/ LockFree /\ lock' = w /\ Goto(w, "read") /\ NoFault
     \/ ~LockFree /\ Goto(w, "conflict") /\ NoFault /\ UNCHANGED lock
     \/ Goto(w, "conflict") /\ Fault /\ UNCHANGED lock
  /\ UNCHANGED <<status, jobVars, money, queue, upstream, apart, late, disturbed>>

\* RequeueAfter: a job is delayed once, however many entries it had.
RequeueAfter == active' = 0 /\ delayed' = 1 /\ UNCHANGED <<inflight, ready>>

RequeueConflict(w) ==
  /\ pc[w] = "conflict"
  /\ Goto(w, "idle")
  /\ \/ RequeueAfter /\ NoFault
     \/ Fault /\ UNCHANGED queue
  /\ UNCHANGED <<status, jobVars, money, lock, upstream, apart, late, disturbed>>

Requeue(w) ==
  /\ pc[w] = "requeue"
  /\ Goto(w, "unlock")
  /\ \/ RequeueAfter /\ NoFault
     \/ Fault /\ UNCHANGED queue
  /\ UNCHANGED <<status, jobVars, money, lock, upstream, apart, late, disturbed>>

\* Ack: an entry that is still in ready stays there.
Ack(w) ==
  /\ pc[w] = "ack"
  /\ Goto(w, "unlock")
  /\ \/ /\ active' = 0 /\ delayed' = 0 /\ inflight' = 0
        /\ NoFault /\ UNCHANGED ready
     \/ Fault /\ UNCHANGED queue
  /\ UNCHANGED <<status, jobVars, money, lock, upstream, apart, late, disturbed>>

\* lock.Release compares the token; its error is ignored.
Unlock(w) ==
  /\ pc[w] = "unlock"
  /\ \/ lock' = (IF lock = w THEN "free" ELSE lock) /\ NoFault
     \/ lock' = (IF lock = w THEN "dead" ELSE lock) /\ Fault
  /\ late' = [late EXCEPT ![w] = "no"]
  /\ Goto(w, "idle")
  /\ UNCHANGED <<status, jobVars, money, queue, upstream, apart, disturbed>>

\* A call of Process returns an error, which RunOnce answers with a requeue.
CallFails(w) ==
  /\ pc[w] \in {"read", "process", "settle", "mark_settled", "to_exhausted", "recheck"}
                 \cup ProviderSteps
  /\ Goto(w, "requeue")
  /\ Fault
  /\ UNCHANGED <<status, jobVars, money, queue, lock, upstream, apart, late, disturbed>>

\* The process stops; its lock is left to expire.
WorkerCrash(w) ==
  /\ pc[w] # "idle"
  /\ Goto(w, "idle")
  /\ lock' = IF lock = w THEN "dead" ELSE lock
  /\ late' = [late EXCEPT ![w] = "no"]
  /\ Fault
  /\ UNCHANGED <<status, jobVars, money, queue, upstream, apart, disturbed>>

\* The heartbeats fail, or the process is suspended, while Process goes on.
Stall(w) ==
  /\ pc[w] \in ProcessSteps /\ late[w] = "no"
  /\ late' = [late EXCEPT ![w] = "yes"]
  /\ Fault
  /\ UNCHANGED <<status, jobVars, money, queue, lock, upstream, apart, pc, disturbed>>

-----------------------------------------------------------------------------
(* The workers: BatchImagePipelineProcessor and BatchImageProviderProcessor *)

notRow == <<jobVars, money, queue, lock, upstream, apart, late, disturbed, faults>>

PipelineRead(w) ==
  /\ pc[w] = "read"
  /\ Goto(w, IF status = "settling" THEN "settle" ELSE "process")
  /\ UNCHANGED <<status, notRow>>

\* The processor reads the row a second time.
ProcessorRead(w) ==
  /\ pc[w] = "process"
  /\ Goto(w, CASE status \in {"failed", "cancelled"} -> "release"
               [] status \in {"settling", "completed", "output_deleted"} -> "ack"
               [] OTHER -> IF named = "no" THEN "requeue"
                           ELSE IF status = "indexing" THEN "index" ELSE "get")
  /\ UNCHANGED <<status, notRow>>

\* provider.Get.
GetProviderStatus(w) ==
  /\ pc[w] = "get"
  /\ Goto(w, CASE prov = "running" -> "to_running"
               [] prov \in {"succeeded", "garbled"} -> "to_indexing"
               [] prov = "failed" -> "to_failed"
               [] prov = "cancelled" -> "to_cancelled"
               [] OTHER -> "requeue")
  /\ UNCHANGED <<status, notRow>>

\* TransitionBatchImageJobStatus, under the lock of the row.
Transition(w, to, then) ==
  /\ \/ CanTransition(status, to) /\ status' = to /\ Goto(w, then)
     \/ ~CanTransition(status, to) /\ Goto(w, "requeue") /\ UNCHANGED status
  /\ UNCHANGED notRow

RecordProviderStatus(w) ==
  \/ pc[w] = "to_running" /\ Transition(w, "running", "requeue")
  \/ pc[w] = "to_indexing" /\ Transition(w, "indexing", "index")
  \/ pc[w] = "to_failed" /\ Transition(w, "failed", "release")
  \/ pc[w] = "to_cancelled" /\ Transition(w, "cancelled", "release")
  \/ pc[w] = "to_settling" /\ Transition(w, "settling", "requeue")
  \/ pc[w] = "index_failed" /\ Transition(w, "failed", "release")

\* Index and ReplaceBatchImageItemsForJob, which looks at the status under the
\* row's lock; output that cannot be parsed, and an
\* error of the database, fail the job.
IndexOutput(w) ==
  /\ pc[w] = "index"
  /\ \/ prov = "garbled" /\ Goto(w, "index_failed") /\ NoFault
     \/ /\ prov # "garbled"
        /\ Goto(w, IF status = "indexing" THEN "to_settling" ELSE "requeue")
        /\ NoFault
     \/ Goto(w, "index_failed") /\ Fault
  /\ UNCHANGED <<status, jobVars, money, queue, lock, upstream, apart, late, disturbed>>

\* releaseTerminalHold.
ReleaseTerminal(w) ==
  /\ pc[w] = "release"
  /\ ReleaseStep(Goto(w, "ack"), Goto(w, "requeue"))
  /\ UNCHANGED <<status, jobVars, queue, lock, upstream, apart, late, disturbed>>

-----------------------------------------------------------------------------
(* The workers: BatchImageSettlementService *)

SettleRead(w) ==
  /\ pc[w] = "settle"
  /\ Goto(w, CASE status = "completed" -> "ack"
               [] status = "settling" /\ Exhausted -> "release_exhausted"
               [] status = "settling" /\ ~Exhausted /\ cost > Hold -> "record_cost"
               [] status = "settling" /\ ~Exhausted /\ cost <= Hold -> "capture"
               [] OTHER -> "requeue")
  /\ UNCHANGED <<status, notRow>>

\* Mutant: an error of the capture is ignored.
CaptureHoldIgnored(w) ==
  /\ pc[w] = "capture"
  /\ Goto(w, "mark_settled")
  /\ \/ Capture /\ NoFault
     \/ Fault /\ UNCHANGED money
  /\ UNCHANGED <<status, jobVars, queue, lock, upstream, apart, late, disturbed>>

\* captureBatchImageBalanceHold.  The commit may take effect and still be
\* reported as failed.
CaptureHold(w) ==
  /\ pc[w] = "capture"
  /\ \/ Capture /\ Goto(w, "mark_settled") /\ NoFault /\ UNCHANGED disturbed
     \/ /\ ~CanCapture
        /\ Goto(w, "record_billing")
        /\ NoFault /\ UNCHANGED <<money, disturbed>>
     \/ /\ Goto(w, "record_billing")
        /\ Fault
        /\ UNCHANGED money \/ Capture
        /\ disturbed' = IF captured' = "yes" THEN "yes" ELSE disturbed
  /\ UNCHANGED <<status, jobVars, queue, lock, upstream, apart, late>>

\* MarkBatchImageJobSettled.
MarkSettled(w) ==
  /\ pc[w] = "mark_settled"
  /\ \/ status = "settling" /\ status' = "completed" /\ Goto(w, "ack")
     \/ status # "settling" /\ Goto(w, "requeue") /\ UNCHANGED status
  /\ UNCHANGED notRow

\* recordSettlementFailure, of a refused capture and of a cost above the hold.
RecordFailure(w) ==
  /\ pc[w] \in {"record_billing", "record_cost"}
  /\ LET retryLater == IF pc[w] = "record_billing" THEN "recheck" ELSE "requeue"
     IN  \/ /\ CountFailure
            /\ Goto(w, IF retry' = MaxRetries THEN "release_exhausted" ELSE retryLater)
            /\ NoFault
         \/ Goto(w, retryLater) /\ Fault /\ UNCHANGED <<retry, lastErr>>
  /\ UNCHANGED <<status, named, hidden, money, queue, lock, upstream, apart, late, disturbed>>

\* failExhaustedSettlement.
ReleaseExhausted(w) ==
  /\ pc[w] = "release_exhausted"
  /\ ReleaseStep(Goto(w, "to_exhausted"), Goto(w, "record_release"))
  /\ UNCHANGED <<status, jobVars, queue, lock, upstream, apart, late, disturbed>>

RecordReleaseFailed(w) ==
  /\ pc[w] = "record_release"
  /\ Goto(w, "recheck")
  /\ \/ CountFailure /\ NoFault
     \/ Fault /\ UNCHANGED <<retry, lastErr>>
  /\ UNCHANGED <<status, named, hidden, money, queue, lock, upstream, apart, late, disturbed>>

FailExhausted(w) == pc[w] = "to_exhausted" /\ Transition(w, "failed", "recheck")

\* The pipeline reads the row again after a billing error.
PipelineRecheck(w) ==
  /\ pc[w] = "recheck"
  /\ Goto(w, IF status \in Terminal THEN "ack" ELSE "requeue")
  /\ UNCHANGED <<status, notRow>>

WorkerStep(w) ==
  \/ ReserveJob(w) \/ TryAcquireJobLock(w) \/ RequeueConflict(w) \/ Requeue(w)
  \/ Ack(w) \/ Unlock(w) \/ PipelineRead(w) \/ ProcessorRead(w)
  \/ GetProviderStatus(w) \/ RecordProviderStatus(w) \/ IndexOutput(w)
  \/ ReleaseTerminal(w) \/ SettleRead(w) \/ CaptureHold(w) \/ MarkSettled(w)
  \/ RecordFailure(w) \/ ReleaseExhausted(w) \/ RecordReleaseFailed(w)
  \/ FailExhausted(w) \/ PipelineRecheck(w) \/ CallFails(w)

-----------------------------------------------------------------------------

Environment == ProviderRuns \/ ProviderEnds

QueueStep == MoveDueDelayed \/ RecoverStaleActive \/ LockExpires

Owner == CancelRead \/ DeleteRecord \/ DeleteOutput \/ Resubmit

Crash == SubmitCrash \/ SubmitHeartbeatLapses \/ CancelCrash \/ RecoveryCrash

Next ==
  \/ SubmitStep \/ CancelStep \/ RecoveryStep \/ QueueStep \/ Environment
  \/ Owner \/ Crash
  \/ \E w \in Workers : WorkerStep(w) \/ WorkerCrash(w) \/ Stall(w)

Spec == Init /\ [][Next]_vars

\* The goroutines are scheduled, the delayed mover, the stale recovery and the
\* billing recovery run on timers, keys expire, and the provider ends a batch.
FairSpec ==
  /\ Spec
  /\ WF_vars(SubmitStep) /\ WF_vars(CancelStep) /\ WF_vars(RecoveryStep)
  /\ WF_vars(MoveDueDelayed) /\ WF_vars(RecoverStaleActive) /\ WF_vars(LockExpires)
  /\ WF_vars(ProviderEnds)
  /\ \A w \in Workers : WF_vars(WorkerStep(w))

-----------------------------------------------------------------------------
(* Properties *)

Settled == {"completed", "output_deleted"}

Refunded == {"failed", "cancelled"}

\* Whatever fails, crashes or overlaps, the user's two balances and the charge
\* of a captured job add up to what the user had: reserve, capture and release
\* of usage_billing_repo.go move money and never make or lose any.
MoneyConserved ==
  balance + frozen + (IF captured = "yes" THEN cost ELSE 0) = Balance + OtherFrozen

\* A job is completed only after its cost was captured, so a worker that stops
\* between captureBatchImageBalanceHold and MarkBatchImageJobSettled loses
\* nothing; and unless the job was disturbed the hold is not given back too.
CompletedIsCharged ==
  status \in Settled => captured = "yes" /\ (disturbed = "yes" \/ released # "done")

\* The hold of this job is captured or released, not both: the frozen balance
\* of the user's other jobs is never used up for it, though both statements
\* compare the frozen balance of the user as a whole.
OtherHoldsUntouched ==
  disturbed = "no" => ~(captured = "yes" /\ released = "done") /\ frozen >= OtherFrozen

\* A job the user sees as failed or cancelled has not been charged, whatever
\* Submit, Cancel, the recovery and the workers did to its row on the way.
FailedIsNotCharged ==
  disturbed = "no" /\ status \in Refunded => captured = "no"

\* A job that has reached indexing or settling is still in the queue: neither
\* Ack nor a failed requeue drops a job that has not been paid for.
UnsettledIsQueued ==
  disturbed = "no" /\ status \in {"indexing", "settling"} =>
    inflight = 1 /\ ready + active + delayed > 0

\* The job as its user's bill sees it.
Verdict == IF status \in Settled THEN "paid"
           ELSE IF status \in Refunded THEN "refused" ELSE "open"

Contract == INSTANCE HoldContract WITH
  Prices <- Costs, taken <- held = "yes", charged <- captured = "yes", price <- cost,
  verdict <- Verdict, exempt <- disturbed = "yes"

\* Submit, Cancel, the recovery and the workers, interleaved and failing in any
\* order, implement the promise: the hold is frozen once, spent for the output's
\* price or given back, and the verdict that follows is final.
ImplementsHoldContract == Contract!Spec

\* A queued job ends, with its hold captured or a release recorded, through
\* crashes of its workers, lost Redis and provider calls and exhausted retries.
QueuedJobEnds ==
  inflight = 1 ~>
    (status \in Terminal /\ (captured = "yes" \/ released # "no")) \/ disturbed = "yes"

\* A job whose Submit stops or fails before the provider's name is stored does
\* not stay there: the billing recovery ends it.
UnsubmittedJobEnds ==
  status \in {"created", "uploading"} ~> named = "yes" \/ status \in Refunded

\* docs/BATCH_IMAGE_MVP.md: "failed submit releases hold".  A submit that has
\* ended in a failed or cancelled job, with a release recorded, has left none of
\* its hold frozen.
FailedSubmitReleasesHold ==
  sub = "done" /\ status \in Refunded /\ released # "no" => frozen = OtherFrozen

=============================================================================
