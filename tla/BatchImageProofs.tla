--------------------------- MODULE BatchImageProofs ---------------------------
(***************************************************************************)
(* Proofs about BatchImage, for any number of workers, any amounts and any *)
(* bounds.                                                                 *)
(*                                                                         *)
(* The inductive invariant has three layers.  Base holds whatever happens: *)
(* what Submit's step, the row's status, the provider's batch and the      *)
(* billing requests say of each other.  Ledger is the exact account of the *)
(* two balances.  Orderly is what holds while the job is not disturbed:    *)
(* the worker that processes the job has its lock, so nobody else captures *)
(* or settles between two of its steps.                                    *)
(***************************************************************************)
EXTENDS BatchImage, TLAPS

\* Every step a worker is sent to is one of WorkerSteps.
LEMMA StepFacts ==
  /\ "idle" \in WorkerSteps /\ "lock" \in WorkerSteps /\ "conflict" \in WorkerSteps
  /\ "read" \in WorkerSteps /\ "process" \in WorkerSteps /\ "release" \in WorkerSteps
  /\ "get" \in WorkerSteps /\ "to_running" \in WorkerSteps
  /\ "to_indexing" \in WorkerSteps /\ "index" \in WorkerSteps
  /\ "index_failed" \in WorkerSteps /\ "to_settling" \in WorkerSteps
  /\ "to_failed" \in WorkerSteps /\ "to_cancelled" \in WorkerSteps
  /\ "settle" \in WorkerSteps /\ "capture" \in WorkerSteps
  /\ "mark_settled" \in WorkerSteps /\ "record_billing" \in WorkerSteps
  /\ "record_cost" \in WorkerSteps /\ "release_exhausted" \in WorkerSteps
  /\ "record_release" \in WorkerSteps /\ "to_exhausted" \in WorkerSteps
  /\ "recheck" \in WorkerSteps /\ "requeue" \in WorkerSteps
  /\ "ack" \in WorkerSteps /\ "unlock" \in WorkerSteps
  BY DEF WorkerSteps, LockedSteps, ProcessSteps, ProviderSteps, SettleSteps

\* Every status that is written is one of Statuses.
LEMMA StatusFacts ==
  /\ "created" \in Statuses /\ "uploading" \in Statuses /\ "submitted" \in Statuses
  /\ "running" \in Statuses /\ "indexing" \in Statuses /\ "settling" \in Statuses
  /\ "completed" \in Statuses /\ "failed" \in Statuses /\ "cancelled" \in Statuses
  /\ "output_deleted" \in Statuses
  BY DEF Statuses, Terminal

\* No step leaves the types; in particular neither balance becomes negative.
LEMMA TypeStep == TypeOK /\ [Next]_vars => TypeOK'
<1> SUFFICES ASSUME TypeOK, [Next]_vars PROVE TypeOK'
  OBVIOUS
<1> USE AmountsAssumption, BoundsAssumption, StepFacts, StatusFacts
    DEF TypeOK, jobVars, money, queue, upstream, others, apart, notRow, Fault, NoFault,
        SubmitSteps, CancelSteps, RecoverySteps, YesNo, Goto
<1>1. CASE UNCHANGED vars
  BY <1>1 DEF vars
<1>2. CASE SubmitStep
  <2>1. CASE CreateJob \/ CreateItems \/ StartUpload \/ SubmitToProvider
    BY <2>1 DEF CreateJob, CreateItems, StartUpload, SubmitToProvider
  <2>2. CASE ReserveHold
    BY <2>2 DEF ReserveHold, Reserve, CanReserve
  <2>3. CASE UpdateProviderSubmit \/ AbortOrphan \/ RecordQueueFailed
    BY <2>3 DEF UpdateProviderSubmit, AbortOrphan, RecordQueueFailed
  <2>4. CASE SubmitEnqueue \/ SubmitRetry
    BY <2>4 DEF SubmitEnqueue, SubmitRetry, EnqueueStep, Enqueue
  <2>5. CASE ReleaseFailedSubmit
    BY <2>5 DEF ReleaseFailedSubmit, ReleaseStep, Release, CanRelease, NeverHeld
  <2>6. CASE RecordSubmitFailure \/ HideFailure
    BY <2>6 DEF RecordSubmitFailure, HideFailure
  <2> QED
    BY <1>2, <2>1, <2>2, <2>3, <2>4, <2>5, <2>6 DEF SubmitStep
<1>3. CASE CancelStep
  <2>1. CASE CancelProvider \/ CancelTransition
    BY <2>1 DEF CancelProvider, CancelTransition
  <2>2. CASE CancelRelease
    BY <2>2 DEF CancelRelease, ReleaseStep, Release, CanRelease, NeverHeld
  <2>3. CASE CancelEnqueue
    BY <2>3 DEF CancelEnqueue, EnqueueStep, Enqueue
  <2> QED
    BY <1>3, <2>1, <2>2, <2>3 DEF CancelStep
<1>4. CASE RecoveryStep
  <2>1. CASE FailStaleUnsubmitted
    BY <2>1 DEF FailStaleUnsubmitted
  <2>2. CASE RecoveryRelease
    BY <2>2 DEF RecoveryRelease, ReleaseStep, Release, CanRelease, NeverHeld
  <2>3. CASE RecoveryEnqueue
    BY <2>3 DEF RecoveryEnqueue, EnqueueStep, Enqueue
  <2> QED
    BY <1>4, <2>1, <2>2, <2>3 DEF RecoveryStep
<1>5. CASE QueueStep
  BY <1>5 DEF QueueStep, MoveDueDelayed, RecoverStaleActive, LockExpires
<1>6. CASE Environment
  BY <1>6 DEF Environment, ProviderRuns, ProviderEnds
<1>7. CASE Owner
  BY <1>7 DEF Owner, CancelRead, DeleteRecord, DeleteOutput, Resubmit
<1>8. CASE Crash
  BY <1>8 DEF Crash, SubmitCrash, SubmitHeartbeatLapses, CancelCrash, RecoveryCrash
<1>9. ASSUME NEW w \in Workers, WorkerStep(w) PROVE TypeOK'
  <2>1. CASE ReserveJob(w) \/ TryAcquireJobLock(w) \/ Unlock(w)
    BY <2>1 DEF ReserveJob, TryAcquireJobLock, Unlock
  <2>2. CASE RequeueConflict(w) \/ Requeue(w) \/ Ack(w)
    BY <2>2 DEF RequeueConflict, Requeue, Ack, RequeueAfter
  <2>3. CASE PipelineRead(w) \/ ProcessorRead(w) \/ GetProviderStatus(w)
    BY <2>3 DEF PipelineRead, ProcessorRead, GetProviderStatus
  <2>4. CASE RecordProviderStatus(w) \/ FailExhausted(w)
    BY <2>4 DEF RecordProviderStatus, FailExhausted, Transition
  <2>5. CASE IndexOutput(w) \/ CallFails(w)
    BY <2>5 DEF IndexOutput, CallFails
  <2>6. CASE ReleaseTerminal(w) \/ ReleaseExhausted(w)
    BY <2>6 DEF ReleaseTerminal, ReleaseExhausted, ReleaseStep, Release, CanRelease, NeverHeld
  <2>7. CASE SettleRead(w) \/ MarkSettled(w) \/ PipelineRecheck(w)
    BY <2>7 DEF SettleRead, MarkSettled, PipelineRecheck
  <2>8. CASE CaptureHold(w)
    BY <2>8 DEF CaptureHold, Capture, CanCapture, CaptureBalance
  <2>9. CASE RecordFailure(w) \/ RecordReleaseFailed(w)
    BY <2>9 DEF RecordFailure, RecordReleaseFailed, CountFailure
  <2> QED
    BY <1>9, <2>1, <2>2, <2>3, <2>4, <2>5, <2>6, <2>7, <2>8, <2>9 DEF WorkerStep
<1>10. ASSUME NEW w \in Workers, WorkerCrash(w) \/ Stall(w) PROVE TypeOK'
  BY <1>10 DEF WorkerCrash, Stall
<1> QED
  BY <1>1, <1>2, <1>3, <1>4, <1>5, <1>6, <1>7, <1>8, <1>9, <1>10 DEF Next

\* No step of any actor, failed, repeated or late, drives the user's balance or
\* the frozen balance below zero.
THEOREM TypeCorrect == Spec => []TypeOK
<1>1. Init => TypeOK
  BY AmountsAssumption, BoundsAssumption, StepFacts
     DEF Init, TypeOK, SubmitSteps, CancelSteps, RecoverySteps, YesNo
<1> QED
  BY <1>1, TypeStep, PTL DEF Spec

-----------------------------------------------------------------------------
(* The inductive invariant *)

\* Before the provider's name is stored.
BeforeUpdate == {"create", "reserve", "items", "upload", "submit", "update"}

Charging == {"settling"} \cup Settled

\* What the provider has said, by the time a row or a worker relies on it.
ProviderEnded ==
  /\ sub \in BeforeUpdate \ {"update"} => prov = "none"
  /\ status = "indexing" => prov \in {"succeeded", "garbled"}
  /\ status \in Charging => prov = "succeeded"
  /\ captured = "yes" => prov = "succeeded" /\ cost <= Hold
  /\ \A w \in Workers :
       /\ pc[w] \in {"to_indexing", "index"} => prov \in {"succeeded", "garbled"}
       /\ pc[w] \in {"to_settling", "capture"} => prov = "succeeded"

\* Only a job whose hold was taken is submitted, captured or given back.
HoldTaken ==
  /\ sub \in {"create", "reserve"} => held = "no"
  /\ sub \in {"items", "upload", "submit", "update"} => held = "yes"
  /\ status \in {"submitted", "running", "indexing"} \cup Charging => held = "yes"
  /\ captured = "yes" \/ released = "done" => held = "yes"
  /\ \A w \in Workers : pc[w] = "capture" => held = "yes"

\* Nobody acts before the row exists, Submit still owns it when it records
\* a failure, and a release that is not the settlement's follows a final status.
ReleaseOrder ==
  /\ sub = "create" <=> status = "none"
  /\ sub = "create" => /\ usr = "idle" /\ rec = "idle"
                       /\ ready = 0 /\ active = 0 /\ delayed = 0
                       /\ \A w \in Workers : pc[w] = "idle"
  /\ sub \in (BeforeUpdate \ {"create"})
             \cup {"release", "release_only", "record", "record_retry"}
       => status \in {"created", "uploading"} \cup Refunded
  /\ usr = "release" => status \in Refunded
  /\ rec = "release" => status \in Refunded
  /\ \A w \in Workers : pc[w] = "release" => status \in Refunded

\* Completion follows the capture.
ChargeOrder ==
  /\ status \in Settled => captured = "yes"
  /\ \A w \in Workers : pc[w] = "mark_settled" => captured = "yes"

Base == ProviderEnded /\ HoldTaken /\ ReleaseOrder /\ ChargeOrder

\* The part of the hold that each billing request has moved.
Part(request) == IF request \in {"yes", "done"} THEN Hold ELSE 0

Ledger ==
  /\ MoneyConserved
  /\ frozen = OtherFrozen + Part(held) - Part(captured) - Part(released)

\* While the job is not disturbed: a worker that processes it has the lock.
Locked ==
  disturbed = "no" => \A w \in Workers : pc[w] \in LockedSteps => lock = w

HasEntry == ready + active + delayed > 0

\* The queue has the job from its first entry to its final status, and nobody is
\* about to acknowledge it before that.
Queued ==
  disturbed = "no" =>
    /\ HasEntry \/ (\E w \in Workers : pc[w] # "idle") => inflight = 1 \/ status \in Terminal
    /\ inflight = 1 => HasEntry \/ status \in Terminal
    /\ status \in {"indexing", "settling"} => inflight = 1
    /\ \A w \in Workers : pc[w] = "ack" => status \in Terminal

\* The steps after Settle has seen a settling row.
SettlingSteps == {"capture", "mark_settled", "record_billing", "record_cost",
                  "release_exhausted", "record_release", "to_exhausted"}

\* The capture and the release of the same hold exclude each other: what a
\* worker read before its next step is still true when it takes it.
OneOutcome ==
  disturbed = "no" =>
    /\ captured = "yes" => status \in Charging /\ released # "done" /\ ~Exhausted
    /\ released = "done" =>
         \/ status \in Refunded
         \/ status \in {"created", "uploading"} /\ sub \notin BeforeUpdate
         \/ status = "settling" /\ Exhausted
    /\ \A w \in Workers :
         /\ pc[w] \in {"process"} \cup ProviderSteps => status # "settling"
         /\ pc[w] \in ProviderSteps => status \notin Settled
         /\ pc[w] \in SettlingSteps => status = "settling"
         /\ pc[w] \in {"record_billing", "record_cost"} => captured = "no"
         /\ pc[w] \in {"release_exhausted", "record_release", "to_exhausted"}
              => captured = "no" /\ Exhausted
         /\ pc[w] = "capture" => ~Exhausted /\ released # "done"

Orderly == Locked /\ Queued /\ OneOutcome

IInv == TypeOK /\ Base /\ Ledger /\ Orderly


\* Base is kept whatever fails and whoever overlaps.
LEMMA BaseStep == TypeOK /\ Base /\ [Next]_vars => Base'
<1> SUFFICES ASSUME TypeOK, Base, [Next]_vars PROVE Base'
  OBVIOUS
<1> USE AmountsAssumption, BoundsAssumption
    DEF TypeOK, jobVars, money, queue, upstream, others, apart, notRow, Fault, NoFault, Goto,
        SubmitSteps, CancelSteps, RecoverySteps, YesNo, Base, ProviderEnded, HoldTaken,
        ReleaseOrder, ChargeOrder, BeforeUpdate, Charging, Settled, Refunded, Terminal
<1>1. CASE UNCHANGED vars
  BY <1>1 DEF vars
<1>2. CASE SubmitStep
  <2>1. CASE CreateJob
    BY <2>1 DEF CreateJob
  <2>2. CASE ReserveHold
    BY <2>2 DEF ReserveHold, Reserve, CanReserve
  <2>3. CASE CreateItems
    BY <2>3 DEF CreateItems
  <2>4. CASE StartUpload
    BY <2>4 DEF StartUpload, CanTransition, Allowed
  <2>5. CASE SubmitToProvider
    BY <2>5 DEF SubmitToProvider
  <2>6. CASE UpdateProviderSubmit
    BY <2>6 DEF UpdateProviderSubmit, CanTransition, Allowed
  <2>7. CASE AbortOrphan
    BY <2>7 DEF AbortOrphan
  <2>8. CASE SubmitEnqueue
    BY <2>8 DEF SubmitEnqueue, EnqueueStep, Enqueue
  <2>9. CASE RecordQueueFailed
    BY <2>9 DEF RecordQueueFailed
  <2>10. CASE ReleaseFailedSubmit
    BY <2>10 DEF ReleaseFailedSubmit, ReleaseStep, Release, CanRelease, NeverHeld
  <2>11. CASE RecordSubmitFailure \/ HideFailure
    BY <2>11 DEF RecordSubmitFailure, HideFailure
  <2>12. CASE SubmitRetry
    BY <2>12 DEF SubmitRetry, EnqueueStep, Enqueue
  <2> QED
    BY <1>2, <2>1, <2>2, <2>3, <2>4, <2>5, <2>6, <2>7, <2>8, <2>9, <2>10, <2>11, <2>12 DEF SubmitStep
<1>3. CASE CancelStep
  <2>1. CASE CancelProvider
    BY <2>1 DEF CancelProvider
  <2>2. CASE CancelTransition
    BY <2>2 DEF CancelTransition, CanTransition, Allowed
  <2>3. CASE CancelRelease
    BY <2>3 DEF CancelRelease, ReleaseStep, Release, CanRelease, NeverHeld
  <2>4. CASE CancelEnqueue
    BY <2>4 DEF CancelEnqueue, EnqueueStep, Enqueue
  <2> QED
    BY <1>3, <2>1, <2>2, <2>3, <2>4 DEF CancelStep
<1>4. CASE RecoveryStep
  <2>1. CASE FailStaleUnsubmitted
    BY <2>1 DEF FailStaleUnsubmitted, Unsubmitted
  <2>2. CASE RecoveryRelease
    BY <2>2 DEF RecoveryRelease, ReleaseStep, Release, CanRelease, NeverHeld
  <2>3. CASE RecoveryEnqueue
    BY <2>3 DEF RecoveryEnqueue, EnqueueStep, Enqueue
  <2> QED
    BY <1>4, <2>1, <2>2, <2>3 DEF RecoveryStep
<1>5. CASE QueueStep
  BY <1>5 DEF QueueStep, MoveDueDelayed, RecoverStaleActive, LockExpires
<1>6. CASE Environment
  BY <1>6 DEF Environment, ProviderRuns, ProviderEnds
<1>7. CASE Owner
  BY <1>7 DEF Owner, CancelRead, DeleteRecord, DeleteOutput, Resubmit
<1>8. CASE Crash
  BY <1>8 DEF Crash, SubmitCrash, SubmitHeartbeatLapses, CancelCrash, RecoveryCrash
<1>9. ASSUME NEW w \in Workers, WorkerStep(w) PROVE Base'
  <2>1. CASE ReserveJob(w) \/ TryAcquireJobLock(w)
    BY <1>9, <2>1 DEF ReserveJob, TryAcquireJobLock
  <2>2. CASE RequeueConflict(w)
    BY <1>9, <2>2 DEF RequeueConflict, RequeueAfter
  <2>3. CASE Requeue(w)
    BY <1>9, <2>3 DEF Requeue, RequeueAfter
  <2>4. CASE Ack(w) \/ Unlock(w) \/ PipelineRead(w) \/ ProcessorRead(w)
    BY <1>9, <2>4 DEF Ack, Unlock, PipelineRead, ProcessorRead
  <2>5. CASE GetProviderStatus(w)
    BY <1>9, <2>5 DEF GetProviderStatus
  <2>6. CASE RecordProviderStatus(w)
    BY <1>9, <2>6 DEF RecordProviderStatus, Transition, CanTransition, Allowed
  <2>7. CASE IndexOutput(w)
    BY <1>9, <2>7 DEF IndexOutput
  <2>8. CASE ReleaseTerminal(w)
    BY <1>9, <2>8 DEF ReleaseTerminal, ReleaseStep, Release, CanRelease, NeverHeld
  <2>9. CASE SettleRead(w)
    BY <1>9, <2>9 DEF SettleRead
  <2>10. CASE CaptureHold(w)
    BY <1>9, <2>10 DEF CaptureHold, Capture, CanCapture, CaptureBalance
  <2>11. CASE MarkSettled(w)
    BY <1>9, <2>11 DEF MarkSettled
  <2>12. CASE RecordFailure(w)
    BY <1>9, <2>12 DEF RecordFailure, CountFailure
  <2>13. CASE ReleaseExhausted(w)
    BY <1>9, <2>13 DEF ReleaseExhausted, ReleaseStep, Release, CanRelease, NeverHeld
  <2>14. CASE RecordReleaseFailed(w)
    BY <1>9, <2>14 DEF RecordReleaseFailed, CountFailure
  <2>15. CASE FailExhausted(w)
    BY <1>9, <2>15 DEF FailExhausted, Transition, CanTransition
  <2>16. CASE PipelineRecheck(w)
    BY <1>9, <2>16 DEF PipelineRecheck
  <2>17. CASE CallFails(w)
    BY <1>9, <2>17 DEF CallFails, ProviderSteps
  <2> QED
    BY <1>9, <2>1, <2>2, <2>3, <2>4, <2>5, <2>6, <2>7, <2>8, <2>9, <2>10, <2>11,
       <2>12, <2>13, <2>14, <2>15, <2>16, <2>17 DEF WorkerStep
<1>10. ASSUME NEW w \in Workers, WorkerCrash(w) \/ Stall(w) PROVE Base'
  BY <1>10 DEF WorkerCrash, Stall
<1> QED
  BY <1>1, <1>2, <1>3, <1>4, <1>5, <1>6, <1>7, <1>8, <1>9, <1>10 DEF Next

\* The account of the two balances is exact: capture and release are refused
\* only when the frozen balance is too small, and each moves the hold once.
LEMMA LedgerStep == TypeOK /\ Base /\ Ledger /\ [Next]_vars => Ledger'
<1> SUFFICES ASSUME TypeOK, Base, Ledger, [Next]_vars PROVE Ledger'
  OBVIOUS
<1> USE AmountsAssumption
    DEF TypeOK, jobVars, money, queue, upstream, others, apart, notRow, Fault, NoFault,
        YesNo, Base, ProviderEnded, Ledger, MoneyConserved, Part
<1>1. CASE UNCHANGED vars
  BY <1>1 DEF vars
<1>2. CASE SubmitStep
  <2>1. CASE CreateJob
    BY <2>1 DEF CreateJob
  <2>2. CASE ReserveHold
    BY <2>2 DEF ReserveHold, Reserve, CanReserve
  <2>3. CASE CreateItems
    BY <2>3 DEF CreateItems
  <2>4. CASE StartUpload
    BY <2>4 DEF StartUpload, CanTransition, Allowed
  <2>5. CASE SubmitToProvider
    BY <2>5 DEF SubmitToProvider
  <2>6. CASE UpdateProviderSubmit
    BY <2>6 DEF UpdateProviderSubmit, CanTransition, Allowed
  <2>7. CASE AbortOrphan
    BY <2>7 DEF AbortOrphan
  <2>8. CASE SubmitEnqueue
    BY <2>8 DEF SubmitEnqueue, EnqueueStep, Enqueue
  <2>9. CASE RecordQueueFailed
    BY <2>9 DEF RecordQueueFailed
  <2>10. CASE ReleaseFailedSubmit
    BY <2>10 DEF ReleaseFailedSubmit, ReleaseStep, Release, CanRelease, NeverHeld
  <2>11. CASE RecordSubmitFailure \/ HideFailure
    BY <2>11 DEF RecordSubmitFailure, HideFailure
  <2>12. CASE SubmitRetry
    BY <2>12 DEF SubmitRetry, EnqueueStep, Enqueue
  <2> QED
    BY <1>2, <2>1, <2>2, <2>3, <2>4, <2>5, <2>6, <2>7, <2>8, <2>9, <2>10, <2>11, <2>12 DEF SubmitStep
<1>3. CASE CancelStep
  <2>1. CASE CancelProvider
    BY <2>1 DEF CancelProvider
  <2>2. CASE CancelTransition
    BY <2>2 DEF CancelTransition, CanTransition, Allowed
  <2>3. CASE CancelRelease
    BY <2>3 DEF CancelRelease, ReleaseStep, Release, CanRelease, NeverHeld
  <2>4. CASE CancelEnqueue
    BY <2>4 DEF CancelEnqueue, EnqueueStep, Enqueue
  <2> QED
    BY <1>3, <2>1, <2>2, <2>3, <2>4 DEF CancelStep
<1>4. CASE RecoveryStep
  <2>1. CASE FailStaleUnsubmitted
    BY <2>1 DEF FailStaleUnsubmitted, Unsubmitted
  <2>2. CASE RecoveryRelease
    BY <2>2 DEF RecoveryRelease, ReleaseStep, Release, CanRelease, NeverHeld
  <2>3. CASE RecoveryEnqueue
    BY <2>3 DEF RecoveryEnqueue, EnqueueStep, Enqueue
  <2> QED
    BY <1>4, <2>1, <2>2, <2>3 DEF RecoveryStep
<1>5. CASE QueueStep
  BY <1>5 DEF QueueStep, MoveDueDelayed, RecoverStaleActive, LockExpires
<1>6. CASE Environment
  BY <1>6 DEF Environment, ProviderRuns, ProviderEnds
<1>7. CASE Owner
  BY <1>7 DEF Owner, CancelRead, DeleteRecord, DeleteOutput, Resubmit
<1>8. CASE Crash
  BY <1>8 DEF Crash, SubmitCrash, SubmitHeartbeatLapses, CancelCrash, RecoveryCrash
<1>9. ASSUME NEW w \in Workers, WorkerStep(w) PROVE Ledger'
  <2>1. CASE ReserveJob(w) \/ TryAcquireJobLock(w)
    BY <1>9, <2>1 DEF ReserveJob, TryAcquireJobLock
  <2>2. CASE RequeueConflict(w)
    BY <1>9, <2>2 DEF RequeueConflict, RequeueAfter
  <2>3. CASE Requeue(w)
    BY <1>9, <2>3 DEF Requeue, RequeueAfter
  <2>4. CASE Ack(w) \/ Unlock(w) \/ PipelineRead(w) \/ ProcessorRead(w)
    BY <1>9, <2>4 DEF Ack, Unlock, PipelineRead, ProcessorRead
  <2>5. CASE GetProviderStatus(w)
    BY <1>9, <2>5 DEF GetProviderStatus
  <2>6. CASE RecordProviderStatus(w)
    BY <1>9, <2>6 DEF RecordProviderStatus, Transition, CanTransition, Allowed
  <2>7. CASE IndexOutput(w)
    BY <1>9, <2>7 DEF IndexOutput
  <2>8. CASE ReleaseTerminal(w)
    BY <1>9, <2>8 DEF ReleaseTerminal, ReleaseStep, Release, CanRelease, NeverHeld
  <2>9. CASE SettleRead(w)
    BY <1>9, <2>9 DEF SettleRead
  <2>10. CASE CaptureHold(w)
    BY <1>9, <2>10 DEF CaptureHold, Capture, CanCapture, CaptureBalance
  <2>11. CASE MarkSettled(w)
    BY <1>9, <2>11 DEF MarkSettled
  <2>12. CASE RecordFailure(w)
    BY <1>9, <2>12 DEF RecordFailure, CountFailure
  <2>13. CASE ReleaseExhausted(w)
    BY <1>9, <2>13 DEF ReleaseExhausted, ReleaseStep, Release, CanRelease, NeverHeld
  <2>14. CASE RecordReleaseFailed(w)
    BY <1>9, <2>14 DEF RecordReleaseFailed, CountFailure
  <2>15. CASE FailExhausted(w)
    BY <1>9, <2>15 DEF FailExhausted, Transition, CanTransition
  <2>16. CASE PipelineRecheck(w)
    BY <1>9, <2>16 DEF PipelineRecheck
  <2>17. CASE CallFails(w)
    BY <1>9, <2>17 DEF CallFails, ProviderSteps
  <2> QED
    BY <1>9, <2>1, <2>2, <2>3, <2>4, <2>5, <2>6, <2>7, <2>8, <2>9, <2>10, <2>11,
       <2>12, <2>13, <2>14, <2>15, <2>16, <2>17 DEF WorkerStep
<1>10. ASSUME NEW w \in Workers, WorkerCrash(w) \/ Stall(w) PROVE Ledger'
  BY <1>10 DEF WorkerCrash, Stall
<1> QED
  BY <1>1, <1>2, <1>3, <1>4, <1>5, <1>6, <1>7, <1>8, <1>9, <1>10 DEF Next

\* Only a worker that finds the lock free enters, and the lock of a worker that
\* works is not lost unless the job is disturbed.
LEMMA LockedStep == TypeOK /\ Locked /\ [Next]_vars => Locked'
<1> SUFFICES ASSUME TypeOK, Locked, [Next]_vars PROVE Locked'
  OBVIOUS
<1> USE WorkersAssumption
    DEF TypeOK, jobVars, money, queue, upstream, others, apart, notRow, Fault, NoFault, Goto,
        YesNo, Locked, LockedSteps, ProcessSteps, ProviderSteps, SettleSteps
<1>1. CASE UNCHANGED vars
  BY <1>1 DEF vars
<1>2. CASE SubmitStep
  <2>1. CASE CreateJob
    BY <2>1 DEF CreateJob
  <2>2. CASE ReserveHold
    BY <2>2 DEF ReserveHold, Reserve, CanReserve
  <2>3. CASE CreateItems
    BY <2>3 DEF CreateItems
  <2>4. CASE StartUpload
    BY <2>4 DEF StartUpload, CanTransition, Allowed
  <2>5. CASE SubmitToProvider
    BY <2>5 DEF SubmitToProvider
  <2>6. CASE UpdateProviderSubmit
    BY <2>6 DEF UpdateProviderSubmit, CanTransition, Allowed
  <2>7. CASE AbortOrphan
    BY <2>7 DEF AbortOrphan
  <2>8. CASE SubmitEnqueue
    BY <2>8 DEF SubmitEnqueue, EnqueueStep, Enqueue
  <2>9. CASE RecordQueueFailed
    BY <2>9 DEF RecordQueueFailed
  <2>10. CASE ReleaseFailedSubmit
    BY <2>10 DEF ReleaseFailedSubmit, ReleaseStep, Release, CanRelease, NeverHeld
  <2>11. CASE RecordSubmitFailure \/ HideFailure
    BY <2>11 DEF RecordSubmitFailure, HideFailure
  <2>12. CASE SubmitRetry
    BY <2>12 DEF SubmitRetry, EnqueueStep, Enqueue
  <2> QED
    BY <1>2, <2>1, <2>2, <2>3, <2>4, <2>5, <2>6, <2>7, <2>8, <2>9, <2>10, <2>11, <2>12 DEF SubmitStep
<1>3. CASE CancelStep
  <2>1. CASE CancelProvider
    BY <2>1 DEF CancelProvider
  <2>2. CASE CancelTransition
    BY <2>2 DEF CancelTransition, CanTransition, Allowed
  <2>3. CASE CancelRelease
    BY <2>3 DEF CancelRelease, ReleaseStep, Release, CanRelease, NeverHeld
  <2>4. CASE CancelEnqueue
    BY <2>4 DEF CancelEnqueue, EnqueueStep, Enqueue
  <2> QED
    BY <1>3, <2>1, <2>2, <2>3, <2>4 DEF CancelStep
<1>4. CASE RecoveryStep
  <2>1. CASE FailStaleUnsubmitted
    BY <2>1 DEF FailStaleUnsubmitted, Unsubmitted
  <2>2. CASE RecoveryRelease
    BY <2>2 DEF RecoveryRelease, ReleaseStep, Release, CanRelease, NeverHeld
  <2>3. CASE RecoveryEnqueue
    BY <2>3 DEF RecoveryEnqueue, EnqueueStep, Enqueue
  <2> QED
    BY <1>4, <2>1, <2>2, <2>3 DEF RecoveryStep
<1>5. CASE QueueStep
  BY <1>5 DEF QueueStep, MoveDueDelayed, RecoverStaleActive, LockExpires
<1>6. CASE Environment
  BY <1>6 DEF Environment, ProviderRuns, ProviderEnds
<1>7. CASE Owner
  BY <1>7 DEF Owner, CancelRead, DeleteRecord, DeleteOutput, Resubmit
<1>8. CASE Crash
  BY <1>8 DEF Crash, SubmitCrash, SubmitHeartbeatLapses, CancelCrash, RecoveryCrash
<1>9. ASSUME NEW w \in Workers, WorkerStep(w) PROVE Locked'
  <2>1. CASE ReserveJob(w) \/ TryAcquireJobLock(w)
    BY <1>9, <2>1 DEF ReserveJob, TryAcquireJobLock, LockFree
  <2>2. CASE RequeueConflict(w)
    BY <1>9, <2>2 DEF RequeueConflict, RequeueAfter
  <2>3. CASE Requeue(w)
    BY <1>9, <2>3 DEF Requeue, RequeueAfter
  <2>4. CASE Ack(w) \/ Unlock(w) \/ PipelineRead(w) \/ ProcessorRead(w)
    BY <1>9, <2>4 DEF Ack, Unlock, PipelineRead, ProcessorRead
  <2>5. CASE GetProviderStatus(w)
    BY <1>9, <2>5 DEF GetProviderStatus
  <2>6. CASE RecordProviderStatus(w)
    BY <1>9, <2>6 DEF RecordProviderStatus, Transition, CanTransition, Allowed
  <2>7. CASE IndexOutput(w)
    BY <1>9, <2>7 DEF IndexOutput
  <2>8. CASE ReleaseTerminal(w)
    BY <1>9, <2>8 DEF ReleaseTerminal, ReleaseStep, Release, CanRelease, NeverHeld
  <2>9. CASE SettleRead(w)
    BY <1>9, <2>9 DEF SettleRead
  <2>10. CASE CaptureHold(w)
    BY <1>9, <2>10 DEF CaptureHold, Capture, CanCapture, CaptureBalance
  <2>11. CASE MarkSettled(w)
    BY <1>9, <2>11 DEF MarkSettled
  <2>12. CASE RecordFailure(w)
    BY <1>9, <2>12 DEF RecordFailure, CountFailure
  <2>13. CASE ReleaseExhausted(w)
    BY <1>9, <2>13 DEF ReleaseExhausted, ReleaseStep, Release, CanRelease, NeverHeld
  <2>14. CASE RecordReleaseFailed(w)
    BY <1>9, <2>14 DEF RecordReleaseFailed, CountFailure
  <2>15. CASE FailExhausted(w)
    BY <1>9, <2>15 DEF FailExhausted, Transition, CanTransition
  <2>16. CASE PipelineRecheck(w)
    BY <1>9, <2>16 DEF PipelineRecheck
  <2>17. CASE CallFails(w)
    BY <1>9, <2>17 DEF CallFails, ProviderSteps
  <2> QED
    BY <1>9, <2>1, <2>2, <2>3, <2>4, <2>5, <2>6, <2>7, <2>8, <2>9, <2>10, <2>11,
       <2>12, <2>13, <2>14, <2>15, <2>16, <2>17 DEF WorkerStep
<1>10. ASSUME NEW w \in Workers, WorkerCrash(w) \/ Stall(w) PROVE Locked'
  BY <1>10 DEF WorkerCrash, Stall
<1> QED
  BY <1>1, <1>2, <1>3, <1>4, <1>5, <1>6, <1>7, <1>8, <1>9, <1>10 DEF Next

\* No entry is lost: a requeue leaves one, and an acknowledged job has ended.
LEMMA QueuedStep == TypeOK /\ Base /\ Orderly /\ [Next]_vars => Queued'
<1> SUFFICES ASSUME TypeOK, Base, Orderly, [Next]_vars PROVE Queued'
  OBVIOUS
<1> USE WorkersAssumption
    DEF TypeOK, jobVars, money, queue, upstream, others, apart, notRow, Fault, NoFault, Goto,
        YesNo, Base, ReleaseOrder, BeforeUpdate, Charging, Settled, Refunded, Terminal,
        Locked, LockedSteps, ProcessSteps, ProviderSteps, SettleSteps, Orderly, Queued, HasEntry,
        OneOutcome, SettlingSteps
<1>1. CASE UNCHANGED vars
  BY <1>1 DEF vars
<1>2. CASE SubmitStep
  <2>1. CASE CreateJob
    BY <2>1 DEF CreateJob
  <2>2. CASE ReserveHold
    BY <2>2 DEF ReserveHold, Reserve, CanReserve
  <2>3. CASE CreateItems
    BY <2>3 DEF CreateItems
  <2>4. CASE StartUpload
    BY <2>4 DEF StartUpload, CanTransition, Allowed
  <2>5. CASE SubmitToProvider
    BY <2>5 DEF SubmitToProvider
  <2>6. CASE UpdateProviderSubmit
    BY <2>6 DEF UpdateProviderSubmit, CanTransition, Allowed
  <2>7. CASE AbortOrphan
    BY <2>7 DEF AbortOrphan
  <2>8. CASE SubmitEnqueue
    BY <2>8 DEF SubmitEnqueue, EnqueueStep, Enqueue
  <2>9. CASE RecordQueueFailed
    BY <2>9 DEF RecordQueueFailed
  <2>10. CASE ReleaseFailedSubmit
    BY <2>10 DEF ReleaseFailedSubmit, ReleaseStep, Release, CanRelease, NeverHeld
  <2>11. CASE RecordSubmitFailure \/ HideFailure
    BY <2>11 DEF RecordSubmitFailure, HideFailure
  <2>12. CASE SubmitRetry
    BY <2>12 DEF SubmitRetry, EnqueueStep, Enqueue
  <2> QED
    BY <1>2, <2>1, <2>2, <2>3, <2>4, <2>5, <2>6, <2>7, <2>8, <2>9, <2>10, <2>11, <2>12 DEF SubmitStep
<1>3. CASE CancelStep
  <2>1. CASE CancelProvider
    BY <2>1 DEF CancelProvider
  <2>2. CASE CancelTransition
    BY <2>2 DEF CancelTransition, CanTransition, Allowed
  <2>3. CASE CancelRelease
    BY <2>3 DEF CancelRelease, ReleaseStep, Release, CanRelease, NeverHeld
  <2>4. CASE CancelEnqueue
    BY <2>4 DEF CancelEnqueue, EnqueueStep, Enqueue
  <2> QED
    BY <1>3, <2>1, <2>2, <2>3, <2>4 DEF CancelStep
<1>4. CASE RecoveryStep
  <2>1. CASE FailStaleUnsubmitted
    BY <2>1 DEF FailStaleUnsubmitted, Unsubmitted
  <2>2. CASE RecoveryRelease
    BY <2>2 DEF RecoveryRelease, ReleaseStep, Release, CanRelease, NeverHeld
  <2>3. CASE RecoveryEnqueue
    BY <2>3 DEF RecoveryEnqueue, EnqueueStep, Enqueue
  <2> QED
    BY <1>4, <2>1, <2>2, <2>3 DEF RecoveryStep
<1>5. CASE QueueStep
  BY <1>5 DEF QueueStep, MoveDueDelayed, RecoverStaleActive, LockExpires
<1>6. CASE Environment
  BY <1>6 DEF Environment, ProviderRuns, ProviderEnds
<1>7. CASE Owner
  BY <1>7 DEF Owner, CancelRead, DeleteRecord, DeleteOutput, Resubmit
<1>8. CASE Crash
  BY <1>8 DEF Crash, SubmitCrash, SubmitHeartbeatLapses, CancelCrash, RecoveryCrash
<1>9. ASSUME NEW w \in Workers, WorkerStep(w) PROVE Queued'
  <2>1. CASE ReserveJob(w) \/ TryAcquireJobLock(w)
    BY <1>9, <2>1 DEF ReserveJob, TryAcquireJobLock
  <2>2. CASE RequeueConflict(w)
    BY <1>9, <2>2 DEF RequeueConflict, RequeueAfter
  <2>3. CASE Requeue(w)
    BY <1>9, <2>3 DEF Requeue, RequeueAfter
  <2>4. CASE Ack(w) \/ Unlock(w) \/ PipelineRead(w) \/ ProcessorRead(w)
    BY <1>9, <2>4 DEF Ack, Unlock, PipelineRead, ProcessorRead
  <2>5. CASE GetProviderStatus(w)
    BY <1>9, <2>5 DEF GetProviderStatus
  <2>6. CASE RecordProviderStatus(w)
    BY <1>9, <2>6 DEF RecordProviderStatus, Transition, CanTransition, Allowed
  <2>7. CASE IndexOutput(w)
    BY <1>9, <2>7 DEF IndexOutput
  <2>8. CASE ReleaseTerminal(w)
    BY <1>9, <2>8 DEF ReleaseTerminal, ReleaseStep, Release, CanRelease, NeverHeld
  <2>9. CASE SettleRead(w)
    BY <1>9, <2>9 DEF SettleRead
  <2>10. CASE CaptureHold(w)
    BY <1>9, <2>10 DEF CaptureHold, Capture, CanCapture, CaptureBalance
  <2>11. CASE MarkSettled(w)
    BY <1>9, <2>11 DEF MarkSettled
  <2>12. CASE RecordFailure(w)
    BY <1>9, <2>12 DEF RecordFailure, CountFailure
  <2>13. CASE ReleaseExhausted(w)
    BY <1>9, <2>13 DEF ReleaseExhausted, ReleaseStep, Release, CanRelease, NeverHeld
  <2>14. CASE RecordReleaseFailed(w)
    BY <1>9, <2>14 DEF RecordReleaseFailed, CountFailure
  <2>15. CASE FailExhausted(w)
    BY <1>9, <2>15 DEF FailExhausted, Transition, CanTransition
  <2>16. CASE PipelineRecheck(w)
    BY <1>9, <2>16 DEF PipelineRecheck
  <2>17. CASE CallFails(w)
    BY <1>9, <2>17 DEF CallFails, ProviderSteps
  <2> QED
    BY <1>9, <2>1, <2>2, <2>3, <2>4, <2>5, <2>6, <2>7, <2>8, <2>9, <2>10, <2>11,
       <2>12, <2>13, <2>14, <2>15, <2>16, <2>17 DEF WorkerStep
<1>10. ASSUME NEW w \in Workers, WorkerCrash(w) \/ Stall(w) PROVE Queued'
  BY <1>10 DEF WorkerCrash, Stall
<1> QED
  BY <1>1, <1>2, <1>3, <1>4, <1>5, <1>6, <1>7, <1>8, <1>9, <1>10 DEF Next

\* What a worker decided on what it read still holds at its next step.
LEMMA OneOutcomeStep == TypeOK /\ Base /\ Orderly /\ [Next]_vars => OneOutcome'
<1> SUFFICES ASSUME TypeOK, Base, Orderly, [Next]_vars PROVE OneOutcome'
  OBVIOUS
<1> USE WorkersAssumption, BoundsAssumption, AmountsAssumption
    DEF TypeOK, jobVars, money, queue, upstream, others, apart, notRow, Fault, NoFault, Goto,
        YesNo, Base, ProviderEnded, HoldTaken, ReleaseOrder, ChargeOrder, BeforeUpdate,
        Charging, Settled, Refunded, Terminal, Orderly, Locked, LockedSteps, ProcessSteps,
        ProviderSteps, SettleSteps, OneOutcome, SettlingSteps, Exhausted
<1>1. CASE UNCHANGED vars
  BY <1>1 DEF vars
<1>2. CASE SubmitStep
  <2>1. CASE CreateJob
    BY <2>1 DEF CreateJob
  <2>2. CASE ReserveHold
    BY <2>2 DEF ReserveHold, Reserve, CanReserve
  <2>3. CASE CreateItems
    BY <2>3 DEF CreateItems
  <2>4. CASE StartUpload
    BY <2>4 DEF StartUpload, CanTransition, Allowed
  <2>5. CASE SubmitToProvider
    BY <2>5 DEF SubmitToProvider
  <2>6. CASE UpdateProviderSubmit
    BY <2>6 DEF UpdateProviderSubmit, CanTransition, Allowed
  <2>7. CASE AbortOrphan
    BY <2>7 DEF AbortOrphan
  <2>8. CASE SubmitEnqueue
    BY <2>8 DEF SubmitEnqueue, EnqueueStep, Enqueue
  <2>9. CASE RecordQueueFailed
    BY <2>9 DEF RecordQueueFailed
  <2>10. CASE ReleaseFailedSubmit
    BY <2>10 DEF ReleaseFailedSubmit, ReleaseStep, Release, CanRelease, NeverHeld
  <2>11. CASE RecordSubmitFailure \/ HideFailure
    BY <2>11 DEF RecordSubmitFailure, HideFailure
  <2>12. CASE SubmitRetry
    BY <2>12 DEF SubmitRetry, EnqueueStep, Enqueue
  <2> QED
    BY <1>2, <2>1, <2>2, <2>3, <2>4, <2>5, <2>6, <2>7, <2>8, <2>9, <2>10, <2>11, <2>12 DEF SubmitStep
<1>3. CASE CancelStep
  <2>1. CASE CancelProvider
    BY <2>1 DEF CancelProvider
  <2>2. CASE CancelTransition
    BY <2>2 DEF CancelTransition, CanTransition, Allowed
  <2>3. CASE CancelRelease
    BY <2>3 DEF CancelRelease, ReleaseStep, Release, CanRelease, NeverHeld
  <2>4. CASE CancelEnqueue
    BY <2>4 DEF CancelEnqueue, EnqueueStep, Enqueue
  <2> QED
    BY <1>3, <2>1, <2>2, <2>3, <2>4 DEF CancelStep
<1>4. CASE RecoveryStep
  <2>1. CASE FailStaleUnsubmitted
    BY <2>1 DEF FailStaleUnsubmitted, Unsubmitted
  <2>2. CASE RecoveryRelease
    BY <2>2 DEF RecoveryRelease, ReleaseStep, Release, CanRelease, NeverHeld
  <2>3. CASE RecoveryEnqueue
    BY <2>3 DEF RecoveryEnqueue, EnqueueStep, Enqueue
  <2> QED
    BY <1>4, <2>1, <2>2, <2>3 DEF RecoveryStep
<1>5. CASE QueueStep
  BY <1>5 DEF QueueStep, MoveDueDelayed, RecoverStaleActive, LockExpires
<1>6. CASE Environment
  BY <1>6 DEF Environment, ProviderRuns, ProviderEnds
<1>7. CASE Owner
  BY <1>7 DEF Owner, CancelRead, DeleteRecord, DeleteOutput, Resubmit
<1>8. CASE Crash
  BY <1>8 DEF Crash, SubmitCrash, SubmitHeartbeatLapses, CancelCrash, RecoveryCrash
<1>9. ASSUME NEW w \in Workers, WorkerStep(w) PROVE OneOutcome'
  <2>1. CASE ReserveJob(w) \/ TryAcquireJobLock(w)
    BY <1>9, <2>1 DEF ReserveJob, TryAcquireJobLock
  <2>2. CASE RequeueConflict(w)
    BY <1>9, <2>2 DEF RequeueConflict, RequeueAfter
  <2>3. CASE Requeue(w)
    BY <1>9, <2>3 DEF Requeue, RequeueAfter
  <2>4. CASE Ack(w) \/ Unlock(w) \/ PipelineRead(w) \/ ProcessorRead(w)
    BY <1>9, <2>4 DEF Ack, Unlock, PipelineRead, ProcessorRead
  <2>5. CASE GetProviderStatus(w)
    BY <1>9, <2>5 DEF GetProviderStatus
  <2>6. CASE RecordProviderStatus(w)
    BY <1>9, <2>6 DEF RecordProviderStatus, Transition, CanTransition, Allowed
  <2>7. CASE IndexOutput(w)
    BY <1>9, <2>7 DEF IndexOutput
  <2>8. CASE ReleaseTerminal(w)
    BY <1>9, <2>8 DEF ReleaseTerminal, ReleaseStep, Release, CanRelease, NeverHeld
  <2>9. CASE SettleRead(w)
    BY <1>9, <2>9 DEF SettleRead
  <2>10. CASE CaptureHold(w)
    BY <1>9, <2>10 DEF CaptureHold, Capture, CanCapture, CaptureBalance
  <2>11. CASE MarkSettled(w)
    BY <1>9, <2>11 DEF MarkSettled
  <2>12. CASE RecordFailure(w)
    BY <1>9, <2>12 DEF RecordFailure, CountFailure
  <2>13. CASE ReleaseExhausted(w)
    BY <1>9, <2>13 DEF ReleaseExhausted, ReleaseStep, Release, CanRelease, NeverHeld
  <2>14. CASE RecordReleaseFailed(w)
    BY <1>9, <2>14 DEF RecordReleaseFailed, CountFailure
  <2>15. CASE FailExhausted(w)
    BY <1>9, <2>15 DEF FailExhausted, Transition, CanTransition
  <2>16. CASE PipelineRecheck(w)
    BY <1>9, <2>16 DEF PipelineRecheck
  <2>17. CASE CallFails(w)
    BY <1>9, <2>17 DEF CallFails, ProviderSteps
  <2> QED
    BY <1>9, <2>1, <2>2, <2>3, <2>4, <2>5, <2>6, <2>7, <2>8, <2>9, <2>10, <2>11,
       <2>12, <2>13, <2>14, <2>15, <2>16, <2>17 DEF WorkerStep
<1>10. ASSUME NEW w \in Workers, WorkerCrash(w) \/ Stall(w) PROVE OneOutcome'
  BY <1>10 DEF WorkerCrash, Stall
<1> QED
  BY <1>1, <1>2, <1>3, <1>4, <1>5, <1>6, <1>7, <1>8, <1>9, <1>10 DEF Next

-----------------------------------------------------------------------------
(* The theorems *)

\* The invariant holds at the start and is kept by every step.
THEOREM Invariance == Spec => []IInv
<1>1. Init => IInv
  <2> SUFFICES ASSUME Init PROVE IInv
    OBVIOUS
  <2>1. TypeOK
    BY AmountsAssumption, BoundsAssumption, StepFacts
       DEF Init, TypeOK, SubmitSteps, CancelSteps, RecoverySteps, YesNo
  <2>2. Base
    BY DEF Init, Base, ProviderEnded, HoldTaken, ReleaseOrder, ChargeOrder, BeforeUpdate,
           Charging, Settled, Refunded
  <2>3. Ledger
    BY AmountsAssumption DEF Init, Ledger, MoneyConserved, Part
  <2>4. Orderly
    BY DEF Init, Orderly, Locked, LockedSteps, ProcessSteps, ProviderSteps, SettleSteps,
           Queued, HasEntry, OneOutcome, SettlingSteps
  <2> QED
    BY <2>1, <2>2, <2>3, <2>4 DEF IInv
<1>2. IInv /\ [Next]_vars => IInv'
  BY TypeStep, BaseStep, LedgerStep, LockedStep, QueuedStep, OneOutcomeStep
     DEF IInv, Orderly
<1> QED
  BY <1>1, <1>2, PTL DEF Spec

\* Reserve, capture and release never make or lose money, whatever fails and
\* however many workers overlap.
THEOREM Conserved == Spec => []MoneyConserved
<1>1. IInv => MoneyConserved
  BY DEF IInv, Ledger
<1> QED
  BY <1>1, Invariance, PTL

\* A completed job has been charged, and only once: the worker that completes
\* it captured before, and its hold was not given back.
THEOREM Charged == Spec => []CompletedIsCharged
<1>1. IInv => CompletedIsCharged
  BY DEF IInv, TypeOK, YesNo, Base, ChargeOrder, Orderly, OneOutcome, CompletedIsCharged
<1> QED
  BY <1>1, Invariance, PTL

\* No job eats into the hold of another as long as it is not disturbed.
THEOREM OthersUntouched == Spec => []OtherHoldsUntouched
<1>1. IInv => OtherHoldsUntouched
  BY AmountsAssumption
     DEF IInv, TypeOK, YesNo, Base, HoldTaken, Ledger, Part, Orderly, OneOutcome,
         OtherHoldsUntouched
<1> QED
  BY <1>1, Invariance, PTL

\* A failed or cancelled job has not been charged as long as it is not disturbed.
THEOREM NotCharged == Spec => []FailedIsNotCharged
<1>1. IInv => FailedIsNotCharged
  BY DEF IInv, TypeOK, YesNo, Orderly, OneOutcome, Charging, Settled, Refunded,
         FailedIsNotCharged
<1> QED
  BY <1>1, Invariance, PTL

\* A job that is being indexed or settled is not dropped from the queue as long
\* as it is not disturbed.
THEOREM NotDropped == Spec => []UnsettledIsQueued
<1>1. IInv => UnsettledIsQueued
  BY DEF IInv, TypeOK, Orderly, Queued, HasEntry, Terminal, UnsettledIsQueued
<1> QED
  BY <1>1, Invariance, PTL

\* What a failed or cancelled job leaves frozen once its release is on record:
\* nothing, or the whole hold, and that only if the release came before the
\* reserve, found nothing to give back, and so uses up the request id of the
\* release that the hold would have needed.  This is the one way in which an
\* undisturbed job breaks FailedSubmitReleasesHold.
THEOREM LeakIsEarlyRelease ==
  Spec => [](disturbed = "no" /\ status \in Refunded /\ released # "no"
             => frozen = OtherFrozen
                         + (IF released = "skipped" /\ held = "yes" THEN Hold ELSE 0))
<1>1. IInv => (disturbed = "no" /\ status \in Refunded /\ released # "no"
               => frozen = OtherFrozen
                           + (IF released = "skipped" /\ held = "yes" THEN Hold ELSE 0))
  BY AmountsAssumption
     DEF IInv, TypeOK, YesNo, Base, HoldTaken, Ledger, Part, Orderly, OneOutcome,
         Charging, Settled, Refunded
<1> QED
  BY <1>1, Invariance, PTL

-----------------------------------------------------------------------------
(* The promise of HoldContract *)

\* A job that is charged is not refused or given back as long as it is not
\* disturbed.
NotChargedYet == disturbed = "yes" \/ captured = "no"

\* A step that leaves the accounts alone may pass the verdict, once.
LEMMA VerdictStep ==
  ASSUME UNCHANGED <<money, cost, disturbed>>,
         \/ Verdict' = Verdict
         \/ Verdict = "open" /\ Verdict' = "refused" /\ NotChargedYet
         \/ /\ Verdict = "open" /\ Verdict' = "paid" /\ captured = "yes"
            /\ disturbed = "yes" \/ released # "done"
  PROVE  Contract!Next \/ UNCHANGED Contract!contractVars
<1> USE DEF money, Contract!contractVars, Contract!books
<1>1. CASE Verdict' = Verdict
  BY <1>1
<1>2. CASE Verdict = "open" /\ Verdict' = "refused" /\ NotChargedYet
  <2>1. disturbed = "yes" \/ ~(captured = "yes")
    BY <1>2 DEF NotChargedYet
  <2>2. Contract!Refuse
    BY <1>2, <2>1 DEF Contract!Refuse
  <2> QED
    BY <2>2 DEF Contract!Next
<1>3. CASE /\ Verdict = "open" /\ Verdict' = "paid" /\ captured = "yes"
           /\ disturbed = "yes" \/ released # "done"
  <2>1. Contract!Pay
    BY <1>3 DEF Contract!Pay
  <2> QED
    BY <2>1 DEF Contract!Next
<1> QED
  BY <1>1, <1>2, <1>3

\* A release gives the hold back once, or finds that there is nothing to give
\* back; one that fails or is refused moves nothing.
LEMMA ReleaseMoves ==
  ASSUME TypeOK, Release \/ UNCHANGED money, UNCHANGED <<status, cost, disturbed>>,
         NotChargedYet
  PROVE  Contract!Next \/ UNCHANGED Contract!contractVars
<1> USE DEF Release, CanRelease, NeverHeld, Contract!contractVars, Contract!books
<1>1. UNCHANGED Verdict
  BY DEF Verdict
<1>2. CASE UNCHANGED money \/ (Release /\ released # "no")
  BY <1>1, <1>2 DEF money
<1>3. CASE Release /\ released = "no" /\ held = "no"
  <2>1. Contract!Skip
    BY <1>1, <1>3 DEF Contract!Skip
  <2> QED
    BY <2>1 DEF Contract!Next
<1>4. CASE Release /\ released = "no" /\ held # "no"
  <2>1. held = "yes" /\ (disturbed = "yes" \/ ~(captured = "yes"))
    BY <1>4 DEF TypeOK, YesNo, NotChargedYet
  <2>2. Contract!GiveBack
    BY <1>1, <1>4, <2>1 DEF Contract!GiveBack
  <2> QED
    BY <2>2 DEF Contract!Next
<1> QED
  BY <1>2, <1>3, <1>4

\* A capture spends the hold once, even when it is reported as failed.
LEMMA CaptureMoves ==
  ASSUME IInv, NEW w \in Workers, CaptureHold(w)
  PROVE  Contract!Next \/ UNCHANGED Contract!contractVars
<1> USE DEF Contract!contractVars, Contract!books, money
<1>1. UNCHANGED <<Verdict, cost>> /\ pc[w] = "capture"
  BY DEF CaptureHold, Verdict, upstream
<1>2. CASE UNCHANGED money
  <2>1. disturbed' = disturbed \/ disturbed' = "yes"
    BY DEF CaptureHold
  <2>2. CASE disturbed' = disturbed
    BY <1>1, <1>2, <2>2
  <2>3. CASE disturbed' = "yes"
    <3>1. Contract!Exempt
      BY <1>1, <1>2, <2>3 DEF Contract!Exempt
    <3> QED
      BY <3>1 DEF Contract!Next
  <2> QED
    BY <2>1, <2>2, <2>3
<1>3. CASE Capture /\ captured = "no"
  <2>1. held = "yes"
    BY <1>1 DEF IInv, Base, HoldTaken
  <2>2. disturbed = "yes" \/ (Verdict = "open" /\ released # "done")
    BY <1>1 DEF IInv, TypeOK, YesNo, Orderly, OneOutcome, SettlingSteps, Verdict, Settled,
                Refunded
  <2>3. UNCHANGED disturbed \/ disturbed' = "yes"
    BY DEF CaptureHold
  <2>4. /\ cost <= Hold /\ frozen >= Hold
        /\ captured' = "yes" /\ UNCHANGED <<held, released>>
        /\ balance' = balance + (Hold - cost) /\ frozen' = frozen - Hold
    BY <1>3 DEF Capture, CanCapture, CaptureBalance
  <2>5. Contract!Charge
    BY <1>1, <1>3, <2>1, <2>2, <2>3, <2>4 DEF Contract!Charge
  <2> QED
    BY <2>5 DEF Contract!Next
<1>4. CASE Capture /\ captured = "yes"
  BY <1>2, <1>4 DEF Capture
<1> QED
  BY <1>2, <1>3, <1>4 DEF CaptureHold, IInv, TypeOK, YesNo

\* The steps of Submit.
LEMMA SubmitMoves ==
  ASSUME IInv, SubmitStep PROVE Contract!Next \/ UNCHANGED Contract!contractVars
<1> USE DEF others, upstream, NoFault, Fault
<1>1. TypeOK
  BY DEF IInv
<1>2. CASE CreateJob \/ StartUpload \/ UpdateProviderSubmit
  <2>1. UNCHANGED <<money, cost, disturbed>>
    BY <1>2 DEF CreateJob, StartUpload, UpdateProviderSubmit
  <2>2. Verdict' = Verdict
    BY <1>1, <1>2
       DEF CreateJob, StartUpload, UpdateProviderSubmit, CanTransition, Verdict, Settled,
           Refunded, Terminal, IInv, Base, ReleaseOrder
  <2> QED
    BY <2>1, <2>2, VerdictStep
<1>3. CASE ReserveHold
  <2>1. UNCHANGED <<Verdict, cost, disturbed>> /\ sub = "reserve"
    BY <1>3 DEF ReserveHold, Verdict
  <2>2. CASE UNCHANGED money
    BY <2>1, <2>2 DEF money, Contract!contractVars, Contract!books
  <2>3. CASE Reserve
    <3>1. Verdict # "paid"
      BY <2>1 DEF IInv, Base, ReleaseOrder, BeforeUpdate, Verdict, Settled, Refunded
    <3>2. Contract!Take
      BY <2>1, <2>3, <3>1 DEF Reserve, CanReserve, Contract!Take
    <3> QED
      BY <3>2 DEF Contract!Next
  <2> QED
    BY <1>3, <2>2, <2>3 DEF ReserveHold
<1>4. CASE \/ CreateItems \/ SubmitToProvider \/ AbortOrphan \/ SubmitEnqueue
           \/ HideFailure \/ SubmitRetry
  <2>1. UNCHANGED <<money, cost, disturbed, status>>
    BY <1>4 DEF CreateItems, SubmitToProvider, AbortOrphan, SubmitEnqueue, HideFailure,
                SubmitRetry
  <2> QED
    BY <2>1, VerdictStep DEF Verdict
<1>5. CASE RecordQueueFailed
  <2>1. UNCHANGED <<money, cost, status>> /\ (disturbed' = disturbed \/ disturbed' = "yes")
    BY <1>5 DEF RecordQueueFailed
  <2>2. UNCHANGED Contract!contractVars \/ Contract!Exempt
    BY <2>1 DEF money, Verdict, Contract!Exempt, Contract!contractVars, Contract!books
  <2> QED
    BY <2>2 DEF Contract!Next
<1>6. CASE ReleaseFailedSubmit
  <2>1. NotChargedYet /\ UNCHANGED <<status, cost, disturbed>>
    BY <1>1, <1>6 DEF ReleaseFailedSubmit, IInv, TypeOK, YesNo, Base, ReleaseOrder, Orderly,
                OneOutcome, Charging, Settled, Refunded, NotChargedYet
  <2> QED
    BY <1>1, <1>6, <2>1, ReleaseMoves DEF ReleaseFailedSubmit, ReleaseStep
<1>7. CASE RecordSubmitFailure
  <2>1. UNCHANGED <<money, cost, disturbed>>
    BY <1>7 DEF RecordSubmitFailure
  <2>2. NotChargedYet
    BY <1>7 DEF RecordSubmitFailure, IInv, TypeOK, YesNo, Base, ReleaseOrder, Orderly,
                OneOutcome, Charging, Settled, Refunded, NotChargedYet
  <2>3. Verdict' = Verdict \/ (Verdict = "open" /\ Verdict' = "refused")
    BY <1>7 DEF RecordSubmitFailure, IInv, Base, ReleaseOrder, Verdict, Settled, Refunded
  <2> QED
    BY <2>1, <2>2, <2>3, VerdictStep
<1> QED
  BY <1>2, <1>3, <1>4, <1>5, <1>6, <1>7 DEF SubmitStep

\* The steps of Cancel, of the recovery, of the queue, the provider and the
\* owner, and crashes.
LEMMA OutsideMoves ==
  ASSUME IInv, CancelStep \/ RecoveryStep \/ QueueStep \/ Environment \/ Owner \/ Crash
  PROVE  Contract!Next \/ UNCHANGED Contract!contractVars
<1> USE DEF others, upstream, NoFault, Fault
<1>1. TypeOK
  BY DEF IInv
<1>2. CASE \/ CancelProvider \/ CancelEnqueue \/ RecoveryEnqueue \/ MoveDueDelayed
           \/ RecoverStaleActive \/ ProviderRuns \/ CancelRead \/ DeleteRecord \/ Resubmit
           \/ Crash
  <2>1. UNCHANGED <<money, cost, disturbed, status>>
    BY <1>2 DEF CancelProvider, CancelEnqueue, RecoveryEnqueue, MoveDueDelayed,
                RecoverStaleActive, ProviderRuns, CancelRead, DeleteRecord, Resubmit,
                Crash, SubmitCrash, SubmitHeartbeatLapses, CancelCrash, RecoveryCrash
  <2> QED
    BY <2>1, VerdictStep DEF Verdict
<1>3. CASE CancelTransition \/ FailStaleUnsubmitted \/ DeleteOutput
  <2>1. UNCHANGED <<money, cost, disturbed>>
    BY <1>3 DEF CancelTransition, FailStaleUnsubmitted, DeleteOutput
  <2>2. \/ Verdict' = Verdict
        \/ Verdict = "open" /\ Verdict' = "refused" /\ NotChargedYet
    BY <1>1, <1>3
       DEF CancelTransition, FailStaleUnsubmitted, DeleteOutput, Unsubmitted, CanTransition,
           Allowed, TypeOK, YesNo, IInv, Orderly, OneOutcome, Charging, Settled, Refunded,
           Terminal, Verdict, NotChargedYet
  <2> QED
    BY <2>1, <2>2, VerdictStep
<1>4. CASE CancelRelease \/ RecoveryRelease
  <2>1. NotChargedYet /\ UNCHANGED <<status, cost, disturbed>>
    BY <1>1, <1>4
       DEF CancelRelease, RecoveryRelease, IInv, TypeOK, YesNo, Base, ReleaseOrder, Orderly,
           OneOutcome, Charging, Settled, Refunded, NotChargedYet
  <2> QED
    BY <1>1, <1>4, <2>1, ReleaseMoves DEF CancelRelease, RecoveryRelease, ReleaseStep
<1>5. CASE LockExpires
  <2>1. UNCHANGED <<money, cost, status>> /\ (disturbed' = disturbed \/ disturbed' = "yes")
    BY <1>5 DEF LockExpires
  <2>2. UNCHANGED Contract!contractVars \/ Contract!Exempt
    BY <2>1 DEF money, Verdict, Contract!Exempt, Contract!contractVars, Contract!books
  <2> QED
    BY <2>2 DEF Contract!Next
<1>6. CASE ProviderEnds
  <2>1. captured # "yes" /\ UNCHANGED <<money, status, disturbed>>
    BY <1>6 DEF ProviderEnds, IInv, Base, ProviderEnded
  <2>2. CASE UNCHANGED cost
    BY <2>1, <2>2, VerdictStep DEF Verdict
  <2>3. CASE cost' \in Costs
    <3>1. Contract!Quote
      BY <2>1, <2>3 DEF money, Verdict, Contract!Quote, Contract!books
    <3> QED
      BY <3>1 DEF Contract!Next
  <2> QED
    BY <1>6, <2>2, <2>3 DEF ProviderEnds
<1> QED
  BY <1>2, <1>3, <1>4, <1>5, <1>6 DEF CancelStep, RecoveryStep, QueueStep, Environment, Owner

\* The steps of a worker.
LEMMA WorkerMoves ==
  ASSUME IInv, NEW w \in Workers, WorkerStep(w) \/ WorkerCrash(w) \/ Stall(w)
  PROVE  Contract!Next \/ UNCHANGED Contract!contractVars
<1> USE DEF upstream, NoFault, Fault, notRow
<1>1. TypeOK
  BY DEF IInv
<1>2. CASE \/ ReserveJob(w) \/ TryAcquireJobLock(w) \/ RequeueConflict(w) \/ Requeue(w)
           \/ Ack(w) \/ Unlock(w) \/ PipelineRead(w) \/ ProcessorRead(w)
           \/ GetProviderStatus(w) \/ IndexOutput(w) \/ SettleRead(w) \/ RecordFailure(w)
           \/ RecordReleaseFailed(w) \/ PipelineRecheck(w) \/ CallFails(w)
           \/ WorkerCrash(w) \/ Stall(w)
  <2>1. UNCHANGED <<money, cost, disturbed, status>>
    BY <1>2 DEF ReserveJob, TryAcquireJobLock, RequeueConflict, Requeue, Ack, Unlock,
                PipelineRead, ProcessorRead, GetProviderStatus, IndexOutput, SettleRead,
                RecordFailure, RecordReleaseFailed, PipelineRecheck, CallFails, WorkerCrash,
                Stall
  <2> QED
    BY <2>1, VerdictStep DEF Verdict
<1>3. CASE RecordProviderStatus(w) \/ FailExhausted(w)
  <2>1. UNCHANGED <<money, cost, disturbed>>
    BY <1>3 DEF RecordProviderStatus, FailExhausted, Transition
  <2>2. NotChargedYet
    BY <1>1, <1>3
       DEF RecordProviderStatus, FailExhausted, TypeOK, YesNo, IInv, Orderly, OneOutcome,
           ProviderSteps, Charging, NotChargedYet
  <2>3. Verdict' = Verdict \/ (Verdict = "open" /\ Verdict' = "refused")
    BY <1>3 DEF RecordProviderStatus, FailExhausted, Transition, CanTransition, Terminal,
                Verdict, Settled, Refunded
  <2> QED
    BY <2>1, <2>2, <2>3, VerdictStep
<1>4. CASE MarkSettled(w)
  <2>1. UNCHANGED <<money, cost, disturbed>>
    BY <1>4 DEF MarkSettled
  <2>2. captured = "yes" /\ (disturbed = "yes" \/ released # "done")
    BY <1>1, <1>4 DEF MarkSettled, TypeOK, YesNo, IInv, Base, ChargeOrder, Orderly, OneOutcome
  <2>3. Verdict' = Verdict \/ (Verdict = "open" /\ Verdict' = "paid")
    BY <1>4 DEF MarkSettled, Verdict, Settled, Refunded
  <2> QED
    BY <2>1, <2>2, <2>3, VerdictStep
<1>5. CASE ReleaseTerminal(w) \/ ReleaseExhausted(w)
  <2>1. NotChargedYet /\ UNCHANGED <<status, cost, disturbed>>
    BY <1>1, <1>5
       DEF ReleaseTerminal, ReleaseExhausted, IInv, TypeOK, YesNo, Base, ReleaseOrder, Orderly,
           OneOutcome, Charging, Settled, Refunded, NotChargedYet
  <2> QED
    BY <1>1, <1>5, <2>1, ReleaseMoves DEF ReleaseTerminal, ReleaseExhausted, ReleaseStep
<1>6. CASE CaptureHold(w)
  BY <1>6, CaptureMoves
<1> QED
  BY <1>2, <1>3, <1>4, <1>5, <1>6 DEF WorkerStep

\* Submit, Cancel, the recovery and the workers implement the promise of
\* HoldContract: the hold is frozen once, then spent for the output's price or
\* given back, and the verdict that follows is final.
THEOREM Refinement == Spec => ImplementsHoldContract
<1>1. Init => Contract!Init
  BY AmountsAssumption DEF Init, Contract!Init, Verdict, Settled, Refunded
<1>2. IInv /\ [Next]_vars => [Contract!Next]_(Contract!contractVars)
  <2> SUFFICES ASSUME IInv, [Next]_vars
               PROVE  Contract!Next \/ UNCHANGED Contract!contractVars
    OBVIOUS
  <2>1. CASE UNCHANGED vars
    BY <2>1 DEF vars, money, upstream, Verdict, Contract!contractVars, Contract!books
  <2>2. CASE Next
    BY <2>2, SubmitMoves, OutsideMoves, WorkerMoves DEF Next
  <2> QED
    BY <2>1, <2>2
<1> QED
  BY <1>1, <1>2, Invariance, PTL DEF Spec, ImplementsHoldContract, Contract!Spec
=============================================================================
