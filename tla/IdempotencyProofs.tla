-------------------------- MODULE IdempotencyProofs --------------------------
(***************************************************************************)
(* Safety of Idempotency for any number of requests and any times that     *)
(* satisfy TimesAssumption.                                                *)
(***************************************************************************)
EXTENDS Idempotency, TLAPS

\* Every step a request is sent to is one of Steps.
LEMMA StepFacts ==
  /\ "idle" \in Steps /\ "create" \in Steps /\ "get" \in Steps
  /\ "reclaim_expired" \in Steps /\ "get_latest" \in Steps
  /\ "reclaim_failed" \in Steps /\ "execute" \in Steps
  /\ "mark_succeeded" \in Steps /\ "mark_failed" \in Steps
  BY DEF Steps, OwnerSteps

\* No step leaves the types.
LEMMA TypeStep == TypeOK /\ [Next]_vars => TypeOK'
<1> SUFFICES ASSUME TypeOK, [Next]_vars PROVE TypeOK'
  OBVIOUS
<1> USE TimesAssumption, StepFacts
    DEF TypeOK, Statuses, Left, Goto, Leave, Claim, rowVars, reqVars
<1>1. CASE UNCHANGED vars
  BY <1>1 DEF vars
<1>2. ASSUME NEW w \in Workers, Begin(w) \/ RenewProcessingLease(w) \/ Abandon(w)
      PROVE  TypeOK'
  BY <1>2 DEF Begin, RenewProcessingLease, Abandon
<1>3. ASSUME NEW w \in Workers, Step(w) PROVE TypeOK'
  <2>1. CASE CreateProcessing(w)
    BY <2>1 DEF CreateProcessing
  <2>2. CASE GetExisting(w)
    BY <2>2 DEF GetExisting, SameRequest, Dispatch
  <2>3. CASE ReclaimExpired(w) \/ ReclaimFailed(w)
    BY <2>3 DEF ReclaimExpired, ReclaimFailed
  <2>4. CASE GetLatest(w)
    BY <2>4 DEF GetLatest, SameRequest, Dispatch
  <2>5. CASE Execution(w)
    BY <2>5 DEF Execution
  <2>6. CASE MarkSucceeded(w) \/ MarkFailedRetryable(w)
    BY <2>6 DEF MarkSucceeded, MarkFailedRetryable, FinalExpiry
  <2> QED
    BY <1>3, <2>1, <2>2, <2>3, <2>4, <2>5, <2>6 DEF Step
<1>4. CASE SelectVictims \/ DeleteVictims \/ CleanupFails
  BY <1>4 DEF SelectVictims, DeleteVictims, CleanupFails
<1>5. CASE Tick
  <2>1. lag' \in [Workers -> 0..MaxRun]
    BY <1>5 DEF Tick, Steps
  <2> QED
    BY <1>5, <2>1 DEF Tick, Earlier
<1> QED
  BY <1>1, <1>2, <1>3, <1>4, <1>5 DEF Next

\* All variables keep their types: in particular no request acts on a row that
\* was deleted under it.
THEOREM TypeCorrect == Spec => []TypeOK
<1>1. Init => TypeOK
  BY TimesAssumption, StepFacts DEF Init, TypeOK, Statuses, Left
<1> QED
  BY <1>1, TypeStep, PTL DEF Spec

-----------------------------------------------------------------------------
(* The inductive invariant *)

\* A request knows the row's id only after it read or created the row, and then
\* the row has the request's fingerprint.
Links ==
  \A w \in link :
    /\ pc[w] \in {"reclaim_expired", "get_latest", "reclaim_failed"} \cup OwnerSteps
    /\ fp[w] = rowFp /\ row # "none"

\* Requests that do not execute are young.
Young == \A w \in Workers : pc[w] \notin OwnerSteps => lag[w] <= MaxWait

\* The record of an owner that still has it is in progress and does not expire
\* before the owner ends.
OwnerHolds ==
  \A w \in Workers :
    pc[w] \in OwnerSteps /\ w \in link => row = "processing" /\ expiry >= TTL - lag[w]

\* One owner at most has the record.
OneRecordedExecutor == \A v, w \in Owners \cap link : v = w

\* A request that read an abandoned record cannot reclaim it from a new owner:
\* that owner's lock ends after the request's now.
Waiters ==
  \A v \in Workers :
    /\ pc[v] = "reclaim_failed" => from[v] = "failed_retryable"
    /\ pc[v] = "reclaim_expired" /\ from[v] = "processing" =>
         \A w \in link : pc[w] \in OwnerSteps => lock + lag[v] > 0

\* A request that met an unexpired success still has to read the row, and
\* whatever it will find there it will not reclaim.
Replays ==
  \A w \in Workers :
    late[w] = "yes" =>
      /\ pc[w] = "get"
      /\ row # "none" => expiry + lag[w] > 0
      /\ row = "failed_retryable" => lock + lag[w] > 0

Core == Links /\ Young /\ OwnerHolds /\ OneRecordedExecutor /\ Waiters
        /\ StoredResultMatches /\ Replays

IInv == TypeOK /\ Core

\* Which steps are the owner's.
LEMMA OwnerFacts ==
  /\ "execute" \in OwnerSteps /\ "mark_succeeded" \in OwnerSteps
  /\ "mark_failed" \in OwnerSteps
  /\ OwnerSteps \cap {"idle", "create", "get", "reclaim_expired", "get_latest",
                      "reclaim_failed"} = {}
  BY DEF OwnerSteps

\* Every step of a request preserves the invariant.
LEMMA RequestStep == ASSUME IInv, NEW w \in Workers, Step(w) PROVE Core'
<1> USE TimesAssumption, OwnerFacts
    DEF IInv, Core, TypeOK, Links, Young, OwnerHolds, OneRecordedExecutor, Owners,
        Waiters, StoredResultMatches, Replays, Left, Goto, Leave, Claim, rowVars, reqVars
<1>1. CASE CreateProcessing(w)
  BY <1>1 DEF CreateProcessing
<1>2. CASE GetExisting(w)
  BY <1>2 DEF GetExisting, SameRequest, Expired, Dispatch
<1>3. CASE ReclaimExpired(w)
  BY <1>3 DEF ReclaimExpired, Reclaimable
<1>4. CASE GetLatest(w)
  BY <1>4 DEF GetLatest, SameRequest, Dispatch
<1>5. CASE ReclaimFailed(w)
  BY <1>5 DEF ReclaimFailed, Reclaimable
<1>6. CASE Execution(w)
  BY <1>6 DEF Execution
<1>7. CASE MarkSucceeded(w)
  BY <1>7 DEF MarkSucceeded, FinalExpiry
<1>8. CASE MarkFailedRetryable(w)
  BY <1>8 DEF MarkFailedRetryable, FinalExpiry
<1> QED
  BY <1>1, <1>2, <1>3, <1>4, <1>5, <1>6, <1>7, <1>8 DEF Step

\* So do arrivals, renewals, requests that die, the cleanup and time.
LEMMA OtherStep ==
  ASSUME IInv,
         \/ UNCHANGED vars \/ SelectVictims \/ DeleteVictims \/ CleanupFails \/ Tick
         \/ \E w \in Workers : Begin(w) \/ RenewProcessingLease(w) \/ Abandon(w)
  PROVE  Core'
<1> USE TimesAssumption, OwnerFacts
    DEF IInv, Core, TypeOK, Links, Young, OwnerHolds, OneRecordedExecutor, Owners,
        Waiters, StoredResultMatches, Replays, Left, Goto, Leave, Claim, rowVars, reqVars
<1>1. CASE UNCHANGED vars
  BY <1>1 DEF vars
<1>2. CASE SelectVictims \/ DeleteVictims \/ CleanupFails
  BY <1>2 DEF SelectVictims, DeleteVictims, CleanupFails
<1>3. CASE Tick
  BY <1>3 DEF Tick, Earlier
<1>4. ASSUME NEW w \in Workers, Begin(w) PROVE Core'
  BY <1>4 DEF Begin
<1>5. ASSUME NEW w \in Workers, RenewProcessingLease(w) PROVE Core'
  BY <1>5 DEF RenewProcessingLease
<1>6. ASSUME NEW w \in Workers, Abandon(w) PROVE Core'
  BY <1>6 DEF Abandon
<1> QED
  BY <1>1, <1>2, <1>3, <1>4, <1>5, <1>6

\* The inductive invariant holds of every behaviour.
THEOREM Invariance == Spec => []IInv
<1>1. Init => IInv
  BY TimesAssumption, StepFacts, OwnerFacts
     DEF Init, IInv, Core, TypeOK, Statuses, Left, Links, Young, OwnerHolds,
         OneRecordedExecutor, Owners, Waiters, StoredResultMatches, Replays
<1>2. IInv /\ [Next]_vars => IInv'
  BY TypeStep, RequestStep, OtherStep DEF IInv, Next
<1> QED
  BY <1>1, <1>2, PTL DEF Spec

\* Of the requests that execute with the same key one at most has the record:
\* locks that run out, expired records and stale reads never give a second
\* request a record that somebody is executing on.
THEOREM ExclusiveRecord == Spec => []OneRecordedExecutor
<1>1. IInv => OneRecordedExecutor
  BY DEF IInv, Core
<1> QED
  BY <1>1, Invariance, PTL

\* What the cleanup would have to do: the DELETE takes no row that is no longer
\* expired.
DeletesExpiredOnly == [][DeleteVictims => expiry <= 0]_vars

\* Every request that executes has the record.
AllRecorded == Owners \subseteq link

\* A step that keeps to DeletesExpiredOnly takes no record from its owner.
LEMMA RecordKept ==
  ASSUME IInv, AllRecorded, [Next]_vars, [DeleteVictims => expiry <= 0]_vars
  PROVE  AllRecorded'
<1> USE OwnerFacts
    DEF AllRecorded, Owners, IInv, TypeOK, Goto, Leave, Claim, rowVars, reqVars
<1>1. CASE UNCHANGED vars \/ SelectVictims \/ CleanupFails \/ Tick
  BY <1>1 DEF vars, SelectVictims, CleanupFails, Tick
<1>2. CASE DeleteVictims
  <2>1. expiry <= 0
    BY <1>2 DEF vars, DeleteVictims
  <2>2. Owners = {}
    BY <2>1, TimesAssumption DEF Core, OwnerHolds
  <2> QED
    BY <1>2, <2>2 DEF DeleteVictims
<1>3. ASSUME NEW w \in Workers, Begin(w) \/ RenewProcessingLease(w) \/ Abandon(w)
      PROVE  AllRecorded'
  BY <1>3 DEF Begin, RenewProcessingLease, Abandon
<1>4. ASSUME NEW w \in Workers, Step(w) PROVE AllRecorded'
  <2>1. CASE CreateProcessing(w)
    BY <2>1 DEF CreateProcessing, Core, Links
  <2>2. CASE ReclaimExpired(w) \/ ReclaimFailed(w)
    BY <2>2 DEF ReclaimExpired, ReclaimFailed, Reclaimable
  <2>3. CASE GetExisting(w) \/ GetLatest(w)
    BY <2>3 DEF GetExisting, GetLatest, Dispatch
  <2>4. CASE Execution(w) \/ MarkSucceeded(w) \/ MarkFailedRetryable(w)
    BY <2>4 DEF Execution, MarkSucceeded, MarkFailedRetryable
  <2> QED
    BY <1>4, <2>1, <2>2, <2>3, <2>4 DEF Step
<1> QED
  BY <1>1, <1>2, <1>3, <1>4 DEF Next

\* Two requests with the same key are never executed at the same time, provided
\* the cleanup's DELETE looks at expires_at again.  The code's does not, and
\* TLC shows the property fail; this is the only way for it to fail.
THEOREM ExclusiveExecution == Spec /\ DeletesExpiredOnly => []OneExecutor
<1>1. Init => AllRecorded
  BY OwnerFacts DEF Init, AllRecorded, Owners
<1>2. IInv /\ AllRecorded /\ [Next]_vars /\ [DeleteVictims => expiry <= 0]_vars
        => AllRecorded'
  BY RecordKept
<1>3. IInv /\ AllRecorded => OneExecutor
  BY DEF IInv, Core, AllRecorded, OneRecordedExecutor, OneExecutor
<1> QED
  BY <1>1, <1>2, <1>3, Invariance, PTL DEF Spec, DeletesExpiredOnly

\* A replay returns the result of a request with the same fingerprint.
THEOREM ReplaysMatch == Spec => []StoredResultMatches
<1>1. IInv => StoredResultMatches
  BY DEF IInv, Core
<1> QED
  BY <1>1, Invariance, PTL

\* A request that met an unexpired success is not executed.
THEOREM SuccessIsReplayed == Spec => []ReplayedNotRepeated
<1>1. IInv => ReplayedNotRepeated
  BY OwnerFacts DEF IInv, Core, TypeOK, Replays, ReplayedNotRepeated, Owners
<1> QED
  BY <1>1, Invariance, PTL

-----------------------------------------------------------------------------
(* The promise of IdempotencyContract *)

\* A request has a fingerprint from its arrival to its end, and so has a row.
Named ==
  /\ \A w \in Workers : pc[w] # "idle" => fp[w] \in Fingerprints
  /\ row = "none" <=> rowFp = "none"

\* Named is kept.
LEMMA NamedStep == IInv /\ Named /\ [Next]_vars => Named'
<1> SUFFICES ASSUME IInv, Named, [Next]_vars PROVE Named'
  OBVIOUS
<1> USE FingerprintsAssumption DEF IInv, TypeOK, Statuses, Named, Goto, Leave, Claim, rowVars, reqVars
<1>1. CASE UNCHANGED vars \/ SelectVictims \/ DeleteVictims \/ CleanupFails \/ Tick
  BY <1>1 DEF vars, SelectVictims, DeleteVictims, CleanupFails, Tick
<1>2. ASSUME NEW w \in Workers, Begin(w) \/ RenewProcessingLease(w) \/ Abandon(w)
      PROVE  Named'
  BY <1>2 DEF Begin, RenewProcessingLease, Abandon
<1>3. ASSUME NEW w \in Workers, Step(w) PROVE Named'
  <2>1. CASE CreateProcessing(w) \/ ReclaimExpired(w) \/ ReclaimFailed(w)
    BY <2>1 DEF CreateProcessing, ReclaimExpired, ReclaimFailed, Reclaimable
  <2>2. CASE GetExisting(w) \/ GetLatest(w)
    BY <2>2 DEF GetExisting, GetLatest, Dispatch
  <2>3. CASE Execution(w) \/ MarkSucceeded(w) \/ MarkFailedRetryable(w)
    BY <2>3 DEF Execution, MarkSucceeded, MarkFailedRetryable, Core, Links
  <2> QED
    BY <1>3, <2>1, <2>2, <2>3 DEF Step
<1> QED
  BY <1>1, <1>2, <1>3 DEF Next

\* The executions the promise sees without a record.
Loose == Owners \ link

\* All that the promise sees.
Seen == <<rowFp, Executing, Recorded, Loose, victim = "yes">>

\* While nobody executes on the record the promise sees a quiet key.
LEMMA QuietKey == ASSUME Owners \cap link = {}, Named PROVE Contract!Quiet
<1>1. ASSUME NEW r \in Workers, Executing[r] # "none" PROVE r \in Owners \ link
  BY <1>1 DEF Executing
<1> QED
  BY <1>1 DEF Contract!Quiet

\* A request that takes a row nobody owns starts an execution.
LEMMA ClaimStarts ==
  ASSUME IInv, Named, NEW w \in Workers, pc[w] \notin OwnerSteps \cup {"idle"},
         Owners \cap link = {}, Claim(w), link' \ {w} = link \ {w}, w \in link',
         rowFp \in {"none", fp[w]}, rowFp' = fp[w]
  PROVE  Contract!Start(w)
<1>1. Executing' = [Executing EXCEPT ![w] = fp[w]] /\ Executing[w] = "none"
  BY OwnerFacts DEF IInv, TypeOK, Executing, Owners, Claim, Goto, reqVars
<1>2. Recorded' = "none" /\ fp[w] \in Fingerprints
  BY DEF Recorded, Claim, Named
<1>3. Contract!Quiet
  BY QuietKey
<1>4. Loose' = Loose /\ victim' = victim
  BY OwnerFacts DEF IInv, TypeOK, Loose, Owners, Claim, Goto
<1> QED
  BY <1>1, <1>2, <1>3, <1>4 DEF Contract!Start, Loose

\* A request that returns ends its execution, if it has one.
LEMMA LeaveEnds ==
  ASSUME IInv, Named, NEW w \in Workers, Leave(w), link' = link \ {w}
  PROVE  /\ pc[w] \in OwnerSteps => Contract!End(w) /\ Executing[w] = fp[w]
         /\ pc[w] \notin OwnerSteps => Executing' = Executing /\ Loose' = Loose
         /\ victim' = victim
<1>1. Executing' = [Executing EXCEPT ![w] = "none"]
  BY OwnerFacts DEF IInv, TypeOK, Executing, Owners, Leave, Goto
<1>2. pc[w] \in OwnerSteps => Executing[w] = fp[w] /\ Executing[w] # "none"
  BY OwnerFacts, FingerprintsAssumption DEF Executing, Owners, Named
<1>3. pc[w] \notin OwnerSteps => Executing[w] = "none"
  BY DEF Executing, Owners
<1>4. Loose' = Loose \ {w} /\ (pc[w] \notin OwnerSteps => Loose' = Loose)
  BY OwnerFacts DEF IInv, TypeOK, Loose, Owners, Leave, Goto
<1>5. victim' = victim
  BY DEF Leave
<1> QED
  BY <1>1, <1>2, <1>3, <1>4, <1>5 DEF Contract!End, Executing, Loose

\* A request goes on without starting or ending an execution.
LEMMA GoesOn ==
  ASSUME IInv, NEW w \in Workers, NEW step, Goto(w, step), fp' = fp,
         pc[w] \in OwnerSteps <=> step \in OwnerSteps,
         link' \ {w} = link \ {w}, step \in OwnerSteps => link' = link
  PROVE  Executing' = Executing /\ Loose' = Loose
  BY DEF IInv, TypeOK, Executing, Owners, Goto, Loose

\* Every step of the coordinator is a step of the promise, or changes nothing
\* that the promise sees.
LEMMA KeyStep ==
  IInv /\ Named /\ [Next]_vars => [Contract!Next]_(Contract!contractVars)
<1> SUFFICES ASSUME IInv, Named, [Next]_vars
             PROVE  Contract!Next \/ UNCHANGED Seen
  BY DEF Contract!contractVars, Seen, Loose
<1>1. CASE UNCHANGED vars
  BY <1>1 DEF vars, rowVars, reqVars, Seen, Loose, Executing, Owners, Recorded
<1>2. CASE SelectVictims
  <2>1. Owners \cap link = {} /\ rowFp # "none"
    BY <1>2, TimesAssumption
       DEF SelectVictims, Deletable, IInv, Core, TypeOK, OwnerHolds, Owners, Named
  <2>2. UNCHANGED <<rowFp, Executing, Recorded, Loose>>
    BY <1>2 DEF SelectVictims, rowVars, reqVars, Recorded, Executing, Owners, Loose
  <2>3. Contract!Condemn
    BY <1>2, <2>1, <2>2, QuietKey DEF SelectVictims, Contract!Condemn, Loose
  <2> QED
    BY <2>3 DEF Contract!Next
<1>3. CASE DeleteVictims
  <2>1. rowFp' = "none" /\ Recorded' = "none" /\ Executing' = Executing
    BY <1>3 DEF DeleteVictims, Recorded, Executing, Owners, reqVars
  <2>2. Loose' = {w \in Workers : Executing[w] # "none"}
    <3>1. Loose' = Owners
      BY <1>3 DEF DeleteVictims, Loose, Owners
    <3>2. \A w \in Workers : w \in Owners <=> Executing[w] # "none"
      BY OwnerFacts, FingerprintsAssumption DEF Executing, Owners, Named
    <3> QED
      BY <3>1, <3>2 DEF Owners
  <2>3. Contract!Sweep
    BY <1>3, <2>1, <2>2 DEF DeleteVictims, Contract!Sweep, Loose
  <2> QED
    BY <2>3 DEF Contract!Next
<1>4. CASE CleanupFails
  <2>1. UNCHANGED <<rowFp, Executing, Recorded, Loose>>
    BY <1>4 DEF CleanupFails, rowVars, reqVars, Recorded, Executing, Owners, Loose
  <2>2. Contract!Reprieve
    BY <1>4, <2>1 DEF CleanupFails, Contract!Reprieve, Loose
  <2> QED
    BY <2>2 DEF Contract!Next
<1>5. CASE Tick
  BY <1>5 DEF Tick, Seen, Loose, Executing, Owners, Recorded
<1>6. ASSUME NEW w \in Workers, Begin(w) PROVE UNCHANGED Seen
  BY <1>6, OwnerFacts
     DEF Begin, Goto, rowVars, Seen, Loose, Executing, Owners, Recorded, IInv, TypeOK
<1>7. ASSUME NEW w \in Workers, RenewProcessingLease(w) PROVE UNCHANGED Seen
  BY <1>7 DEF RenewProcessingLease, reqVars, Seen, Loose, Executing, Owners, Recorded
<1>8. ASSUME NEW w \in Workers, Abandon(w) PROVE Contract!Next \/ UNCHANGED Seen
  <2>1. Leave(w) /\ link' = link \ {w} /\ UNCHANGED <<rowFp, Recorded>>
    BY <1>8 DEF Abandon, rowVars, Recorded
  <2> QED
    BY <2>1, LeaveEnds DEF Contract!Next, Contract!Fail, Seen
<1>9. ASSUME NEW w \in Workers, Step(w) PROVE Contract!Next \/ UNCHANGED Seen
  <2>1. CASE CreateProcessing(w)
    <3>1. CASE row = "none"
      <4>1. link = {} /\ rowFp = "none"
        BY <3>1 DEF IInv, Core, Links, Named
      <4>2. Contract!Start(w)
        BY <2>1, <3>1, <4>1, ClaimStarts, OwnerFacts DEF CreateProcessing
      <4> QED
        BY <4>2 DEF Contract!Next
    <3>2. CASE row # "none"
      <4>1. Goto(w, "get") /\ pc[w] = "create"
            /\ UNCHANGED <<fp, link, rowFp, Recorded, victim>>
        BY <2>1, <3>2 DEF CreateProcessing, rowVars, Recorded
      <4> QED
        BY <4>1, GoesOn, OwnerFacts DEF Seen
    <3> QED
      BY <3>1, <3>2
  <2>2. CASE ReclaimExpired(w) \/ ReclaimFailed(w)
    <3>1. CASE Reclaimable(w)
      <4>1. /\ Claim(w) /\ UNCHANGED <<rowFp, link>> /\ rowFp = fp[w] /\ w \in link
            /\ pc[w] \notin OwnerSteps \cup {"idle"}
        BY <2>2, <3>1, OwnerFacts
           DEF ReclaimExpired, ReclaimFailed, Reclaimable, IInv, Core, Links
      <4>2. Owners \cap link = {}
        BY <2>2, <3>1
           DEF ReclaimExpired, ReclaimFailed, Reclaimable, IInv, Core, TypeOK, OwnerHolds,
               Owners, Waiters
      <4>3. Contract!Start(w)
        BY <4>1, <4>2, ClaimStarts
      <4> QED
        BY <4>3 DEF Contract!Next
    <3>2. CASE ~Reclaimable(w)
      <4>1. UNCHANGED <<rowFp, Recorded, victim>> /\ pc[w] \notin OwnerSteps
        BY <2>2, <3>2, OwnerFacts DEF ReclaimExpired, ReclaimFailed, Leave, rowVars, Recorded
      <4>2. CASE ReclaimExpired(w)
        BY <3>2, <4>1, <4>2, GoesOn, OwnerFacts DEF ReclaimExpired, reqVars, Seen
      <4>3. CASE ReclaimFailed(w)
        BY <3>2, <4>1, <4>3, LeaveEnds DEF ReclaimFailed, Seen
      <4> QED
        BY <2>2, <4>2, <4>3
    <3> QED
      BY <3>1, <3>2
  <2>3. CASE GetExisting(w) \/ GetLatest(w)
    <3>1. UNCHANGED <<rowFp, Recorded, victim>> /\ pc[w] \notin OwnerSteps
      BY <2>3, OwnerFacts DEF GetExisting, GetLatest, Dispatch, Leave, rowVars, Recorded
    <3>2. pc[w] = "get" => w \notin link
      BY OwnerFacts DEF IInv, Core, Links
    <3>3. \/ Leave(w) /\ link' = link \ {w}
          \/ Goto(w, "reclaim_expired") /\ UNCHANGED fp /\ link' \ {w} = link \ {w}
          \/ Goto(w, "reclaim_failed") /\ UNCHANGED fp /\ link' \ {w} = link \ {w}
      BY <2>3, <3>2 DEF GetExisting, GetLatest, Dispatch
    <3>4. Executing' = Executing /\ Loose' = Loose
      BY <3>1, <3>3, LeaveEnds, GoesOn, OwnerFacts
    <3> QED
      BY <3>1, <3>4 DEF Seen
  <2>4. CASE Execution(w)
    <3>1. PICK step \in {"mark_succeeded", "mark_failed"} : Goto(w, step)
      BY <2>4 DEF Execution
    <3>2. pc[w] = "execute" /\ UNCHANGED <<fp, link, rowFp, Recorded, victim>>
      BY <2>4 DEF Execution, rowVars, reqVars, Recorded
    <3> QED
      BY <3>1, <3>2, GoesOn, OwnerFacts DEF Seen
  <2>5. CASE MarkSucceeded(w)
    <3>1. Contract!End(w) /\ Executing[w] = fp[w] /\ UNCHANGED victim
      BY <2>5, LeaveEnds, OwnerFacts DEF MarkSucceeded
    <3>2. CASE w \in link
      <4>1. Recorded' = fp[w] /\ UNCHANGED rowFp /\ w \notin Loose
        BY <2>5, <3>2 DEF MarkSucceeded, Recorded, Loose
      <4> QED
        BY <3>1, <4>1 DEF Contract!Next, Contract!Finish, Loose
    <3>3. CASE w \notin link
      <4>1. UNCHANGED <<rowFp, Recorded>>
        BY <2>5, <3>3 DEF MarkSucceeded, Recorded, rowVars
      <4> QED
        BY <3>1, <4>1 DEF Contract!Next, Contract!Fail
    <3> QED
      BY <3>2, <3>3
  <2>6. CASE MarkFailedRetryable(w)
    <3>1. Contract!End(w) /\ UNCHANGED victim
      BY <2>6, LeaveEnds, OwnerFacts DEF MarkFailedRetryable
    <3>2. UNCHANGED <<rowFp, Recorded>>
      BY <2>6, OwnerFacts
         DEF MarkFailedRetryable, Recorded, rowVars, IInv, Core, OwnerHolds
    <3> QED
      BY <3>1, <3>2 DEF Contract!Next, Contract!Fail
  <2> QED
    BY <1>9, <2>1, <2>2, <2>3, <2>4, <2>5, <2>6 DEF Step
<1> QED
  BY <1>1, <1>2, <1>3, <1>4, <1>5, <1>6, <1>7, <1>8, <1>9 DEF Next

\* Requests that race, stall and die, stale reads, and the cleanup implement
\* the promise of IdempotencyContract: one payload to a key, one execution on
\* record after the other, each result put on record by its own execution, and
\* no execution without a record but one that took over a record the cleanup
\* had chosen to delete.
THEOREM Refinement == Spec => ImplementsKeyContract
<1>1. Init => Contract!Init /\ Named
  BY OwnerFacts DEF Init, Contract!Init, Executing, Owners, Recorded, Named
<1>2. IInv /\ Named /\ [Next]_vars => Named'
  BY NamedStep
<1> QED
  BY <1>1, <1>2, KeyStep, Invariance, PTL DEF Spec, ImplementsKeyContract, Contract!Spec

-----------------------------------------------------------------------------
(* Executions over a recorded success *)

\* The one way to execute over an unexpired success: the request found the
\* key's earlier success expired, and TryReclaim, which compares the status and
\* not the expiry, takes for it the success another request has recorded since.
\* An insert, a failed record's reclaim and the takeover of an abandoned one
\* never start an execution there.
THEOREM RepeatsAreStaleReclaims ==
  Spec => [][\A w \in Workers :
               /\ row = "succeeded" /\ expiry > 0
               /\ pc[w] # "execute" /\ pc'[w] = "execute"
               => pc[w] = "reclaim_expired" /\ from[w] = "succeeded"]_vars
<1> DEFINE Repeats(w) == /\ row = "succeeded" /\ expiry > 0
                         /\ pc[w] # "execute" /\ pc'[w] = "execute"
           Stale(w) == pc[w] = "reclaim_expired" /\ from[w] = "succeeded"
<1>1. ASSUME IInv, Next, NEW w \in Workers, Repeats(w) PROVE Stale(w)
  <2> USE <1>1 DEF IInv, TypeOK, Goto, Leave, Claim, rowVars, reqVars
  <2>1. ASSUME NEW v \in Workers, Begin(v) \/ RenewProcessingLease(v) \/ Abandon(v)
        PROVE  FALSE
    BY <2>1 DEF Begin, RenewProcessingLease, Abandon
  <2>2. ASSUME NEW v \in Workers, CreateProcessing(v) PROVE FALSE
    BY <2>2 DEF CreateProcessing
  <2>3. ASSUME NEW v \in Workers, GetExisting(v) \/ GetLatest(v) PROVE FALSE
    BY <2>3 DEF GetExisting, GetLatest, Dispatch
  <2>4. ASSUME NEW v \in Workers, ReclaimExpired(v) PROVE Stale(w)
    BY <2>4 DEF ReclaimExpired, Reclaimable
  <2>5. ASSUME NEW v \in Workers, ReclaimFailed(v) PROVE FALSE
    BY <2>5 DEF ReclaimFailed, Reclaimable, Core, Waiters
  <2>6. ASSUME NEW v \in Workers, Execution(v) \/ MarkSucceeded(v) \/ MarkFailedRetryable(v)
        PROVE  FALSE
    BY <2>6 DEF Execution, MarkSucceeded, MarkFailedRetryable
  <2>7. CASE SelectVictims \/ DeleteVictims \/ CleanupFails \/ Tick
    BY <2>7 DEF SelectVictims, DeleteVictims, CleanupFails, Tick
  <2> QED
    BY <2>1, <2>2, <2>3, <2>4, <2>5, <2>6, <2>7 DEF Next, Step
<1>2. IInv /\ [Next]_vars => [\A w \in Workers : Repeats(w) => Stale(w)]_vars
  BY <1>1
<1> QED
  BY <1>2, Invariance, PTL DEF Spec
=============================================================================
