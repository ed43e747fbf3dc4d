----------------------------- MODULE Idempotency -----------------------------
(***************************************************************************)
(* The idempotency coordinator: requests that carry the same scope and     *)
(* Idempotency-Key share one row of idempotency_records, which decides     *)
(* which of them executes, which replays the stored result and which is    *)
(* refused.  One key is enough, the code relates no two keys.              *)
(*                                                                         *)
(* Time passes without bound.  An instant is kept as its distance from the *)
(* present: lock and expiry are the time left to locked_until and          *)
(* expires_at (negative once passed, saturating at -MaxRun, before which   *)
(* no running request started), lag is the time since the request computed *)
(* its own now, which it goes on using in all its comparisons.             *)
(***************************************************************************)
EXTENDS Integers

CONSTANTS
  Workers,       \* goroutines that run requests, on any instance
  Fingerprints,  \* request fingerprints (method, route, actor, payload)
  TTL,           \* lifetime of a record
  Timeout,       \* ProcessingTimeout, the length of the processing lock
  Backoff,       \* FailedRetryBackoff
  MaxWait,       \* longest time from a request's now to its execution
  MaxRun         \* longest time from a request's now to its end

\* The defaults are a lifetime of a day (an hour for system operations), a lock
\* of 30 s and a backoff of 5 s; the configuration refuses values that are not
\* positive.  That a request waits less than the lock and runs less than the
\* lifetime is assumed of the deployment, no timeout of the coordinator says so.
ASSUME TimesAssumption ==
  /\ TTL \in Nat /\ Timeout \in Nat /\ Backoff \in Nat \ {0}
  /\ MaxWait \in Nat /\ MaxRun \in Nat
  /\ MaxWait < Timeout /\ MaxRun < TTL /\ MaxWait <= MaxRun

\* "none" stands for the absence of a fingerprint.
ASSUME FingerprintsAssumption == "none" \notin Fingerprints

VARIABLES
  row,       \* status of the key's row, "none" without a row
  rowFp,     \* its request_fingerprint
  lock,      \* time left to its locked_until; -MaxRun for NULL
  expiry,    \* time left to its expires_at
  result,    \* the fingerprint whose response is in response_body, or "none"
  pc,        \* next step of each request
  fp,        \* its fingerprint
  mode,      \* "detached" with an ExecutionTimeout, else "attached"
  lag,       \* time since its now
  link,      \* requests whose record id is the id of the row
  from,      \* the status the request read and will reclaim from
  late,      \* has the key been found with an unexpired success? "no", "yes"
  victim     \* is the row's id among the victims of a running cleanup? "no", "yes"

rowVars == <<row, rowFp, lock, expiry, result>>
reqVars == <<fp, mode, lag, from, late>>
vars == <<rowVars, pc, reqVars, link, victim>>

Statuses == {"processing", "succeeded", "failed_retryable"}

\* Steps of the owner of the record.
OwnerSteps == {"execute", "mark_succeeded", "mark_failed"}

Steps == {"idle", "create", "get", "reclaim_expired", "get_latest",
          "reclaim_failed"} \cup OwnerSteps

Left == -MaxRun

TypeOK ==
  /\ row \in {"none"} \cup Statuses
  /\ rowFp \in Fingerprints \cup {"none"}
  /\ lock \in Int /\ lock >= Left
  /\ expiry \in Int /\ expiry >= Left
  /\ result \in Fingerprints \cup {"none"}
  /\ pc \in [Workers -> Steps]
  /\ fp \in [Workers -> Fingerprints \cup {"none"}]
  /\ mode \in [Workers -> {"attached", "detached"}]
  /\ lag \in [Workers -> 0..MaxRun]
  /\ link \subseteq Workers
  /\ from \in [Workers -> Statuses]
  /\ late \in [Workers -> {"no", "yes"}]
  /\ victim \in {"no", "yes"}

-----------------------------------------------------------------------------
(* Helpers *)

Goto(w, step) == pc' = [pc EXCEPT ![w] = step]

\* The request returns, and so forgets the record.
Leave(w) ==
  /\ Goto(w, "idle")
  /\ fp' = [fp EXCEPT ![w] = "none"]
  /\ mode' = [mode EXCEPT ![w] = "attached"]
  /\ lag' = [lag EXCEPT ![w] = 0]
  /\ from' = [from EXCEPT ![w] = "processing"]
  /\ late' = [late EXCEPT ![w] = "no"]
  /\ UNCHANGED victim

\* The row, as processing for request w: locked_until and expires_at are
\* counted from the request's now.
Claim(w) ==
  /\ row' = "processing"
  /\ lock' = Timeout - lag[w]
  /\ expiry' = TTL - lag[w]
  /\ Goto(w, "execute")
  /\ UNCHANGED <<reqVars, result, victim>>

\* Mutant: the record is given up when its lock ends.
ExpiredEarly(w) == lock + lag[w] <= 0

\* !existing.ExpiresAt.After(now)
Expired(w) == expiry + lag[w] <= 0

\* Mutant: a row that is gone is not checked for.
SameRequestUnchecked(w) == row = "none" \/ rowFp = fp[w]

\* Mutant: any payload may use the key.
SameRequestAny(w) == row # "none"

\* The row that was read exists and has the request's fingerprint.
SameRequest(w) == row # "none" /\ rowFp = fp[w]

\* The condition of TryReclaim's UPDATE.
Reclaimable(w) == w \in link /\ row = from[w] /\ lock + lag[w] <= 0

\* The switch on the status of the row that was read: a success is replayed, a
\* record in progress or in backoff is a conflict.
Dispatch(w) ==
  IF row = "failed_retryable" /\ lock + lag[w] <= 0
    THEN /\ Goto(w, "reclaim_failed")
         /\ link' = link \cup {w}
         /\ from' = [from EXCEPT ![w] = row]
         /\ UNCHANGED <<fp, mode, lag, late, victim>>
    ELSE Leave(w) /\ link' = link \ {w}

-----------------------------------------------------------------------------
(* Execute *)

\* A request arrives and takes its now.
Begin(w) ==
  /\ pc[w] = "idle"
  /\ \E f \in Fingerprints : fp' = [fp EXCEPT ![w] = f]
  /\ \E m \in {"attached", "detached"} : mode' = [mode EXCEPT ![w] = m]
  /\ Goto(w, "create")
  /\ UNCHANGED <<rowVars, lag, link, from, late, victim>>

\* CreateProcessing: INSERT ... ON CONFLICT DO NOTHING.  (late only remembers
\* what the conflicting row was, for the property about replays.)
CreateProcessing(w) ==
  /\ pc[w] = "create"
  /\ IF row = "none"
       THEN Claim(w) /\ rowFp' = fp[w] /\ link' = {w}
       ELSE /\ Goto(w, "get")
            /\ late' = [late EXCEPT ![w] =
                         IF row = "succeeded" /\ expiry + lag[w] > 0 THEN "yes" ELSE "no"]
            /\ UNCHANGED <<rowVars, fp, mode, lag, from, link, victim>>

\* GetByScopeAndKeyHash and what is decided on the row it read.
GetExisting(w) ==
  /\ pc[w] = "get"
  /\ IF SameRequest(w)
       THEN IF Expired(w)
              THEN /\ Goto(w, "reclaim_expired")
                   /\ link' = link \cup {w}
                   /\ from' = [from EXCEPT ![w] = row]
                   /\ UNCHANGED <<fp, mode, lag, late, victim>>
              ELSE Dispatch(w)
       ELSE Leave(w) /\ UNCHANGED link
  /\ UNCHANGED rowVars

\* TryReclaim of an expired record; who loses reads the row again.
ReclaimExpired(w) ==
  /\ pc[w] = "reclaim_expired"
  /\ IF Reclaimable(w)
       THEN Claim(w) /\ UNCHANGED <<rowFp, link>>
       ELSE Goto(w, "get_latest") /\ UNCHANGED <<rowVars, reqVars, link, victim>>

\* The second read; the expiry of what it finds is not looked at again.
GetLatest(w) ==
  /\ pc[w] = "get_latest"
  /\ IF SameRequest(w) THEN Dispatch(w) ELSE Leave(w) /\ link' = link \ {w}
  /\ UNCHANGED rowVars

\* TryReclaim of a failed record whose backoff is over.
ReclaimFailed(w) ==
  /\ pc[w] = "reclaim_failed"
  /\ IF Reclaimable(w)
       THEN Claim(w) /\ UNCHANGED <<rowFp, link>>
       ELSE Leave(w) /\ link' = link \ {w} /\ UNCHANGED rowVars

\* The caller's function returns a result or an error.
Execution(w) ==
  /\ pc[w] = "execute"
  /\ \E step \in {"mark_succeeded", "mark_failed"} : Goto(w, step)
  /\ UNCHANGED <<rowVars, reqVars, link, victim>>

\* renewProcessingLease: ExtendProcessingLock from the ticker.
RenewProcessingLease(w) ==
  /\ pc[w] = "execute" /\ mode[w] = "detached"
  /\ w \in link /\ row = "processing" /\ rowFp = fp[w]
  /\ lock' = Timeout /\ expiry' = TTL
  /\ UNCHANGED <<row, rowFp, result, pc, reqVars, link, victim>>

\* A detached request counts the lifetime from the end of its execution.
FinalExpiry(w) == IF mode[w] = "detached" THEN TTL ELSE TTL - lag[w]

\* MarkSucceeded updates by id alone.
MarkSucceeded(w) ==
  /\ pc[w] = "mark_succeeded"
  /\ IF w \in link
       THEN /\ row' = "succeeded" /\ result' = fp[w]
            /\ lock' = Left /\ expiry' = FinalExpiry(w)
            /\ UNCHANGED rowFp
       ELSE UNCHANGED rowVars
  /\ Leave(w) /\ link' = link \ {w}

\* MarkFailedRetryable updates by id alone.
MarkFailedRetryable(w) ==
  /\ pc[w] = "mark_failed"
  /\ IF w \in link
       THEN /\ row' = "failed_retryable"
            /\ lock' = Backoff /\ expiry' = FinalExpiry(w)
            /\ UNCHANGED <<rowFp, result>>
       ELSE UNCHANGED rowVars
  /\ Leave(w) /\ link' = link \ {w}

\* A call to the store fails, the response cannot be marshalled, the client
\* goes away or the process stops: the request ends and the row stays.
Abandon(w) ==
  /\ pc[w] # "idle"
  /\ Leave(w) /\ link' = link \ {w}
  /\ UNCHANGED rowVars

-----------------------------------------------------------------------------
(* The cleanup service and time *)

\* Mutant: only finished records are cleaned up.
DeletableFinished == row \in {"succeeded", "failed_retryable"} /\ expiry <= 0

\* Mutant: a record whose lock has run out is cleaned up.
DeletableUnlocked == row # "none" /\ lock <= 0

Deletable == row # "none" /\ expiry <= 0

\* cleanupOnce, DeleteExpired: one statement, of which two parts are apart.  Its
\* CTE takes the ids of expired rows from the snapshot the statement starts with.
SelectVictims ==
  /\ victim = "no" /\ Deletable
  /\ victim' = "yes"
  /\ UNCHANGED <<rowVars, pc, reqVars, link>>

\* Its DELETE removes the rows with those ids.  A row that was written since is
\* read again, but all that is asked of it is its id: expires_at is not.
DeleteVictims ==
  /\ victim = "yes"
  /\ row' = "none" /\ rowFp' = "none" /\ result' = "none"
  /\ lock' = Left /\ expiry' = Left
  /\ link' = {} /\ victim' = "no"
  /\ UNCHANGED <<pc, reqVars>>

\* The statement fails or runs into the 10 s of cleanupOnce.
CleanupFails ==
  /\ victim = "yes"
  /\ victim' = "no"
  /\ UNCHANGED <<rowVars, pc, reqVars, link>>

Earlier(t) == IF t > Left THEN t - 1 ELSE t

\* A unit of time passes, if every request under way may last as long.
Tick ==
  /\ \A w \in Workers :
       /\ pc[w] \in OwnerSteps => lag[w] < MaxRun
       /\ pc[w] \notin OwnerSteps \cup {"idle"} => lag[w] < MaxWait
  /\ lag' = [w \in Workers |-> IF pc[w] = "idle" THEN 0 ELSE lag[w] + 1]
  /\ lock' = Earlier(lock) /\ expiry' = Earlier(expiry)
  /\ UNCHANGED <<row, rowFp, result, pc, fp, mode, from, late, link, victim>>

-----------------------------------------------------------------------------
Init ==
  /\ row = "none" /\ rowFp = "none" /\ result = "none"
  /\ lock = Left /\ expiry = Left
  /\ pc = [w \in Workers |-> "idle"]
  /\ fp = [w \in Workers |-> "none"]
  /\ mode = [w \in Workers |-> "attached"]
  /\ lag = [w \in Workers |-> 0]
  /\ link = {}
  /\ from = [w \in Workers |-> "processing"]
  /\ late = [w \in Workers |-> "no"]
  /\ victim = "no"

Step(w) ==
  \/ CreateProcessing(w) \/ GetExisting(w) \/ ReclaimExpired(w) \/ GetLatest(w)
  \/ ReclaimFailed(w) \/ Execution(w) \/ MarkSucceeded(w) \/ MarkFailedRetryable(w)

Next ==
  \/ \E w \in Workers : \/ Begin(w) \/ Step(w) \/ RenewProcessingLease(w)
                        \/ Abandon(w)
  \/ SelectVictims \/ DeleteVictims \/ CleanupFails \/ Tick

Spec == Init /\ [][Next]_vars

\* Requests run on, time passes, and the cleanup service runs every minute and
\* does not fail every time.
FairSpec == /\ Spec
            /\ \A w \in Workers : WF_vars(Step(w))
            /\ WF_vars(SelectVictims) /\ SF_vars(DeleteVictims) /\ WF_vars(Tick)

-----------------------------------------------------------------------------
(* Properties *)

Owners == {w \in Workers : pc[w] \in OwnerSteps}

\* A stored response answers the payload of its record's fingerprint: a replay
\* never returns the result of another request.
StoredResultMatches == row = "succeeded" => result = rowFp

\* A request that met an unexpired success replays it or is refused, it is not
\* executed, whatever happens to the row between its insert and its read.
ReplayedNotRepeated == \A w \in Owners : late[w] = "no"

\* The key as the coordinator's promise sees it.
Executing == [w \in Workers |-> IF w \in Owners THEN fp[w] ELSE "none"]

Recorded == IF row = "succeeded" THEN result ELSE "none"

Contract == INSTANCE IdempotencyContract WITH
  Requests <- Workers, Payloads <- Fingerprints,
  bound <- rowFp, running <- Executing, stored <- Recorded,
  loose <- Owners \ link, doomed <- victim = "yes"

\* Requests that race, stall, die and act on stale reads of the row, and the
\* cleanup, implement the promise: one payload to a key, one execution on record
\* after the other, each result put on record by the execution that produced it,
\* and no execution off the record but one that took over a record the cleanup
\* had already chosen to delete.
ImplementsKeyContract == Contract!Spec

\* The record of a request that died is not in progress for ever.
Orphaned == row = "processing" /\ Owners = {}

OrphanEnds == Orphaned ~> ~ Orphaned

\* "concurrent same-key requests should execute business side-effect once"
\* (idempotency_test.go:394): two requests with the same key are never executed
\* at the same time.
OneExecutor == \A v, w \in Owners : v = w

\* The table is there for "request deduplication and result replay"
\* (migration 057): no request starts executing while the key has an unexpired
\* success on record.
NoExecutionOnRecordedSuccess ==
  [][\A w \in Workers :
       pc[w] # "execute" /\ pc'[w] = "execute" => ~ (row = "succeeded" /\ expiry > 0)]_vars
=============================================================================
