----------------------------- MODULE IngressLease -----------------------------
(***************************************************************************)
(* The lease that bounds the open client WebSockets of one API key: a      *)
(* Redis sorted set with a member per connection, whose score is the time  *)
(* of its last refresh, and on every server instance a handler and a       *)
(* refresh loop per connection.                                            *)
(*                                                                         *)
(* Time is discrete and passes for everyone at once (Redis reads its own   *)
(* clock, a loop measures durations on its monotonic clock).  What is due, *)
(* a ticker that has fired or a call that has used up its time, happens    *)
(* before time goes on.  A call to Redis is sent, executed and answered in *)
(* separate steps; it may fail at each of them, and a request whose caller *)
(* has given up may still be executed later.                               *)
(***************************************************************************)
EXTENDS Integers, FiniteSets

CONSTANTS
  Leases,    \* lease ids: the connections there can be at once
  Max,       \* MaxIngressConnectionsPerAPIKey, positive
  TTL,       \* openAIWSIngressLeaseTTL, also the TTL of the scripts
  Interval,  \* openAIWSIngressLeaseRefreshInterval
  Timeout    \* the longest a call to Redis may take

ASSUME LeasesAssumption == IsFiniteSet(Leases)

ASSUME MaxAssumption == Max \in Nat \ {0}

\* 60, 20 and 2 seconds in the code.
ASSUME TimesAssumption ==
  /\ TTL \in Nat /\ Interval \in Nat /\ Timeout \in Nat
  /\ Timeout < Interval
  /\ Interval + Timeout < TTL

VARIABLES
  age,    \* age of the member in the sorted set, TTL when it has none
  conn,   \* the handler and the refresh loop of the connection
  call,   \* its call to Redis: "none", "sent", or the answer "yes" or "no"
  wait,   \* time since that call was sent
  timer,  \* time since the ticker last fired
  conf,   \* time since lastConfirmedAt
  late    \* a request whose caller has given up and Redis may still execute

vars == <<age, conn, call, wait, timer, conf, late>>

\* The handler or the loop waits for an answer.
Calling == {"acquiring", "refreshing", "draining", "releasing"}

\* The client's WebSocket is served: the context is not cancelled.
Open == {"open", "refreshing"}

Ended == {"closed", "refused"}

TypeOK ==
  /\ age \in [Leases -> 0..TTL]
  /\ conn \in [Leases -> Calling \cup Open \cup Ended \cup {"cancelled"}]
  /\ call \in [Leases -> {"none", "sent", "yes", "no"}]
  /\ wait \in [Leases -> 0..Timeout]
  /\ timer \in [Leases -> 0..Interval]
  /\ conf \in [Leases -> Nat]
  /\ late \in [Leases -> {"none", "acquire", "refresh", "release"}]

Init ==
  /\ age = [l \in Leases |-> TTL]
  /\ conn = [l \in Leases |-> "closed"]
  /\ call = [l \in Leases |-> "none"]
  /\ wait = [l \in Leases |-> 0]
  /\ timer = [l \in Leases |-> 0]
  /\ conf = [l \in Leases |-> 0]
  /\ late = [l \in Leases |-> "none"]

-----------------------------------------------------------------------------
(* The scripts.  Each begins with ZREMRANGEBYSCORE up to now - ttl, so an  *)
(* expired member is no different from a missing one.                      *)

Counted == {l \in Leases : age[l] < TTL}

\* Mutant: a repeated request is not recognised by its member.
CanAcquireNew(l) == Cardinality(Counted) < Max

\* Mutant: one connection too many is admitted.
CanAcquireOver(l) == age[l] < TTL \/ Cardinality(Counted) <= Max

CanAcquire(l) == age[l] < TTL \/ Cardinality(Counted) < Max

\* Mutant: the script adds the member again.
CanRefreshAlways(l) == age[l] <= TTL

CanRefresh(l) == age[l] < TTL

\* The score of the member after acquire and refresh.
Score(l, granted) == IF granted THEN 0 ELSE age[l]

Request(l) ==
  IF conn[l] = "acquiring" THEN "acquire"
  ELSE IF conn[l] = "releasing" THEN "release" ELSE "refresh"

ExecAcquire(l) ==
  /\ age' = [age EXCEPT ![l] = Score(l, CanAcquire(l))]
  /\ call' = [call EXCEPT ![l] = IF CanAcquire(l) THEN "yes" ELSE "no"]

ExecRefresh(l) ==
  /\ age' = [age EXCEPT ![l] = Score(l, CanRefresh(l))]
  /\ call' = [call EXCEPT ![l] = IF CanRefresh(l) THEN "yes" ELSE "no"]

ExecRelease(l) ==
  /\ age' = [age EXCEPT ![l] = TTL]
  /\ call' = [call EXCEPT ![l] = "yes"]

Exec(l) ==
  /\ conn[l] \in Calling /\ call[l] = "sent"
  /\ \/ Request(l) = "acquire" /\ ExecAcquire(l)
     \/ Request(l) = "refresh" /\ ExecRefresh(l)
     \/ Request(l) = "release" /\ ExecRelease(l)
  /\ UNCHANGED <<conn, wait, timer, conf, late>>

\* The connection to Redis breaks before the answer is read: the client
\* library sends the same request again.
Resend(l) ==
  /\ conn[l] \in Calling /\ call[l] \in {"yes", "no"}
  /\ call' = [call EXCEPT ![l] = "sent"]
  /\ UNCHANGED <<age, conn, wait, timer, conf, late>>

\* Redis executes a request whose caller has given up.
ExecLate(l) ==
  /\ \/ late[l] = "acquire" /\ age' = [age EXCEPT ![l] = Score(l, CanAcquire(l))]
     \/ late[l] = "refresh" /\ age' = [age EXCEPT ![l] = Score(l, CanRefresh(l))]
     \/ late[l] = "release" /\ age' = [age EXCEPT ![l] = TTL]
  /\ late' = [late EXCEPT ![l] = "none"]
  /\ UNCHANGED <<conn, call, wait, timer, conf>>

DropLate(l) ==
  /\ late[l] # "none"
  /\ late' = [late EXCEPT ![l] = "none"]
  /\ UNCHANGED <<age, conn, call, wait, timer, conf>>

-----------------------------------------------------------------------------
(* The handler and the refresh loop.                                       *)

Send(l, state) ==
  /\ conn' = [conn EXCEPT ![l] = state]
  /\ call' = [call EXCEPT ![l] = "sent"]
  /\ wait' = [wait EXCEPT ![l] = 0]

\* The call is over; a request not yet executed may be left behind.
Return(l, state) ==
  /\ conn' = [conn EXCEPT ![l] = state]
  /\ call' = [call EXCEPT ![l] = "none"]
  /\ wait' = [wait EXCEPT ![l] = 0]

\* The loop has ended: its clocks are reset, for nothing reads them.
LoopEnds(l) ==
  /\ timer' = [timer EXCEPT ![l] = 0]
  /\ conf' = [conf EXCEPT ![l] = 0]

LeftBehind(l) ==
  IF call[l] = "sent" THEN {late[l], Request(l)} ELSE {late[l]}

\* A new connection has a lease id of its own: the model reuses one that
\* neither the sorted set nor a request still holds.
AcquireOpenAIWSIngressLease(l) ==
  /\ conn[l] \in Ended /\ age[l] = TTL /\ late[l] = "none"
  /\ Send(l, "acquiring")
  /\ UNCHANGED <<age, timer, conf, late>>

\* The lease is acquired and the refresh loop starts, or the answer is 429.
AcquireReturns(l) ==
  /\ conn[l] = "acquiring"
  /\ \/ call[l] = "yes" /\ Return(l, "open")
     \/ call[l] = "no" /\ Return(l, "refused")
  /\ UNCHANGED <<age, timer, conf, late>>

\* The caller gets an error and no lease to release: the answer is 503.
AcquireFails(l) ==
  /\ conn[l] = "acquiring"
  /\ Return(l, "closed")
  /\ \E left \in LeftBehind(l) : late' = [late EXCEPT ![l] = left]
  /\ UNCHANGED <<age, timer, conf>>

RefreshTick(l) ==
  /\ conn[l] = "open" /\ timer[l] = Interval
  /\ Send(l, "refreshing")
  /\ timer' = [timer EXCEPT ![l] = 0]
  /\ UNCHANGED <<age, conf, late>>

RefreshOwned(l) ==
  /\ conn[l] = "refreshing" /\ call[l] = "yes"
  /\ Return(l, "open")
  /\ conf' = [conf EXCEPT ![l] = 0]
  /\ UNCHANGED <<age, timer, late>>

\* A missing member is a lost lease.
RefreshMissing(l) ==
  /\ conn[l] = "refreshing" /\ call[l] = "no"
  /\ Return(l, "cancelled") /\ LoopEnds(l)
  /\ UNCHANGED <<age, late>>

\* Mutant: errors are tolerated one round longer.
ToleratedLonger(l) == conf[l] < TTL + Interval

\* An error is tolerated for one TTL.
Tolerated(l) == conf[l] < TTL

RefreshFails(l) ==
  /\ conn[l] = "refreshing"
  /\ \/ Tolerated(l) /\ Return(l, "open") /\ UNCHANGED <<timer, conf>>
     \/ ~ Tolerated(l) /\ Return(l, "cancelled") /\ LoopEnds(l)
  /\ \E left \in LeftBehind(l) : late' = [late EXCEPT ![l] = left]
  /\ UNCHANGED age

\* The client leaves or the handler is on its way out: the context is done
\* and the loop stops, once a refresh under way has returned.
ContextDone(l) ==
  /\ conn[l] \in Open
  /\ conn' = [conn EXCEPT ![l] =
                IF conn[l] = "open" THEN "cancelled" ELSE "draining"]
  /\ LoopEnds(l)
  /\ UNCHANGED <<age, call, wait, late>>

RefreshDone(l) ==
  /\ conn[l] = "draining"
  /\ Return(l, "cancelled")
  /\ \E left \in LeftBehind(l) : late' = [late EXCEPT ![l] = left]
  /\ UNCHANGED <<age, timer, conf>>

\* The handler's deferred Release, after the loop has ended.
Release(l) ==
  /\ conn[l] = "cancelled"
  /\ Send(l, "releasing")
  /\ UNCHANGED <<age, timer, conf, late>>

\* Release only logs an error.
ReleaseReturns(l) ==
  /\ conn[l] = "releasing"
  /\ Return(l, "closed")
  /\ \E left \in LeftBehind(l) : late' = [late EXCEPT ![l] = left]
  /\ UNCHANGED <<age, timer, conf>>

\* The instance stops without running its deferred calls.
Crash(l) ==
  /\ conn[l] \notin Ended
  /\ Return(l, "closed") /\ LoopEnds(l)
  /\ \E left \in LeftBehind(l) : late' = [late EXCEPT ![l] = left]
  /\ UNCHANGED age

-----------------------------------------------------------------------------
\* Mutant: a call has no time limit.
DueTick(l) == conn[l] = "open" /\ timer[l] = Interval

Due(l) ==
  \/ conn[l] = "open" /\ timer[l] = Interval
  \/ conn[l] \in Calling /\ wait[l] = Timeout

\* Mutant: the scripts do not reap members.
OlderKept(a) == IF a + 1 < TTL THEN a + 1 ELSE a

\* What the clock adds to the age of a member.
Older(a) == IF a < TTL THEN a + 1 ELSE TTL

Time ==
  /\ \A l \in Leases : ~ Due(l)
  /\ age' = [l \in Leases |-> Older(age[l])]
  /\ wait' = [l \in Leases |->
               IF conn[l] \in Calling THEN wait[l] + 1 ELSE wait[l]]
  /\ timer' = [l \in Leases |->
                IF conn[l] \in Open THEN timer[l] + 1 ELSE timer[l]]
  /\ conf' = [l \in Leases |->
               IF conn[l] \in Open THEN conf[l] + 1 ELSE conf[l]]
  /\ UNCHANGED <<conn, call, late>>

\* The call under way comes to its end, with an answer or with an error.
CallEnds(l) ==
  \/ AcquireReturns(l) \/ AcquireFails(l)
  \/ RefreshOwned(l) \/ RefreshMissing(l) \/ RefreshFails(l)
  \/ RefreshDone(l) \/ ReleaseReturns(l)

Next ==
  \/ Time
  \/ \E l \in Leases :
       \/ Exec(l) \/ Resend(l) \/ ExecLate(l) \/ DropLate(l)
       \/ AcquireOpenAIWSIngressLease(l) \/ CallEnds(l) \/ RefreshTick(l)
       \/ ContextDone(l) \/ Release(l) \/ Crash(l)

Spec == Init /\ [][Next]_vars

\* Time passes, tickers fire, and every call returns within its time.
FairSpec ==
  /\ Spec
  /\ WF_vars(Time)
  /\ \A l \in Leases : WF_vars(RefreshTick(l)) /\ WF_vars(CallEnds(l))

-----------------------------------------------------------------------------
(* The cap: never are more than Max connections served whose last           *)
(* confirmation is younger than the TTL less the length of a call, on       *)
(* whatever instances, whichever calls failed, were repeated or came late.  *)
CapHolds ==
  Cardinality({l \in Leases : conn[l] \in Open /\ conf[l] + Timeout < TTL}) <= Max

(* What happens to the cap while Redis cannot be reached: refresh gives a   *)
(* connection up at the first tick after a TTL without confirmation, so one *)
(* that Redis may have stopped counting is served for less than a refresh   *)
(* interval and a call beyond the TTL.                                      *)
OverstayBounded ==
  \A l \in Leases : conn[l] \in Open => conf[l] < TTL + Interval + Timeout

(* A connection turned away with 429 holds no member: the acquire script    *)
(* recognises a request the client library sent twice.                      *)
RefusedHoldsNothing == \A l \in Leases : conn[l] = "refused" => age[l] = TTL

(* refreshOpenAIWSIngressLeaseScript does not recreate a missing member: a  *)
(* connection that has lost its member never gets it back while served, by  *)
(* no refresh, repeated request or late request.                            *)
LostIsFinal ==
  [][\A l \in Leases :
       conn[l] \in Open /\ age[l] = TTL /\ conn'[l] \in Open => age'[l] = TTL]_vars

(* The capacity of a connection that is no longer served comes back, also   *)
(* when its instance crashed, its release failed, its acquire was executed  *)
(* after the caller had given up, or its handler never returns.             *)
CapacityReturns ==
  \A l \in Leases :
    (conn[l] \notin Open \cup {"acquiring"} /\ age[l] < TTL) ~> (age[l] = TTL)
=============================================================================
