-------------------------- MODULE IngressLeaseProofs --------------------------
(***************************************************************************)
(* What module IngressLease checks on two connections, proved for any      *)
(* finite set of connections, any cap and any times with                   *)
(* Timeout < Interval and Interval + Timeout < TTL.                        *)
(***************************************************************************)
EXTENDS IngressLease, FiniteSetTheorems, TLAPS

\* The two clocks of a refresh loop: conf has passed the TTL only since the
\* ticker last fired, or since the firing before while a refresh is under way.
Clocks(l) ==
  /\ conn[l] = "open" => conf[l] < TTL + timer[l]
  /\ conn[l] = "refreshing" =>
       timer[l] = wait[l] /\ conf[l] < TTL + Interval + timer[l]
  /\ conn[l] \notin Open => timer[l] = 0 /\ conf[l] = 0

\* The clock in Redis and the clock of the loop: an answer is at most as old
\* as its call, so the member is at most a call older than the confirmation.
Ages(l) ==
  /\ conn[l] \in {"acquiring", "refreshing"} /\ call[l] = "yes" => age[l] <= wait[l]
  /\ conn[l] \in Open => age[l] <= conf[l] + Timeout

\* Requests left behind: only refreshes can still reach a served connection.
Leftovers(l) ==
  /\ late[l] = "acquire" => conn[l] = "closed"
  /\ late[l] = "release" => conn[l] = "closed"
  /\ conn[l] \in {"acquiring", "refused"} => late[l] = "none"

\* A refusal is the answer to a request that left no member.
Refusals(l) ==
  /\ conn[l] = "acquiring" /\ call[l] = "no" => age[l] = TTL
  /\ conn[l] = "refused" => age[l] = TTL

LeaseInv(l) == Clocks(l) /\ Ages(l) /\ Leftovers(l) /\ Refusals(l)

IInv ==
  /\ TypeOK
  /\ \A l \in Leases : LeaseInv(l)
  /\ Cardinality(Counted) <= Max

(* The steps of one lease leave the state of the others alone. *)
LEMMA OthersKept ==
  ASSUME TypeOK, NEW k \in Leases, NEW l \in Leases, l # k,
         \/ Exec(k) \/ Resend(k) \/ ExecLate(k) \/ DropLate(k)
         \/ AcquireOpenAIWSIngressLease(k) \/ CallEnds(k) \/ RefreshTick(k)
         \/ ContextDone(k) \/ Release(k) \/ Crash(k)
  PROVE  /\ age'[l] = age[l] /\ conn'[l] = conn[l] /\ call'[l] = call[l]
         /\ wait'[l] = wait[l] /\ timer'[l] = timer[l] /\ conf'[l] = conf[l]
         /\ late'[l] = late[l]
<1>1. CASE Exec(k)
  BY <1>1 DEF TypeOK, Exec, ExecAcquire, ExecRefresh, ExecRelease
<1>2. CASE Resend(k) \/ ExecLate(k) \/ DropLate(k)
  BY <1>2 DEF TypeOK, Resend, ExecLate, DropLate
<1>3. CASE AcquireOpenAIWSIngressLease(k) \/ RefreshTick(k) \/ Release(k)
  BY <1>3 DEF TypeOK, AcquireOpenAIWSIngressLease, RefreshTick, Release, Send
<1>4. CASE CallEnds(k)
  <2>1. CASE AcquireReturns(k) \/ AcquireFails(k) \/ RefreshOwned(k)
    BY <2>1 DEF TypeOK, AcquireReturns, AcquireFails, RefreshOwned, Return
  <2>2. CASE RefreshMissing(k) \/ RefreshFails(k)
    BY <2>2 DEF TypeOK, RefreshMissing, RefreshFails, Return, LoopEnds
  <2>3. CASE RefreshDone(k) \/ ReleaseReturns(k)
    BY <2>3 DEF TypeOK, RefreshDone, ReleaseReturns, Return
  <2> QED BY <1>4, <2>1, <2>2, <2>3 DEF CallEnds
<1>5. CASE ContextDone(k) \/ Crash(k)
  BY <1>5 DEF TypeOK, ContextDone, Crash, Return, LoopEnds
<1> QED BY <1>1, <1>2, <1>3, <1>4, <1>5

LEMMA InitIInv == Init => IInv
<1> SUFFICES ASSUME Init PROVE IInv
  OBVIOUS
<1>1. TypeOK
  BY TimesAssumption DEF Init, TypeOK, Calling, Open, Ended
<1>2. \A l \in Leases : LeaseInv(l)
  BY TimesAssumption DEF Init, LeaseInv, Clocks, Ages, Leftovers, Refusals, Open
<1>3. Cardinality(Counted) <= Max
  <2>1. Counted = {}
    BY TimesAssumption DEF Init, Counted
  <2> QED BY <2>1, FS_EmptySet, MaxAssumption
<1> QED BY <1>1, <1>2, <1>3 DEF IInv

(* Steps preserve the types: a ticker due and a call at its end hold time. *)
LEMMA TypeStep ==
  ASSUME IInv, [Next]_vars
  PROVE  TypeOK'
<1>0. TypeOK /\ \A l \in Leases : Clocks(l)
  BY DEF IInv, LeaseInv
<1>1. CASE UNCHANGED vars
  BY <1>0, <1>1 DEF vars, TypeOK
<1>2. CASE Time
  <2>1. age' \in [Leases -> 0..TTL]
    BY <1>0, <1>2, TimesAssumption DEF Time, Older, TypeOK
  <2>2. wait' \in [Leases -> 0..Timeout]
    BY <1>0, <1>2, TimesAssumption DEF Time, Due, TypeOK, Calling
  <2>3. timer' \in [Leases -> 0..Interval]
    <3> SUFFICES ASSUME NEW l \in Leases, conn[l] \in Open
                 PROVE  timer[l] + 1 \in 0..Interval
      BY <1>0, <1>2 DEF Time, TypeOK
    <3>1. CASE conn[l] = "open"
      BY <1>0, <1>2, <3>1, TimesAssumption DEF Time, Due, TypeOK
    <3>2. CASE conn[l] = "refreshing"
      BY <1>0, <3>2, TimesAssumption DEF Clocks, TypeOK
    <3> QED BY <3>1, <3>2 DEF Open
  <2>4. conf' \in [Leases -> Nat]
    BY <1>0, <1>2 DEF Time, TypeOK
  <2> QED BY <1>0, <1>2, <2>1, <2>2, <2>3, <2>4 DEF Time, TypeOK
<1>3. ASSUME NEW k \in Leases,
             \/ Exec(k) \/ Resend(k) \/ ExecLate(k) \/ DropLate(k)
             \/ AcquireOpenAIWSIngressLease(k) \/ CallEnds(k) \/ RefreshTick(k)
             \/ ContextDone(k) \/ Release(k) \/ Crash(k)
      PROVE  TypeOK'
  <2>1. CASE Exec(k)
    BY <1>0, <2>1, <1>0, TimesAssumption DEF Exec, ExecAcquire, ExecRefresh, ExecRelease, Score, Request, CanAcquire, CanRefresh, TypeOK, Calling, Open, Ended
  <2>2. CASE Resend(k) \/ DropLate(k)
    BY <1>0, <2>2, TimesAssumption DEF Resend, DropLate, TypeOK, Calling, Open, Ended
  <2>3. CASE ExecLate(k)
    BY <1>0, <2>3, <1>0, TimesAssumption DEF ExecLate, Score, CanAcquire, CanRefresh, TypeOK, Calling, Open, Ended
  <2>4. CASE AcquireOpenAIWSIngressLease(k) \/ RefreshTick(k) \/ Release(k)
    BY <1>0, <2>4, TimesAssumption DEF AcquireOpenAIWSIngressLease, RefreshTick, Release, Send, TypeOK, Calling, Open, Ended
  <2>5. CASE AcquireReturns(k) \/ AcquireFails(k)
    BY <1>0, <2>5, TimesAssumption DEF AcquireReturns, AcquireFails, Return, LeftBehind, Request, TypeOK, Calling, Open, Ended
  <2>6. CASE RefreshOwned(k) \/ RefreshMissing(k)
    BY <1>0, <2>6, TimesAssumption DEF RefreshOwned, RefreshMissing, Return, LoopEnds, TypeOK, Calling, Open, Ended
  <2>7. CASE RefreshFails(k)
    BY <1>0, <2>7, TimesAssumption DEF RefreshFails, Return, LoopEnds, LeftBehind, Request, Tolerated, TypeOK, Calling, Open, Ended
  <2>8. CASE RefreshDone(k) \/ ReleaseReturns(k)
    BY <1>0, <2>8, TimesAssumption DEF RefreshDone, ReleaseReturns, Return, LeftBehind, Request, TypeOK, Calling, Open, Ended
  <2>9. CASE ContextDone(k)
    BY <1>0, <2>9, TimesAssumption DEF ContextDone, LoopEnds, TypeOK, Calling, Open, Ended
  <2>10. CASE Crash(k)
    BY <1>0, <2>10, TimesAssumption DEF Crash, Return, LoopEnds, LeftBehind, Request, TypeOK, Calling, Open, Ended
  <2> QED BY <1>3, <2>1, <2>2, <2>3, <2>4, <2>5, <2>6, <2>7, <2>8, <2>9, <2>10 DEF CallEnds
<1> QED BY <1>1, <1>2, <1>3 DEF Next

(* Every step keeps the clocks and requests of every lease in order. *)
LEMMA LeaseStep ==
  ASSUME IInv, [Next]_vars, TypeOK', NEW l \in Leases
  PROVE  LeaseInv(l)'
<1> USE DEF LeaseInv, Clocks, Ages, Leftovers, Refusals
<1>0. TypeOK /\ LeaseInv(l)
  BY DEF IInv
<1>1. CASE UNCHANGED vars
  BY <1>0, <1>1 DEF vars
<1>2. CASE Time
  BY <1>0, <1>2, TimesAssumption DEF Time, Due, Older, TypeOK, Calling, Open, Ended
<1>3. ASSUME NEW k \in Leases, k # l,
             \/ Exec(k) \/ Resend(k) \/ ExecLate(k) \/ DropLate(k)
             \/ AcquireOpenAIWSIngressLease(k) \/ CallEnds(k) \/ RefreshTick(k)
             \/ ContextDone(k) \/ Release(k) \/ Crash(k)
      PROVE  LeaseInv(l)'
  BY <1>0, <1>3, OthersKept
<1>4. ASSUME NEW k \in Leases, k = l,
             \/ Exec(k) \/ Resend(k) \/ ExecLate(k) \/ DropLate(k)
             \/ AcquireOpenAIWSIngressLease(k) \/ CallEnds(k) \/ RefreshTick(k)
             \/ ContextDone(k) \/ Release(k) \/ Crash(k)
      PROVE  LeaseInv(l)'
  <2>1. CASE Exec(k)
    BY <2>1, <1>0, <1>4, TimesAssumption DEF Exec, ExecAcquire, ExecRefresh, ExecRelease, Score, Request, CanAcquire, CanRefresh, TypeOK, Calling, Open, Ended
  <2>2. CASE Resend(k) \/ DropLate(k)
    BY <2>2, <1>0, <1>4, TimesAssumption DEF Resend, DropLate, TypeOK, Calling, Open, Ended
  <2>3. CASE ExecLate(k)
    BY <2>3, <1>0, <1>4, TimesAssumption DEF ExecLate, Score, CanAcquire, CanRefresh, TypeOK, Calling, Open, Ended
  <2>4. CASE AcquireOpenAIWSIngressLease(k) \/ RefreshTick(k) \/ Release(k)
    BY <2>4, <1>0, <1>4, TimesAssumption DEF AcquireOpenAIWSIngressLease, RefreshTick, Release, Send, TypeOK, Calling, Open, Ended
  <2>5. CASE AcquireReturns(k) \/ AcquireFails(k)
    BY <2>5, <1>0, <1>4, TimesAssumption DEF AcquireReturns, AcquireFails, Return, LeftBehind, Request, TypeOK, Calling, Open, Ended
  <2>6. CASE RefreshOwned(k) \/ RefreshMissing(k)
    BY <2>6, <1>0, <1>4, TimesAssumption DEF RefreshOwned, RefreshMissing, Return, LoopEnds, TypeOK, Calling, Open, Ended
  <2>7. CASE RefreshFails(k)
    BY <2>7, <1>0, <1>4, TimesAssumption DEF RefreshFails, Return, LoopEnds, LeftBehind, Request, Tolerated, TypeOK, Calling, Open, Ended
  <2>8. CASE RefreshDone(k) \/ ReleaseReturns(k)
    BY <2>8, <1>0, <1>4, TimesAssumption DEF RefreshDone, ReleaseReturns, Return, LeftBehind, Request, TypeOK, Calling, Open, Ended
  <2>9. CASE ContextDone(k)
    BY <2>9, <1>0, <1>4, TimesAssumption DEF ContextDone, LoopEnds, TypeOK, Calling, Open, Ended
  <2>10. CASE Crash(k)
    BY <2>10, <1>0, <1>4, TimesAssumption DEF Crash, Return, LoopEnds, LeftBehind, Request, TypeOK, Calling, Open, Ended
  <2> QED BY <1>4, <2>1, <2>2, <2>3, <2>4, <2>5, <2>6, <2>7, <2>8, <2>9, <2>10 DEF CallEnds
<1> QED BY <1>1, <1>2, <1>3, <1>4 DEF Next
(* A step adds at most one member, and only below the cap. *)
LEMMA CountStep ==
  ASSUME IInv, [Next]_vars
  PROVE  \/ Counted' \subseteq Counted
         \/ /\ Cardinality(Counted) < Max
            /\ \E k \in Leases : Counted' \subseteq Counted \cup {k}
<1>0. TypeOK
  BY DEF IInv
<1>1. CASE UNCHANGED age
  BY <1>1 DEF Counted
<1>2. CASE Time
  BY <1>0, <1>2, TimesAssumption DEF Time, Older, Counted, TypeOK
<1>3. ASSUME NEW k \in Leases, Exec(k) \/ ExecLate(k)
      PROVE  \/ Counted' \subseteq Counted
             \/ /\ Cardinality(Counted) < Max
                /\ Counted' \subseteq Counted \cup {k}
  <2>1. \/ age' = [age EXCEPT ![k] = Score(k, CanAcquire(k))]
        \/ age' = [age EXCEPT ![k] = Score(k, CanRefresh(k))]
        \/ age' = [age EXCEPT ![k] = TTL]
    BY <1>3 DEF Exec, ExecLate, ExecAcquire, ExecRefresh, ExecRelease
  <2>2. \A l \in Leases : l # k => age'[l] = age[l]
    BY <1>0, <2>1 DEF TypeOK
  <2>3. Counted' \subseteq Counted \cup {k}
    BY <2>2 DEF Counted
  <2>4. CASE k \in Counted
    BY <2>3, <2>4
  <2>5. CASE k \notin Counted /\ Cardinality(Counted) < Max
    BY <2>3, <2>5
  <2>6. CASE k \notin Counted /\ ~(Cardinality(Counted) < Max)
    <3>1. age'[k] = TTL
      BY <1>0, <2>1, <2>6, TimesAssumption
      DEF Score, CanAcquire, CanRefresh, Counted, TypeOK
    <3> QED BY <2>3, <3>1, TimesAssumption DEF Counted
  <2> QED BY <2>4, <2>5, <2>6
<1>4. ASSUME NEW k \in Leases,
             \/ Resend(k) \/ DropLate(k) \/ AcquireOpenAIWSIngressLease(k)
             \/ CallEnds(k) \/ RefreshTick(k) \/ ContextDone(k) \/ Release(k)
             \/ Crash(k)
      PROVE  UNCHANGED age
  BY <1>4 DEF Resend, DropLate, AcquireOpenAIWSIngressLease, RefreshTick,
              ContextDone, Release, Crash, CallEnds, AcquireReturns,
              AcquireFails, RefreshOwned, RefreshMissing, RefreshFails,
              RefreshDone, ReleaseReturns
<1>5. UNCHANGED vars => UNCHANGED age
  BY DEF vars
<1> QED BY <1>1, <1>2, <1>3, <1>4, <1>5 DEF Next

LEMMA CapStep ==
  ASSUME IInv, [Next]_vars
  PROVE  Cardinality(Counted)' <= Max
<1>1. IsFiniteSet(Counted) /\ Counted \subseteq Leases
  BY LeasesAssumption, FS_Subset DEF Counted
<1>2. Cardinality(Counted) \in Nat /\ Cardinality(Counted) <= Max
  BY <1>1, FS_CardinalityType DEF IInv
<1>3. CASE Counted' \subseteq Counted
  <2>1. Cardinality(Counted') <= Cardinality(Counted) /\ Cardinality(Counted') \in Nat
    BY <1>1, <1>3, FS_Subset, FS_CardinalityType
  <2> QED BY <1>2, <2>1, MaxAssumption
<1>4. ASSUME NEW k \in Leases, Cardinality(Counted) < Max,
             Counted' \subseteq Counted \cup {k}
      PROVE  Cardinality(Counted)' <= Max
  <2> DEFINE S == Counted \cup {k}
  <2>1. IsFiniteSet(S) /\ Cardinality(S) <= Cardinality(Counted) + 1
    <3>1. IsFiniteSet(S)
      BY <1>1, FS_AddElement
    <3>2. \/ Cardinality(S) = Cardinality(Counted)
          \/ Cardinality(S) = Cardinality(Counted) + 1
      BY <1>1, FS_AddElement, Zenon
    <3> HIDE DEF S
    <3> QED BY <1>2, <3>1, <3>2
  <2>2. Cardinality(Counted') <= Cardinality(S)
    BY <1>4, <2>1, FS_Subset
  <2>3. Cardinality(S) \in Nat /\ Cardinality(Counted') \in Nat
    BY <1>4, <2>1, FS_Subset, FS_CardinalityType
  <2> HIDE DEF S
  <2> QED BY <1>2, <1>4, <2>1, <2>2, <2>3, MaxAssumption
<1> QED BY <1>3, <1>4, CountStep

(* The invariant holds in every state of every behaviour. *)
THEOREM Invariance == Spec => []IInv
<1>1. Init => IInv
  BY InitIInv
<1>2. IInv /\ [Next]_vars => IInv'
  <2> SUFFICES ASSUME IInv, [Next]_vars PROVE IInv'
    OBVIOUS
  <2>1. TypeOK'
    BY TypeStep
  <2>2. \A l \in Leases : LeaseInv(l)'
    BY <2>1, LeaseStep
  <2>3. Cardinality(Counted)' <= Max
    BY CapStep
  <2> QED BY <2>1, <2>2, <2>3 DEF IInv
<1> QED BY <1>1, <1>2, PTL DEF Spec

(* Ages, calls and clocks keep their types: no call outlasts its time. *)
THEOREM TypeCorrect == Spec => []TypeOK
<1>1. IInv => TypeOK
  BY DEF IInv
<1> QED BY <1>1, Invariance, PTL

(* At most Max connections are served on a confirmation that is younger than
   the TTL less a call, however calls to Redis fail, repeat or come late. *)
THEOREM Capped == Spec => []CapHolds
<1>1. IInv => CapHolds
  <2> SUFFICES ASSUME IInv PROVE CapHolds
    OBVIOUS
  <2> DEFINE S == {l \in Leases : conn[l] \in Open /\ conf[l] + Timeout < TTL}
  <2>1. S \subseteq Counted
    BY TimesAssumption DEF IInv, LeaseInv, Ages, TypeOK, Counted
  <2>2. IsFiniteSet(Counted)
    BY LeasesAssumption, FS_Subset DEF Counted
  <2>3. /\ Cardinality(S) <= Cardinality(Counted)
        /\ Cardinality(S) \in Nat /\ Cardinality(Counted) \in Nat
    BY <2>1, <2>2, FS_Subset, FS_CardinalityType
  <2>4. Cardinality(Counted) <= Max
    BY DEF IInv
  <2>5. Cardinality(S) <= Max
    <3> HIDE DEF S
    <3> QED BY <2>3, <2>4, MaxAssumption
  <2> QED BY <2>5 DEF CapHolds
<1> QED BY <1>1, Invariance, PTL

(* Without confirmation a connection is served for less than a refresh
   interval and a call beyond the TTL. *)
THEOREM Bounded == Spec => []OverstayBounded
<1>1. IInv => OverstayBounded
  <2> SUFFICES ASSUME IInv, NEW l \in Leases, conn[l] \in Open
               PROVE  conf[l] < TTL + Interval + Timeout
    BY DEF OverstayBounded
  <2>1. TypeOK /\ Clocks(l)
    BY DEF IInv, LeaseInv
  <2>2. /\ conf[l] \in Nat
        /\ timer[l] \in Nat /\ timer[l] <= Interval
        /\ wait[l] \in Nat /\ wait[l] <= Timeout
    BY <2>1, TimesAssumption DEF TypeOK
  <2>3. CASE conn[l] = "open"
    <3>1. conf[l] < TTL + timer[l]
      BY <2>1, <2>3 DEF Clocks
    <3>2. CASE Timeout > 0
      BY <2>2, <3>1, <3>2, TimesAssumption
    <3>3. CASE Timeout = 0
      BY <2>2, <3>1, <3>3, TimesAssumption
    <3> QED BY <3>2, <3>3, TimesAssumption
  <2>4. CASE conn[l] = "refreshing"
    BY <2>1, <2>2, <2>4, TimesAssumption DEF Clocks
  <2> QED BY <2>3, <2>4 DEF Open
<1> QED BY <1>1, Invariance, PTL

(* A connection turned away occupies no part of the cap. *)
THEOREM Refused == Spec => []RefusedHoldsNothing
<1>1. IInv => RefusedHoldsNothing
  BY DEF IInv, LeaseInv, Refusals, RefusedHoldsNothing
<1> QED BY <1>1, Invariance, PTL

(* A served connection that has lost its member does not get it back. *)
THEOREM NoReturn == Spec => LostIsFinal
<1> DEFINE A == \A l \in Leases :
                  conn[l] \in Open /\ age[l] = TTL /\ conn'[l] \in Open => age'[l] = TTL
<1>1. IInv /\ [Next]_vars => [A]_vars
  <2> SUFFICES ASSUME IInv, [Next]_vars, NEW l \in Leases,
                      conn[l] \in Open, age[l] = TTL
               PROVE  age'[l] = TTL
    OBVIOUS
  <2>1. TypeOK /\ Leftovers(l)
    BY DEF IInv, LeaseInv
  <2>2. CASE UNCHANGED vars
    BY <2>2 DEF vars
  <2>3. CASE Time
    BY <2>1, <2>3, TimesAssumption DEF Time, Older, TypeOK
  <2>4. ASSUME NEW k \in Leases, k # l,
               \/ Exec(k) \/ Resend(k) \/ ExecLate(k) \/ DropLate(k)
               \/ AcquireOpenAIWSIngressLease(k) \/ CallEnds(k) \/ RefreshTick(k)
               \/ ContextDone(k) \/ Release(k) \/ Crash(k)
        PROVE  age'[l] = age[l]
    BY <2>1, <2>4, OthersKept
  <2>5. CASE Exec(l)
    BY <2>1, <2>5, TimesAssumption
    DEF Exec, Request, ExecRefresh, Score, CanRefresh, Open, TypeOK
  <2>6. CASE ExecLate(l)
    BY <2>1, <2>6, TimesAssumption
    DEF ExecLate, Leftovers, Score, CanRefresh, Open, TypeOK
  <2>7. CASE \/ Resend(l) \/ DropLate(l) \/ AcquireOpenAIWSIngressLease(l)
             \/ CallEnds(l) \/ RefreshTick(l) \/ ContextDone(l) \/ Release(l)
             \/ Crash(l)
    BY <2>7 DEF Resend, DropLate, AcquireOpenAIWSIngressLease, RefreshTick,
                ContextDone, Release, Crash, CallEnds, AcquireReturns,
                AcquireFails, RefreshOwned, RefreshMissing, RefreshFails,
                RefreshDone, ReleaseReturns
  <2> QED BY <2>2, <2>3, <2>4, <2>5, <2>6, <2>7 DEF Next
<1>2. Spec => [][Next]_vars
  BY PTL DEF Spec
<1> QED BY <1>1, <1>2, Invariance, PTL DEF LostIsFinal
=============================================================================
