------------------------ MODULE HorizonClient_proofs ------------------------
(***************************************************************************)
(* The circuit breaker and verification under it, for any number of        *)
(* callers, retries and probes and any threshold and duration.             *)
(*                                                                         *)
(* First the breaker by itself (Spec), then the composition (HorizonSpec). *)
(* What is proved of the breaker carries over, because every step of the   *)
(* composition is a step of the breaker or leaves it alone.                *)
(***************************************************************************)
EXTENDS HorizonClient, FiniteSetTheorems, TLAPS

-----------------------------------------------------------------------------
(* The breaker *)

(* The callers that hold a permit of half_open_semaphore. *)
Holders == {c \in Caller : pc[c] = "release"}

(* Permits are neither lost nor made: TypeOK alone forgets who holds them. *)
PermitsConserved ==
    /\ permits \in Nat
    /\ IsFiniteSet(Holders)
    /\ permits + Cardinality(Holders) = HalfOpenMaxCalls

(* All of TypeOK but the bound on permits. *)
Typed ==
    /\ state \in CircuitState
    /\ opened_at \in Age \cup {None}
    /\ consecutive_failures \in Nat
    /\ half_open_successes \in Nat
    /\ metrics \in [trips : 0 .. MaxCount, recoveries : 0 .. MaxCount]
    /\ pc \in [Caller -> Step]
    /\ seen \in [Caller -> Age \cup {None}]
    /\ sinceTrip \in Age

(* Whoever brought the count to the threshold, or closed the circuit over   *)
(* a high count, has yet to trip or to clear it.                            *)
ReachedIsHandled ==
    state = "Closed" /\ consecutive_failures >= FailureThreshold
        => \E c \in Caller : pc[c] \in {"trip", "take", "recover"}

(* opened_at is no older than the last trip, once the trip wrote it. *)
StampFollowsTrip ==
    \/ opened_at = None
    \/ \E c \in Caller : pc[c] = "stamp"
    \/ opened_at <= sinceTrip

(* The callers between the exchange that opened the circuit and the count   *)
(* of the trip, and between the one that closed it and that of the recovery.*)
Stampers == {c \in Caller : pc[c] = "stamp"}
Closers == {c \in Caller : pc[c] \in {"take", "recover"}}

(* What the metrics will show once the moves made so far are counted: every *)
(* recovery, and the trip of a circuit that is not closed, has its trip.    *)
RecoveriesCovered ==
    /\ IsFiniteSet(Stampers) /\ IsFiniteSet(Closers)
    /\ metrics.trips < MaxCount =>
         metrics.trips + Cardinality(Stampers) >=
            metrics.recoveries + Cardinality(Closers) + IF state = "Closed" THEN 0 ELSE 1

BreakerInv == Typed /\ ReachedIsHandled /\ StampFollowsTrip

-----------------------------------------------------------------------------
LEMMA BreakerInitially == Init => BreakerInv
  BY BreakerAssumption DEF Init, BreakerInv, Typed, ReachedIsHandled, StampFollowsTrip,
     CircuitState, Age, Step

LEMMA OlderIsAge ==
    /\ \A at \in Age : Older(at) \in Age
    /\ Older(None) = None
    /\ \A a, b \in Age : a <= b => Older(a) <= Older(b)
  BY BreakerAssumption DEF Older, Age, Least

LEMMA IncrementIsCount == \A n \in 0 .. MaxCount : Increment(n) \in 0 .. MaxCount
  BY BreakerAssumption DEF Increment, Least

(* Every step leaves the variables in their types. *)
LEMMA TypedStep == Typed /\ [Next]_vars => Typed'
<1> SUFFICES ASSUME Typed, [Next]_vars PROVE Typed'
  OBVIOUS
<1> USE DEF Typed, Goto, counters
<1>1. ASSUME NEW c \in Caller, Call(c) \/ Load(c) \/ Reset(c) \/ Acquire(c) \/ Release(c)
      PROVE  Typed'
  BY <1>1 DEF Call, Load, Reset, Acquire, Release, Step, Admitted, CircuitState
<1>2. ASSUME NEW c \in Caller, ReadOpenedAt(c) \/ Reject(c) \/ HalfOpen(c) PROVE Typed'
  BY <1>2 DEF ReadOpenedAt, Reject, HalfOpen, Exchanges, Step, CircuitState
<1>3. ASSUME NEW c \in Caller, Complete(c) \/ Abandon(c) PROVE Typed'
  BY <1>3 DEF Complete, Succeed, Fail, Abandon, Step, CircuitState
<1>4. ASSUME NEW c \in Caller, ClearFailures(c) \/ CountSuccess(c) \/ CountFailure(c)
      PROVE  Typed'
  BY <1>4 DEF ClearFailures, CountSuccess, CountFailure, Step
<1>5. ASSUME NEW c \in Caller, Close(c) \/ Take(c) \/ Trip(c) \/ Reopen(c) PROVE Typed'
  BY <1>5, BreakerAssumption
     DEF Close, Take, Trip, Reopen, OpenFrom, Exchanges, Step, CircuitState, Age
<1>6. ASSUME NEW c \in Caller, Recover(c) PROVE Typed'
  BY <1>6, IncrementIsCount DEF Recover, Step
<1>7. ASSUME NEW c \in Caller, Stamp(c) PROVE Typed'
  BY <1>7, IncrementIsCount, BreakerAssumption DEF Stamp, Step, Age
<1>8. CASE Tick
  <2>1. \A at \in Age \cup {None} : Older(at) \in Age \cup {None}
    BY OlderIsAge
  <2> QED
    BY <1>8, <2>1, OlderIsAge DEF Tick
<1>9. CASE UNCHANGED vars
  BY <1>9 DEF vars
<1> QED
  BY <1>1, <1>2, <1>3, <1>4, <1>5, <1>6, <1>7, <1>8, <1>9 DEF Next, Internal

(* The count reaches the threshold only in the hands of a caller that goes  *)
(* on to trip, and the circuit closes only by one that goes on to clear it. *)
LEMMA ReachedStep == Typed /\ ReachedIsHandled /\ [Next]_vars => ReachedIsHandled'
<1> SUFFICES ASSUME Typed, ReachedIsHandled, [Next]_vars,
                    state' = "Closed", consecutive_failures' >= FailureThreshold
             PROVE  \E d \in Caller : pc'[d] \in {"trip", "take", "recover"}
  BY DEF ReachedIsHandled
<1> USE DEF Typed, Goto, counters, ReachedIsHandled
<1>1. ASSUME NEW c \in Caller,
             Call(c) \/ Load(c) \/ ReadOpenedAt(c) \/ Reject(c) \/ Reset(c) \/ Acquire(c)
                \/ Release(c)
      PROVE  \E d \in Caller : pc'[d] \in {"trip", "take", "recover"}
  BY <1>1 DEF Call, Load, ReadOpenedAt, Reject, Reset, Acquire, Release
<1>2. ASSUME NEW c \in Caller, HalfOpen(c) \/ Complete(c) \/ Abandon(c) \/ CountSuccess(c)
      PROVE  \E d \in Caller : pc'[d] \in {"trip", "take", "recover"}
  BY <1>2 DEF HalfOpen, Exchanges, Complete, Succeed, Fail, Abandon, CountSuccess, Admitted
<1>3. ASSUME NEW c \in Caller, ClearFailures(c) \/ Recover(c)
      PROVE  FALSE
  BY <1>3, BreakerAssumption DEF ClearFailures, Recover
<1>4. ASSUME NEW c \in Caller, CountFailure(c)
      PROVE  pc'[c] = "trip"
  BY <1>4 DEF CountFailure
<1>5. ASSUME NEW c \in Caller, Close(c) \/ Take(c)
      PROVE  \E d \in Caller : pc'[d] \in {"trip", "take", "recover"}
  BY <1>5 DEF Close, Take, Exchanges
<1>6. ASSUME NEW c \in Caller, Trip(c) \/ Reopen(c) \/ Stamp(c)
      PROVE  \E d \in Caller : pc'[d] \in {"trip", "take", "recover"}
  BY <1>6 DEF Trip, Reopen, OpenFrom, Exchanges, Stamp
<1>7. CASE Tick
  BY <1>7 DEF Tick
<1>8. CASE UNCHANGED vars
  BY <1>8 DEF vars
<1> QED
  BY <1>1, <1>2, <1>3, <1>4, <1>5, <1>6, <1>7, <1>8 DEF Next, Internal

(* A trip that has not stamped opened_at is at "stamp", and a stamp is as   *)
(* young as can be.                                                         *)
LEMMA StampStep == Typed /\ StampFollowsTrip /\ [Next]_vars => StampFollowsTrip'
<1> SUFFICES ASSUME Typed, StampFollowsTrip, [Next]_vars PROVE StampFollowsTrip'
  OBVIOUS
<1> USE DEF Typed, Goto, counters, StampFollowsTrip
<1>1. ASSUME NEW c \in Caller,
             Call(c) \/ Load(c) \/ ReadOpenedAt(c) \/ Reject(c) \/ Reset(c) \/ Acquire(c)
                \/ Release(c) \/ HalfOpen(c)
      PROVE  StampFollowsTrip'
  BY <1>1 DEF Call, Load, ReadOpenedAt, Reject, Reset, Acquire, Release, HalfOpen
<1>2. ASSUME NEW c \in Caller,
             Complete(c) \/ Abandon(c) \/ CountSuccess(c) \/ ClearFailures(c) \/ Recover(c)
                \/ CountFailure(c) \/ Close(c)
      PROVE  StampFollowsTrip'
  BY <1>2 DEF Complete, Succeed, Fail, Abandon, CountSuccess, ClearFailures, Recover,
     CountFailure, Close, Admitted
<1>3. ASSUME NEW c \in Caller, Take(c) PROVE StampFollowsTrip'
  BY <1>3 DEF Take
<1>4. ASSUME NEW c \in Caller, Trip(c) \/ Reopen(c) PROVE StampFollowsTrip'
  BY <1>4 DEF Trip, Reopen, OpenFrom, Exchanges
<1>5. ASSUME NEW c \in Caller, Stamp(c) PROVE StampFollowsTrip'
  BY <1>5 DEF Stamp, Age
<1>6. CASE Tick
  BY <1>6, OlderIsAge DEF Tick
<1>7. CASE UNCHANGED vars
  BY <1>7 DEF vars
<1> QED
  BY <1>1, <1>2, <1>3, <1>4, <1>5, <1>6, <1>7 DEF Next, Internal

LEMMA BreakerInvariant == Spec => []BreakerInv
<1>1. BreakerInv /\ [Next]_vars => BreakerInv'
  BY TypedStep, ReachedStep, StampStep DEF BreakerInv
<1> QED
  BY <1>1, BreakerInitially, PTL DEF Spec

-----------------------------------------------------------------------------
(* Acquire and Release are the only steps to touch permits or holders. *)
LEMMA PermitsStep == Typed /\ PermitsConserved /\ [Next]_vars => PermitsConserved'
<1> SUFFICES ASSUME Typed, PermitsConserved, [Next]_vars PROVE PermitsConserved'
  OBVIOUS
<1> USE DEF Typed, Goto, counters
<1>1. ASSUME NEW c \in Caller, Acquire(c) PROVE PermitsConserved'
  <2>1. CASE permits > 0
    <3>1. Holders' = Holders \cup {c} /\ c \notin Holders /\ permits' = permits - 1
      BY <1>1, <2>1 DEF Acquire, Holders
    <3>2. IsFiniteSet(Holders') /\ Cardinality(Holders') = Cardinality(Holders) + 1
      BY <3>1, FS_AddElement DEF PermitsConserved
    <3>3. Cardinality(Holders) \in Nat
      BY FS_CardinalityType DEF PermitsConserved
    <3> QED
      BY <2>1, <3>1, <3>2, <3>3 DEF PermitsConserved
  <2>2. CASE ~ permits > 0
    <3>1. Holders' = Holders /\ permits' = permits
      BY <1>1, <2>2 DEF Acquire, Holders
    <3> QED
      BY <3>1 DEF PermitsConserved
  <2> QED
    BY <2>1, <2>2
<1>2. ASSUME NEW c \in Caller, Release(c) PROVE PermitsConserved'
  <2>1. Holders' = Holders \ {c} /\ c \in Holders /\ permits' = permits + 1
    BY <1>2 DEF Release, Holders
  <2>2. IsFiniteSet(Holders') /\ Cardinality(Holders') = Cardinality(Holders) - 1
    BY <2>1, FS_RemoveElement DEF PermitsConserved
  <2>3. Cardinality(Holders) \in Nat
    BY FS_CardinalityType DEF PermitsConserved
  <2> QED
    BY <2>1, <2>2, <2>3 DEF PermitsConserved
<1>3. ASSUME Holders' = Holders, permits' = permits PROVE PermitsConserved'
  BY <1>3 DEF PermitsConserved
<1>4. ASSUME NEW c \in Caller,
             Call(c) \/ Load(c) \/ ReadOpenedAt(c) \/ Reject(c) \/ Reset(c) \/ HalfOpen(c)
      PROVE  Holders' = Holders /\ permits' = permits
  BY <1>4 DEF Call, Load, ReadOpenedAt, Reject, Reset, HalfOpen, Holders, CircuitState
<1>5. ASSUME NEW c \in Caller, Complete(c) \/ Abandon(c) \/ CountSuccess(c) \/ ClearFailures(c)
      PROVE  Holders' = Holders /\ permits' = permits
  BY <1>5 DEF Complete, Succeed, Fail, Abandon, CountSuccess, ClearFailures, Holders, Admitted,
     CircuitState
<1>6. ASSUME NEW c \in Caller,
             CountFailure(c) \/ Close(c) \/ Take(c) \/ Recover(c) \/ Trip(c) \/ Reopen(c) \/ Stamp(c)
      PROVE  Holders' = Holders /\ permits' = permits
  BY <1>6 DEF CountFailure, Close, Take, Recover, Trip, Reopen, OpenFrom, Stamp, Holders
<1>7. CASE Tick
  BY <1>7, <1>3 DEF Tick, Holders
<1>8. CASE UNCHANGED vars
  BY <1>8, <1>3 DEF vars, Holders
<1> QED
  BY <1>1, <1>2, <1>3, <1>4, <1>5, <1>6, <1>7, <1>8 DEF Next, Internal

(* The breaker's state stays in its types; in particular allow_call never   *)
(* gives back more permits than half_open_semaphore was made with.          *)
THEOREM BreakerTypeCorrect == Spec => []TypeOK
<1>1. Init => PermitsConserved
  <2> SUFFICES ASSUME Init PROVE PermitsConserved
    OBVIOUS
  <2>1. Holders = {}
    BY DEF Init, Holders
  <2>2. IsFiniteSet(Holders) /\ Cardinality(Holders) = 0
    BY <2>1, FS_EmptySet
  <2> QED
    BY <2>2, BreakerAssumption DEF Init, PermitsConserved
<1>2. Typed /\ PermitsConserved => TypeOK
  BY FS_CardinalityType, BreakerAssumption DEF Typed, PermitsConserved, TypeOK
<1>3. BreakerInv => Typed
  BY DEF BreakerInv
<1> QED
  BY <1>1, <1>2, <1>3, BreakerInvariant, PermitsStep, PTL DEF Spec

(* A step moves at most one caller into or out of these sets, and the       *)
(* state and the counters with it.                                          *)
LEMMA CoveredStep == Typed /\ RecoveriesCovered /\ [Next]_vars => RecoveriesCovered'
<1> SUFFICES ASSUME Typed, RecoveriesCovered, [Next]_vars PROVE RecoveriesCovered'
  OBVIOUS
<1> USE DEF Typed, Goto, counters
<1>0. /\ IsFiniteSet(Stampers) /\ Cardinality(Stampers) \in Nat
      /\ IsFiniteSet(Closers) /\ Cardinality(Closers) \in Nat
      /\ metrics.trips \in 0 .. MaxCount /\ metrics.recoveries \in 0 .. MaxCount
  BY FS_CardinalityType DEF RecoveriesCovered
<1>1. ASSUME Stampers' = Stampers, Closers' = Closers, metrics' = metrics,
             state = "Closed" <=> state' = "Closed"
      PROVE  RecoveriesCovered'
  BY <1>1 DEF RecoveriesCovered
<1>2. ASSUME NEW c \in Caller,
             Call(c) \/ Load(c) \/ ReadOpenedAt(c) \/ Reject(c) \/ Reset(c) \/ HalfOpen(c)
                \/ Acquire(c) \/ Release(c)
      PROVE  RecoveriesCovered'
  <2>1. Stampers' = Stampers /\ Closers' = Closers /\ metrics' = metrics
    BY <1>2 DEF Call, Load, ReadOpenedAt, Reject, Reset, HalfOpen, Acquire, Release, Stampers,
       Closers, CircuitState
  <2>2. state = "Closed" <=> state' = "Closed"
    BY <1>2 DEF Call, Load, ReadOpenedAt, Reject, Reset, HalfOpen, Acquire, Release, Exchanges
  <2> QED
    BY <1>1, <2>1, <2>2
<1>3. ASSUME NEW c \in Caller,
             Complete(c) \/ Abandon(c) \/ CountSuccess(c) \/ ClearFailures(c) \/ CountFailure(c)
      PROVE  RecoveriesCovered'
  <2>1. Stampers' = Stampers /\ Closers' = Closers /\ metrics' = metrics /\ state' = state
    BY <1>3 DEF Complete, Succeed, Fail, Abandon, CountSuccess, ClearFailures, CountFailure,
       Stampers, Closers, Admitted, CircuitState
  <2> QED
    BY <1>1, <2>1
<1>4. ASSUME NEW c \in Caller, Close(c) PROVE RecoveriesCovered'
  <2>1. CASE state = "HalfOpen"
    <3>1. /\ Stampers' = Stampers /\ metrics' = metrics /\ state' = "Closed"
          /\ Closers' = Closers \cup {c} /\ c \notin Closers
      BY <1>4, <2>1 DEF Close, Exchanges, Stampers, Closers
    <3>2. IsFiniteSet(Closers') /\ Cardinality(Closers') = Cardinality(Closers) + 1
      BY <1>0, <3>1, FS_AddElement
    <3> QED
      BY <1>0, <2>1, <3>1, <3>2, BreakerAssumption DEF RecoveriesCovered
  <2>2. CASE state # "HalfOpen"
    <3>1. Stampers' = Stampers /\ Closers' = Closers /\ metrics' = metrics /\ state' = state
      BY <1>4, <2>2 DEF Close, Exchanges, Stampers, Closers
    <3> QED
      BY <1>1, <3>1
  <2> QED
    BY <2>1, <2>2
<1>5. ASSUME NEW c \in Caller, Take(c) PROVE RecoveriesCovered'
  <2>1. Stampers' = Stampers /\ Closers' = Closers /\ metrics' = metrics /\ state' = state
    BY <1>5 DEF Take, Stampers, Closers
  <2> QED
    BY <1>1, <2>1
<1>6. ASSUME NEW c \in Caller, Recover(c) PROVE RecoveriesCovered'
  <2>1. /\ Stampers' = Stampers /\ state' = state
        /\ Closers' = Closers \ {c} /\ c \in Closers
    BY <1>6 DEF Recover, Stampers, Closers
  <2>2. IsFiniteSet(Closers') /\ Cardinality(Closers') = Cardinality(Closers) - 1
    BY <1>0, <2>1, FS_RemoveElement
  <2>3. metrics'.trips = metrics.trips /\ metrics'.recoveries = Increment(metrics.recoveries)
    BY <1>6 DEF Recover
  <2>4. metrics'.recoveries \in Nat /\ metrics'.recoveries <= metrics.recoveries + 1
    BY <1>0, <2>3, BreakerAssumption DEF Increment, Least
  <2>5. (IF state' = "Closed" THEN 0 ELSE 1) = IF state = "Closed" THEN 0 ELSE 1
    BY <2>1
  <2> QED
    BY <1>0, <2>1, <2>2, <2>3, <2>4, <2>5, BreakerAssumption DEF RecoveriesCovered
<1>7. ASSUME NEW c \in Caller, NEW step \in {"trip", "reopen"}, NEW from \in CircuitState,
             OpenFrom(c, step, from)
      PROVE  RecoveriesCovered'
  <2>1. CASE state = from
    <3>1. /\ Closers' = Closers /\ metrics' = metrics /\ state' # "Closed"
          /\ Stampers' = Stampers \cup {c} /\ c \notin Stampers
      BY <1>7, <2>1 DEF OpenFrom, Exchanges, Stampers, Closers
    <3>2. IsFiniteSet(Stampers') /\ Cardinality(Stampers') = Cardinality(Stampers) + 1
      BY <1>0, <3>1, FS_AddElement
    <3> QED
      BY <1>0, <3>1, <3>2, BreakerAssumption DEF RecoveriesCovered
  <2>2. CASE state # from
    <3>1. Stampers' = Stampers /\ Closers' = Closers /\ metrics' = metrics /\ state' = state
      BY <1>7, <2>2 DEF OpenFrom, Exchanges, Stampers, Closers
    <3> QED
      BY <1>1, <3>1
  <2> QED
    BY <2>1, <2>2
<1>8. ASSUME NEW c \in Caller, Stamp(c) PROVE RecoveriesCovered'
  <2>1. /\ Closers' = Closers /\ state' = state
        /\ Stampers' = Stampers \ {c} /\ c \in Stampers
    BY <1>8 DEF Stamp, Stampers, Closers
  <2>2. IsFiniteSet(Stampers') /\ Cardinality(Stampers') = Cardinality(Stampers) - 1
    BY <1>0, <2>1, FS_RemoveElement
  <2>3. metrics'.recoveries = metrics.recoveries /\ metrics'.trips = Increment(metrics.trips)
    BY <1>8 DEF Stamp
  <2>4. metrics'.trips < MaxCount => metrics'.trips = metrics.trips + 1 /\ metrics.trips < MaxCount
    BY <1>0, <2>3, BreakerAssumption DEF Increment, Least
  <2>5. (IF state' = "Closed" THEN 0 ELSE 1) = IF state = "Closed" THEN 0 ELSE 1
    BY <2>1
  <2> QED
    BY <1>0, <2>1, <2>2, <2>3, <2>4, <2>5, BreakerAssumption DEF RecoveriesCovered
<1>9. CASE Tick \/ UNCHANGED vars
  <2>1. Stampers' = Stampers /\ Closers' = Closers /\ metrics' = metrics /\ state' = state
    BY <1>9 DEF Tick, vars, Stampers, Closers
  <2> QED
    BY <1>1, <2>1
<1> QED
  BY <1>2, <1>3, <1>4, <1>5, <1>6, <1>7, <1>8, <1>9
     DEF Next, Internal, Trip, Reopen, CircuitState

(* Every recovery that the metrics count has a trip of its own, however     *)
(* record_success and record_failure of the probes overlap.                 *)
THEOREM RecoveriesHaveTrips == Spec => []TripsCoverRecoveries
<1>1. Init => RecoveriesCovered
  <2> SUFFICES ASSUME Init PROVE RecoveriesCovered
    OBVIOUS
  <2>1. Stampers = {} /\ Closers = {}
    BY DEF Init, Stampers, Closers
  <2>2. IsFiniteSet({}) /\ Cardinality({}) = 0
    BY FS_EmptySet
  <2> QED
    BY <2>1, <2>2 DEF Init, RecoveriesCovered
<1>2. Typed /\ RecoveriesCovered => TripsCoverRecoveries
  <2> SUFFICES ASSUME Typed, RecoveriesCovered, Quiet, metrics.trips < MaxCount
               PROVE  metrics.trips >= metrics.recoveries + IF state = "Closed" THEN 0 ELSE 1
    BY DEF TripsCoverRecoveries
  <2>1. Stampers = {} /\ Closers = {}
    BY DEF Quiet, Stampers, Closers, Admitted
  <2>2. Cardinality({}) = 0
    BY FS_EmptySet
  <2> QED
    BY <2>1, <2>2, BreakerAssumption DEF RecoveriesCovered, Typed
<1>3. BreakerInv => Typed
  BY DEF BreakerInv
<1> QED
  BY <1>1, <1>2, <1>3, BreakerInvariant, CoveredStep, PTL DEF Spec

(* At rest a closed circuit is below its threshold, however many calls of   *)
(* record_failure and record_success overlapped.                            *)
THEOREM ClosedIsBelowThreshold == Spec => []ClosedBelowThreshold
<1>1. BreakerInv => ClosedBelowThreshold
  BY BreakerAssumption
     DEF BreakerInv, Typed, ReachedIsHandled, ClosedBelowThreshold, Quiet, Admitted
<1> QED
  BY <1>1, BreakerInvariant, PTL

(* allow_call leaves Open before its duration has passed only in the three  *)
(* races that StaysOpen names: there is no fourth.                          *)
THEOREM OpenLasts == Spec => StaysOpen
<1>1. BreakerInv /\ [Next]_vars =>
        [state = "Open" /\ state' # "Open" =>
           \/ sinceTrip >= OpenDuration
           \/ opened_at = None
           \/ \E c \in Caller : pc[c] = "stamp"
           \/ \E c \in Caller : pc[c] = "half_open" /\ seen[c] # opened_at]_vars
  <2> SUFFICES ASSUME BreakerInv, Next, state = "Open", state' # "Open",
                      opened_at # None, ~ \E c \in Caller : pc[c] = "stamp",
                      ~ \E c \in Caller : pc[c] = "half_open" /\ seen[c] # opened_at
               PROVE  sinceTrip >= OpenDuration
    OBVIOUS
  <2>1. PICK c \in Caller : HalfOpen(c)
    BY DEF Next, Internal, Complete, Call, Load, ReadOpenedAt, Reject, Reset, Acquire, Release,
       Succeed, Fail, Abandon, CountSuccess, ClearFailures, CountFailure, Close, Take, Recover,
       Trip, Reopen, OpenFrom, Stamp, Exchanges, Tick
  <2>2. seen[c] = opened_at /\ Elapsed(opened_at)
    BY <2>1 DEF HalfOpen, Goto
  <2>3. opened_at >= OpenDuration /\ opened_at <= sinceTrip
    BY <2>2 DEF Elapsed, BreakerInv, StampFollowsTrip
  <2> QED
    BY <2>3, BreakerAssumption DEF BreakerInv, Typed, Age
<1> QED
  BY <1>1, BreakerInvariant, PTL DEF Spec, StaysOpen

-----------------------------------------------------------------------------
(* Verification *)

(* What holds of one verification: a verdict is backed by the ledger, and   *)
(* every attempt that was used up went without one.                         *)
Backed(v) ==
    /\ v.anchored => Anchored
    /\ v.done => /\ v.status = "ConfirmedMatch" => Anchored
                 /\ v.status = "NoMatch" /\ v.anchored =>
                       v.http = "other" \/ (v.stale /\ stale_cache_ok)

Counted(v) ==
    /\ ~ v.done => v.unanswered = v.attempt
    /\ v.done /\ v.status \in {"NetworkError", "MalformedResponse"} =>
          v.unanswered = MaxRetries + 1 \/ v.hash = "malformed" \/ (v.stale /\ stale_cache_ok)

HorizonTyped ==
    /\ verify \in [Caller -> Verification]
    /\ ledger \subseteq Memo
    /\ cached \in VerificationStatus \cup {None}
    /\ max_concurrent \in MaxConcurrents
    /\ stale_cache_ok \in BOOLEAN

VerifyInv ==
    /\ HorizonTyped
    /\ cached = "ConfirmedMatch" => Anchored
    /\ \A c \in Caller : Backed(verify[c]) /\ Counted(verify[c])

-----------------------------------------------------------------------------
(* Steps of one verification *)

LEMMA FreshIsFine ==
    ASSUME NEW hash \in Hash, NEW anchored \in BOOLEAN, anchored => Anchored
    PROVE  /\ Fresh(hash, anchored) \in Verification
           /\ Backed(Fresh(hash, anchored)) /\ Counted(Fresh(hash, anchored))
<1>1. Fresh(hash, anchored) \in Verification
  BY HorizonAssumption DEF Fresh, Verification, VerificationStatus
<1>2. Backed(Fresh(hash, anchored))
  BY DEF Fresh, Backed
<1>3. Counted(Fresh(hash, anchored))
  BY DEF Fresh, Counted
<1> QED
  BY <1>1, <1>2, <1>3

LEMMA UnusedIsFine == Unused \in Verification /\ Backed(Unused) /\ Counted(Unused)
  BY FreshIsFine DEF Unused, Hash

(* An attempt without a verdict is counted. *)
LEMMA RetryIsFine ==
    ASSUME NEW v \in Verification, ~ v.done, Backed(v), Counted(v),
           NEW status \in {"NetworkError", "MalformedResponse"},
           NEW http \in HttpStatus \cup {None}
    PROVE  /\ Retry(v, status, http) \in Verification
           /\ Backed(Retry(v, status, http)) /\ Counted(Retry(v, status, http))
<1> DEFINE w == Retry(v, status, http)
<1>1. v.unanswered = v.attempt /\ v.attempt \in 0 .. MaxRetries
  BY DEF Counted, Verification
<1>2. /\ w.hash = v.hash /\ w.status = status /\ w.http = http
      /\ w.attempt = (IF v.attempt < MaxRetries THEN v.attempt + 1 ELSE v.attempt)
      /\ w.unanswered = v.unanswered + 1
  BY DEF Retry, Verification
<1>3. (w.done <=> v.attempt = MaxRetries) /\ (w.anchored <=> v.anchored)
  BY DEF Retry, Verification
<1>4. w \in Verification
  <2> DEFINE attempt == IF v.attempt < MaxRetries THEN v.attempt + 1 ELSE v.attempt
             last == v.attempt = MaxRetries
             unanswered == v.unanswered + 1
  <2>1. attempt \in 0 .. MaxRetries /\ unanswered \in 0 .. MaxRetries + 1 /\ last \in BOOLEAN
    BY <1>1, HorizonAssumption
  <2>2. w = [v EXCEPT !.status = status, !.http = http, !.attempt = attempt,
                      !.done = last, !.unanswered = unanswered]
    BY DEF Retry
  <2> HIDE DEF attempt, last, unanswered, w
  <2> QED
    BY <2>1, <2>2 DEF Verification, VerificationStatus
<1> HIDE DEF w
<1>5. Backed(w)
  BY <1>2, <1>3 DEF Backed
<1>6. Counted(w)
  <2>1. v.attempt # MaxRetries => w.unanswered = w.attempt
    BY <1>1, <1>2, HorizonAssumption
  <2>2. v.attempt = MaxRetries => w.unanswered = MaxRetries + 1
    BY <1>1, <1>2, HorizonAssumption
  <2> QED
    BY <1>3, <2>1, <2>2 DEF Counted
<1> QED
  BY <1>4, <1>5, <1>6 DEF w

(* A verdict ends the verification, if the ledger bears it out. *)
LEMMA EndedIsFine ==
    ASSUME NEW v \in Verification, Backed(v), NEW status \in VerificationStatus,
           NEW http \in HttpStatus \cup {None},
           status = "ConfirmedMatch" => Anchored,
           status = "NoMatch" /\ v.anchored => http = "other",
           status \in {"NetworkError", "MalformedResponse"} => v.hash = "malformed"
    PROVE  /\ Ended(v, status, http) \in Verification
           /\ Backed(Ended(v, status, http)) /\ Counted(Ended(v, status, http))
<1> DEFINE w == Ended(v, status, http)
<1>1. /\ w.hash = v.hash /\ w.status = status /\ w.http = http
      /\ w.done /\ (w.anchored <=> v.anchored)
  BY DEF Ended, Verification
<1>2. w \in Verification
  BY DEF Ended, Verification
<1> HIDE DEF w
<1>3. Backed(w)
  BY <1>1 DEF Backed
<1>4. Counted(w)
  BY <1>1 DEF Counted
<1> QED
  BY <1>2, <1>3, <1>4 DEF w

(* A cached result ends it too, as what it is. *)
LEMMA StaleIsFine ==
    ASSUME NEW v \in Verification, Backed(v), NEW status \in VerificationStatus,
           status = "ConfirmedMatch" => Anchored,
           status # "ConfirmedMatch" => stale_cache_ok
    PROVE  LET w == [Ended(v, status, None) EXCEPT !.stale = TRUE]
           IN  w \in Verification /\ Backed(w) /\ Counted(w)
<1> DEFINE w == [Ended(v, status, None) EXCEPT !.stale = TRUE]
<1>1. /\ w.hash = v.hash /\ w.status = status
      /\ w.done /\ w.stale /\ (w.anchored <=> v.anchored)
  BY DEF Ended, Verification
<1>2. w \in Verification
  BY DEF Ended, Verification
<1> HIDE DEF w
<1>3. Backed(w)
  BY <1>1 DEF Backed
<1>4. Counted(w)
  BY <1>1 DEF Counted
<1>5. w \in Verification /\ Backed(w) /\ Counted(w)
  BY <1>2, <1>3, <1>4
<1> QED
  BY <1>5 DEF w

LEMMA AfterIsFine ==
    ASSUME NEW v \in Verification, ~ v.done, Backed(v), Counted(v), NEW answer \in Answer
    PROVE  /\ After(v, answer) \in Verification
           /\ Backed(After(v, answer)) /\ Counted(After(v, answer))
<1>1. v.http \in HttpStatus \cup {None} /\ (v.anchored => Anchored)
  BY DEF Verification, Backed
<1>2. Matched <=> Anchored
  BY DEF Matched, MemoMatches, Anchored
<1>3. CASE answer = "records" /\ Matched
  BY <1>2, <1>3, EndedIsFine DEF After, VerificationStatus
<1>4. CASE answer = "records" /\ ~ Matched
  BY <1>1, <1>2, <1>4, EndedIsFine DEF After, VerificationStatus
<1>5. CASE answer = "unparsable"
  BY <1>1, <1>5, RetryIsFine DEF After
<1>6. CASE answer = "retryable"
  BY <1>6, RetryIsFine DEF After, HttpStatus
<1>7. CASE answer = "other"
  BY <1>7, EndedIsFine DEF After, VerificationStatus, HttpStatus
<1>8. CASE answer = "no response"
  BY <1>8, RetryIsFine DEF After
<1> QED
  BY <1>3, <1>4, <1>5, <1>6, <1>7, <1>8 DEF Answer, HttpStatus

-----------------------------------------------------------------------------
(* Steps of the system *)

LEMMA VerifyInitially == HorizonInit => VerifyInv
<1> SUFFICES ASSUME HorizonInit PROVE VerifyInv
  OBVIOUS
<1>1. \A c \in Caller : verify[c] = Unused
  BY DEF HorizonInit
<1>2. verify \in [Caller -> Verification]
  BY UnusedIsFine DEF HorizonInit
<1>3. HorizonTyped
  BY <1>2 DEF HorizonInit, HorizonTyped
<1>4. cached # "ConfirmedMatch"
  BY HorizonAssumption DEF HorizonInit
<1> QED
  BY <1>1, <1>3, <1>4, UnusedIsFine DEF VerifyInv

(* One caller's verification becomes a sound one, the rest is left alone. *)
LEMMA UpdateKeeps ==
    ASSUME VerifyInv, UNCHANGED environment, NEW c \in Caller, NEW w \in Verification,
           Backed(w), Counted(w), verify' = [verify EXCEPT ![c] = w]
    PROVE  VerifyInv'
<1>1. verify \in [Caller -> Verification]
  BY DEF VerifyInv, HorizonTyped
<1>2. verify' \in [Caller -> Verification]
  BY <1>1
<1>3. HorizonTyped'
  BY <1>2 DEF VerifyInv, HorizonTyped, environment
<1>4. (cached = "ConfirmedMatch" => Anchored)'
  BY DEF VerifyInv, Anchored, environment
<1>5. ASSUME NEW d \in Caller PROVE (Backed(verify[d]) /\ Counted(verify[d]))'
  <2>1. Backed(verify'[d]) /\ Counted(verify'[d])
    <3>1. CASE d = c
      BY <3>1, <1>1
    <3>2. CASE d # c
      BY <3>2, <1>1 DEF VerifyInv
    <3> QED
      BY <3>1, <3>2
  <2> QED
    BY <2>1 DEF Backed, Counted, Anchored, environment
<1> QED
  BY <1>3, <1>4, <1>5 DEF VerifyInv

LEMMA UnchangedVerifyKeeps == VerifyInv /\ UNCHANGED <<verify, environment>> => VerifyInv'
  BY DEF VerifyInv, HorizonTyped, Backed, Counted, Anchored, environment

(* A transaction enters the ledger, or the cache changes: what was anchored *)
(* stays anchored.                                                          *)
LEMMA LedgerKeeps ==
    ASSUME VerifyInv, ledger \subseteq ledger', ledger' \subseteq Memo,
           cached' \in VerificationStatus \cup {None},
           cached' = "ConfirmedMatch" => Anchored',
           UNCHANGED <<verify, max_concurrent, stale_cache_ok>>
    PROVE  VerifyInv'
<1>1. Anchored => Anchored'
  BY DEF Anchored
<1>2. HorizonTyped'
  BY DEF VerifyInv, HorizonTyped
<1>3. ASSUME NEW d \in Caller PROVE (Backed(verify[d]) /\ Counted(verify[d]))'
  BY <1>1 DEF VerifyInv, Backed, Counted
<1> QED
  BY <1>2, <1>3 DEF VerifyInv

LEMMA VerifyStep == VerifyInv /\ [HorizonNext]_allVars => VerifyInv'
<1> SUFFICES ASSUME VerifyInv, [HorizonNext]_allVars PROVE VerifyInv'
  OBVIOUS
<1>0. \A c \in Caller : verify[c] \in Verification /\ Backed(verify[c]) /\ Counted(verify[c])
  BY DEF VerifyInv, HorizonTyped
<1>1. ASSUME NEW c \in Caller, Breaker(c) PROVE VerifyInv'
  <2>1. CASE pc'[c] = "idle"
    BY <1>1, <2>1, UpdateKeeps, UnusedIsFine DEF Breaker
  <2>2. CASE pc'[c] # "idle"
    BY <1>1, <2>2, UnchangedVerifyKeeps DEF Breaker
  <2> QED
    BY <2>1, <2>2
<1>2. ASSUME NEW c \in Caller, RefuseHash(c) PROVE VerifyInv'
  <2> DEFINE w == Ended(verify[c], "MalformedResponse", None)
  <2>1. w \in Verification /\ Backed(w) /\ Counted(w)
    BY <1>0, <1>2, EndedIsFine DEF RefuseHash, VerificationStatus
  <2> HIDE DEF w
  <2>2. verify' = [verify EXCEPT ![c] = w]
    BY <1>2 DEF RefuseHash, w
  <2> QED
    BY <1>2, <2>1, <2>2, UpdateKeeps DEF RefuseHash
<1>3. ASSUME NEW c \in Caller, NEW answer \in Answer, Request(c, answer) PROVE VerifyInv'
  <2> DEFINE w == After(verify[c], answer)
  <2>1. w \in Verification /\ Backed(w) /\ Counted(w)
    BY <1>0, <1>3, AfterIsFine DEF Request, Verifying
  <2> HIDE DEF w
  <2>2. verify' = [verify EXCEPT ![c] = w]
    BY <1>3 DEF Request, w
  <2> QED
    BY <1>3, <2>1, <2>2, UpdateKeeps DEF Request
<1>4. ASSUME NEW c \in Caller, BulkheadTimeout(c) PROVE VerifyInv'
  <2>1. CASE Fallback
    <3> DEFINE w == [Ended(verify[c], cached, None) EXCEPT !.stale = TRUE]
    <3>1. cached \in VerificationStatus /\ (cached = "ConfirmedMatch" => Anchored)
      BY <2>1, HorizonAssumption DEF Fallback, VerifyInv, HorizonTyped, VerificationStatus
    <3>2. cached # "ConfirmedMatch" => stale_cache_ok
      BY <2>1 DEF Fallback
    <3>3. w \in Verification /\ Backed(w) /\ Counted(w)
      BY <1>0, <3>1, <3>2, StaleIsFine
    <3> HIDE DEF w
    <3>4. verify' = [verify EXCEPT ![c] = w]
      BY <1>4, <2>1 DEF BulkheadTimeout, w
    <3> QED
      BY <1>4, <3>3, <3>4, UpdateKeeps DEF BulkheadTimeout
  <2>2. CASE ~ Fallback
    <3> DEFINE w == Retry(verify[c], "NetworkError", verify[c].http)
    <3>1. verify[c].http \in HttpStatus \cup {None}
      BY <1>0 DEF Verification
    <3>2. w \in Verification /\ Backed(w) /\ Counted(w)
      BY <1>0, <1>4, <3>1, RetryIsFine DEF BulkheadTimeout, Verifying
    <3> HIDE DEF w
    <3>3. verify' = [verify EXCEPT ![c] = w]
      BY <1>4, <2>2 DEF BulkheadTimeout, w
    <3> QED
      BY <1>4, <3>2, <3>3, UpdateKeeps DEF BulkheadTimeout
  <2> QED
    BY <2>1, <2>2
<1>5. ASSUME NEW c \in Caller, Return(c) \/ Drop(c) PROVE VerifyInv'
  BY <1>5, UpdateKeeps, UnusedIsFine DEF Return, Drop
<1>6. ASSUME NEW c \in Caller, NEW hash \in Hash, Verify(c, hash) PROVE VerifyInv'
  <2> DEFINE w == Fresh(hash, Anchored)
  <2>1. w \in Verification /\ Backed(w) /\ Counted(w)
    <3>1. Anchored \in BOOLEAN
      BY DEF Anchored
    <3> QED
      BY <3>1, FreshIsFine
  <2> HIDE DEF w
  <2>2. verify' = [verify EXCEPT ![c] = w]
    BY <1>6 DEF Verify, w
  <2> QED
    BY <1>6, <2>1, <2>2, UpdateKeeps DEF Verify
<1>7. CASE TimePasses
  BY <1>7, UnchangedVerifyKeeps DEF TimePasses
<1>8. ASSUME NEW type \in Memo, Anchor(type) PROVE VerifyInv'
  <2>1. Anchored => Anchored'
    BY <1>8 DEF Anchor, Anchored
  <2> QED
    BY <1>8, <2>1, LedgerKeeps DEF Anchor, VerifyInv, HorizonTyped
<1>9. ASSUME NEW status \in VerificationStatus, WarmCache(status) PROVE VerifyInv'
  <2>1. Anchored' = Anchored
    BY <1>9 DEF WarmCache, Anchored
  <2> QED
    BY <1>9, <2>1, LedgerKeeps DEF WarmCache, VerifyInv, HorizonTyped
<1>10. CASE Expire
  BY <1>10, LedgerKeeps, HorizonAssumption DEF Expire, VerifyInv, HorizonTyped
<1>11. CASE UNCHANGED allVars
  BY <1>11, UnchangedVerifyKeeps DEF allVars
<1> QED
  BY <1>1, <1>2, <1>3, <1>4, <1>5, <1>6, <1>7, <1>8, <1>9, <1>10, <1>11 DEF HorizonNext, Run

(* Every step of the composition is a step of the breaker or leaves it be. *)
LEMMA StepOfBreaker == [HorizonNext]_allVars => [Next]_vars
  BY DEF HorizonNext, Run, Breaker, RefuseHash, Request, BulkheadTimeout, Return, Drop, Verify,
     TimePasses, Anchor, WarmCache, Expire, allVars, Next, Complete

LEMMA ImplementsBreaker == HorizonSpec => Spec
<1>1. HorizonInit => Init
  BY DEF HorizonInit
<1> QED
  BY <1>1, StepOfBreaker, PTL DEF HorizonSpec, Spec

LEMMA VerifyInvariant == HorizonSpec => []VerifyInv
  BY VerifyInitially, VerifyStep, PTL DEF HorizonSpec

(* verify_hash and the breaker keep their types, the number of attempts of  *)
(* a call included: a call makes at most MaxRetries + 1.                    *)
THEOREM HorizonTypeCorrect == HorizonSpec => []HorizonTypeOK
<1>1. TypeOK /\ VerifyInv => HorizonTypeOK
  BY DEF VerifyInv, HorizonTyped, HorizonTypeOK
<1> QED
  BY <1>1, ImplementsBreaker, BreakerTypeCorrect, VerifyInvariant, PTL

(* verify_hash confirms only what is on the ledger and denies nothing that  *)
(* was there when it was called, but for the two exceptions named.          *)
THEOREM VerdictIsSound == HorizonSpec => []VerdictSound
<1>1. VerifyInv => VerdictSound
  BY DEF VerifyInv, Backed, VerdictSound
<1> QED
  BY <1>1, VerifyInvariant, PTL

(* The breaker sees a failure only if no attempt of the call brought a      *)
(* verdict, the hash was malformed, or a cached failure was returned.       *)
THEOREM FailuresAreReal == HorizonSpec => FailureNeedsEveryAttempt
<1>1. Typed /\ VerifyInv /\ [HorizonNext]_allVars =>
        [\A c \in Caller :
           pc[c] \in Admitted /\ pc'[c] \in {"count_failure", "reopen"} =>
              \/ verify[c].unanswered = MaxRetries + 1
              \/ verify[c].hash = "malformed"
              \/ verify[c].stale /\ stale_cache_ok]_allVars
  <2> SUFFICES ASSUME Typed, VerifyInv, HorizonNext, NEW c \in Caller,
                      pc[c] \in Admitted, pc'[c] \in {"count_failure", "reopen"}
               PROVE  \/ verify[c].unanswered = MaxRetries + 1
                      \/ verify[c].hash = "malformed"
                      \/ verify[c].stale /\ stale_cache_ok
    OBVIOUS
  <2>1. PICK d \in Caller : Return(d) /\ Fail(d) /\ d = c
    <3>1. pc' # pc
      BY DEF Admitted
    <3>2. PICK d \in Caller : Breaker(d) \/ Return(d) \/ Drop(d) \/ \E hash \in Hash : Verify(d, hash)
      BY <3>1 DEF HorizonNext, Run, RefuseHash, Request, BulkheadTimeout, TimePasses, Tick,
         Anchor, WarmCache, Expire, vars
    <3>3. ~ Breaker(d)
      BY DEF Breaker, Internal, Load, ReadOpenedAt, Reject, Reset, HalfOpen, Acquire, Release,
         CountSuccess, ClearFailures, CountFailure, Close, Take, Recover, Trip, Reopen,
         OpenFrom, Stamp, Goto, Typed, Admitted
    <3>4. ~ Drop(d) /\ ~ \E hash \in Hash : Verify(d, hash)
      BY DEF Drop, Abandon, Verify, Call, Goto, Typed, Admitted
    <3>5. Return(d)
      BY <3>2, <3>3, <3>4
    <3>6. ~ Succeed(d)
      BY DEF Succeed, Goto, Typed, Admitted, CircuitState
    <3>7. Fail(d)
      BY <3>5, <3>6 DEF Return
    <3>8. d = c
      BY <3>7 DEF Fail, Goto, Typed, Admitted
    <3> QED
      BY <3>5, <3>7, <3>8
  <2>2. verify[c].done /\ verify[c].status \notin {"ConfirmedMatch", "NoMatch"}
    <3>1. ~ Succeed(c)
      BY DEF Succeed, Goto, Typed, Admitted, CircuitState
    <3> QED
      BY <2>1, <3>1 DEF Return
  <2>3. verify[c].status \in {"NetworkError", "MalformedResponse"}
    BY <2>2 DEF VerifyInv, HorizonTyped, Verification, VerificationStatus
  <2> QED
    BY <2>2, <2>3 DEF VerifyInv, Counted
<1>2. BreakerInv => Typed
  BY DEF BreakerInv
<1> QED
  BY <1>1, <1>2, ImplementsBreaker, BreakerInvariant, VerifyInvariant, PTL
     DEF HorizonSpec, FailureNeedsEveryAttempt
=============================================================================
