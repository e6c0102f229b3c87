--------------------------- MODULE CircuitBreaker ---------------------------
(***************************************************************************)
(* The circuit breaker of src/stellar.rs: callers that run concurrently on *)
(* a multi-threaded runtime, one action per atomic operation or critical   *)
(* section of allow_call, record_success and record_failure.  The          *)
(* operation that a call protects is `operating' or `probing', by the way  *)
(* the call was admitted, and may end in success or failure or be dropped  *)
(* with its future.                                                        *)
(*                                                                         *)
(* An Instant is kept as its age, up to OpenDuration.  sinceTrip is a      *)
(* history variable: the age of the last move to Open.                     *)
(* half_open_in_flight is left out: the code writes it and never reads it. *)
(* Of the metrics, trips and recoveries are kept.  Atomics are             *)
(* sequentially consistent here.                                           *)
(***************************************************************************)
EXTENDS Integers, FiniteSets

CONSTANTS
    Caller,
    FailureThreshold,   \* failure_threshold.max(1)
    OpenDuration,       \* open_duration, in ticks of the clock
    HalfOpenMaxCalls,   \* half_open_max_calls.max(1)
    MaxCount,           \* where the metrics counters saturate (u64::MAX)
    MaxTrips,           \* bound: no call starts after this many trips
    None

ASSUME BreakerAssumption ==
    /\ {FailureThreshold, OpenDuration, HalfOpenMaxCalls, MaxTrips} \subseteq Nat \ {0}
    /\ MaxCount \in Nat
    /\ None \notin Nat

VARIABLES state, opened_at, consecutive_failures, half_open_successes,
          permits, metrics, pc, seen, sinceTrip

vars == <<state, opened_at, consecutive_failures, half_open_successes,
          permits, metrics, pc, seen, sinceTrip>>

CircuitState == {"Closed", "Open", "HalfOpen"}
Age == 0 .. OpenDuration

Admitted == {"operating", "probing"}

Step == {"idle", "load", "opened_at", "half_open", "reset", "acquire",
         "release"} \cup Admitted \cup
        {"clear_failures", "count_success", "close", "take", "recover",
         "count_failure", "trip", "reopen", "stamp"}

TypeOK ==
    /\ state \in CircuitState
    /\ opened_at \in Age \cup {None}
    /\ consecutive_failures \in Nat
    /\ half_open_successes \in Nat
    /\ permits \in 0 .. HalfOpenMaxCalls
    /\ metrics \in [trips : 0 .. MaxCount, recoveries : 0 .. MaxCount]
    /\ pc \in [Caller -> Step]
    /\ seen \in [Caller -> Age \cup {None}]
    /\ sinceTrip \in Age

Init ==
    /\ state = "Closed"
    /\ opened_at = None
    /\ consecutive_failures = 0
    /\ half_open_successes = 0
    /\ permits = HalfOpenMaxCalls
    /\ metrics = [trips |-> 0, recoveries |-> 0]
    /\ pc = [c \in Caller |-> "idle"]
    /\ seen = [c \in Caller |-> None]
    /\ sinceTrip = OpenDuration

Least(a, b) == IF a <= b THEN a ELSE b
Increment(n) == Least(n + 1, MaxCount)

(* Caller c, which is at `from', goes on to `to'. *)
Goto(c, from, to) == pc[c] = from /\ pc' = [pc EXCEPT ![c] = to]

(* compare_exchange(from, ..) succeeds. *)
ExchangesBlindly(from) == TRUE
Exchanges(from) == state = from

counters == <<consecutive_failures, half_open_successes>>

-----------------------------------------------------------------------------
(* allow_call *)

Call(c) ==
    /\ metrics.trips < MaxTrips
    /\ Goto(c, "idle", "load")
    /\ UNCHANGED <<state, opened_at, counters, permits, metrics, seen, sinceTrip>>

Load(c) ==
    /\ Goto(c, "load", CASE state = "Closed" -> "operating"
                         [] state = "Open" -> "opened_at"
                         [] state = "HalfOpen" -> "acquire")
    /\ UNCHANGED <<state, opened_at, counters, permits, metrics, seen, sinceTrip>>

ReadOpenedAt(c) ==
    /\ Goto(c, "opened_at", "half_open")
    /\ seen' = [seen EXCEPT ![c] = opened_at]
    /\ UNCHANGED <<state, opened_at, counters, permits, metrics, sinceTrip>>

(* The circuit was open for long enough, or has no time it was opened at. *)
ElapsedAtOnce(at) == TRUE
ElapsedLate(at) == IF at = None THEN FALSE ELSE at > OpenDuration
Elapsed(at) == IF at = None THEN TRUE ELSE at >= OpenDuration

Reject(c) ==
    /\ ~ Elapsed(seen[c])
    /\ Goto(c, "half_open", "idle")
    /\ seen' = [seen EXCEPT ![c] = None]
    /\ UNCHANGED <<state, opened_at, counters, permits, metrics, sinceTrip>>

(* A caller whose exchange fails goes round the loop again. *)
HalfOpen(c) ==
    /\ Elapsed(seen[c])
    /\ Goto(c, "half_open", IF Exchanges("Open") THEN "reset" ELSE "load")
    /\ state' = IF Exchanges("Open") THEN "HalfOpen" ELSE state
    /\ seen' = [seen EXCEPT ![c] = None]
    /\ UNCHANGED <<opened_at, counters, permits, metrics, sinceTrip>>

ResetReleasing(c) ==
    /\ Goto(c, "reset", "probing")
    /\ half_open_successes' = 0
    /\ permits' = permits + 1
    /\ UNCHANGED <<state, opened_at, consecutive_failures, metrics, seen, sinceTrip>>

Reset(c) ==
    /\ Goto(c, "reset", "probing")
    /\ half_open_successes' = 0
    /\ UNCHANGED <<state, opened_at, consecutive_failures, permits, metrics,
                   seen, sinceTrip>>

(* try_acquire: the permit is a local of allow_call, so it is dropped when  *)
(* the call is let in, not when the probe ends.                             *)
Acquire(c) ==
    /\ Goto(c, "acquire", IF permits > 0 THEN "release" ELSE "idle")
    /\ permits' = IF permits > 0 THEN permits - 1 ELSE permits
    /\ UNCHANGED <<state, opened_at, counters, metrics, seen, sinceTrip>>

Release(c) ==
    /\ Goto(c, "release", "probing")
    /\ permits' = permits + 1
    /\ UNCHANGED <<state, opened_at, counters, metrics, seen, sinceTrip>>

-----------------------------------------------------------------------------
(* The operation, and the load of the state that recording it begins with. *)

Succeed(c) ==
    /\ \E from \in Admitted :
          Goto(c, from, CASE state = "Closed" -> "clear_failures"
                          [] state = "HalfOpen" -> "count_success"
                          [] state = "Open" -> "idle")
    /\ UNCHANGED <<state, opened_at, counters, permits, metrics, seen, sinceTrip>>

Fail(c) ==
    /\ \E from \in Admitted :
          Goto(c, from, CASE state = "Closed" -> "count_failure"
                          [] state = "HalfOpen" -> "reopen"
                          [] state = "Open" -> "idle")
    /\ UNCHANGED <<state, opened_at, counters, permits, metrics, seen, sinceTrip>>

(* The future of the call is dropped at its await: nothing is recorded. *)
Abandon(c) ==
    /\ \E from \in Admitted : Goto(c, from, "idle")
    /\ UNCHANGED <<state, opened_at, counters, permits, metrics, seen, sinceTrip>>

-----------------------------------------------------------------------------
(* record_success *)

ClearFailures(c) ==
    /\ Goto(c, "clear_failures", "idle")
    /\ consecutive_failures' = 0
    /\ UNCHANGED <<state, opened_at, half_open_successes, permits, metrics,
                   seen, sinceTrip>>

CountSuccessUnstored(c) ==
    /\ Goto(c, "count_success",
            IF half_open_successes + 1 >= HalfOpenMaxCalls THEN "close" ELSE "idle")
    /\ UNCHANGED <<state, opened_at, counters, permits, metrics, seen, sinceTrip>>

CountSuccess(c) ==
    /\ half_open_successes' = half_open_successes + 1
    /\ Goto(c, "count_success",
            IF half_open_successes' >= HalfOpenMaxCalls THEN "close" ELSE "idle")
    /\ UNCHANGED <<state, opened_at, consecutive_failures, permits, metrics,
                   seen, sinceTrip>>

Close(c) ==
    /\ Goto(c, "close", IF Exchanges("HalfOpen") THEN "take" ELSE "idle")
    /\ state' = IF Exchanges("HalfOpen") THEN "Closed" ELSE state
    /\ UNCHANGED <<opened_at, counters, permits, metrics, seen, sinceTrip>>

Take(c) ==
    /\ Goto(c, "take", "recover")
    /\ opened_at' = None
    /\ UNCHANGED <<state, counters, permits, metrics, seen, sinceTrip>>

RecoverKeepingFailures(c) ==
    /\ Goto(c, "recover", "idle")
    /\ metrics' = [metrics EXCEPT !.recoveries = Increment(@)]
    /\ UNCHANGED <<state, opened_at, counters, permits, seen, sinceTrip>>

Recover(c) ==
    /\ Goto(c, "recover", "idle")
    /\ consecutive_failures' = 0
    /\ metrics' = [metrics EXCEPT !.recoveries = Increment(@)]
    /\ UNCHANGED <<state, opened_at, half_open_successes, permits, seen, sinceTrip>>

-----------------------------------------------------------------------------
(* record_failure *)

CountFailure(c) ==
    /\ consecutive_failures' = consecutive_failures + 1
    /\ Goto(c, "count_failure",
            IF consecutive_failures' >= FailureThreshold THEN "trip" ELSE "idle")
    /\ UNCHANGED <<state, opened_at, half_open_successes, permits, metrics,
                   seen, sinceTrip>>

(* The exchange to Open, from Closed or from HalfOpen. *)
OpenFrom(c, step, from) ==
    /\ Goto(c, step, IF Exchanges(from) THEN "stamp" ELSE "idle")
    /\ state' = IF Exchanges(from) THEN "Open" ELSE state
    /\ sinceTrip' = IF Exchanges(from) THEN 0 ELSE sinceTrip
    /\ UNCHANGED <<opened_at, counters, permits, metrics, seen>>

Trip(c) == OpenFrom(c, "trip", "Closed")
Reopen(c) == OpenFrom(c, "reopen", "HalfOpen")

(* opened_at is written after the exchange that opened the circuit. *)
Stamp(c) ==
    /\ Goto(c, "stamp", "idle")
    /\ opened_at' = 0
    /\ metrics' = [metrics EXCEPT !.trips = Increment(@)]
    /\ UNCHANGED <<state, counters, permits, seen, sinceTrip>>

-----------------------------------------------------------------------------
Older(at) == IF at = None THEN None ELSE Least(at + 1, OpenDuration)

Tick ==
    /\ opened_at' = Older(opened_at)
    /\ seen' = [c \in Caller |-> Older(seen[c])]
    /\ sinceTrip' = Older(sinceTrip)
    /\ UNCHANGED <<state, counters, permits, metrics, pc>>

Complete(c) == Succeed(c) \/ Fail(c)

Internal(c) ==
    \/ Load(c) \/ ReadOpenedAt(c) \/ Reject(c) \/ HalfOpen(c) \/ Reset(c)
    \/ Acquire(c) \/ Release(c)
    \/ ClearFailures(c) \/ CountSuccess(c) \/ Close(c) \/ Take(c) \/ Recover(c)
    \/ CountFailure(c) \/ Trip(c) \/ Reopen(c) \/ Stamp(c)

Next ==
    \/ \E c \in Caller : Call(c) \/ Internal(c) \/ Complete(c) \/ Abandon(c)
    \/ Tick

Spec == Init /\ [][Next]_vars

(* Threads are scheduled, operations end (each request has a timeout) and   *)
(* time passes; nothing is assumed of when calls are made or dropped.       *)
Fairness ==
    /\ \A c \in Caller : WF_vars(Internal(c)) /\ WF_vars(Complete(c))
    /\ WF_vars(Tick)

FairSpec == Spec /\ Fairness

-----------------------------------------------------------------------------
(* Properties *)

Quiet == \A c \in Caller : pc[c] \in {"idle"} \cup Admitted

(* Every recovery undoes a trip of its own: however the probes of one       *)
(* half-open period race, at rest the metrics show no more recoveries than  *)
(* trips, and fewer while the circuit is not closed.  (Until trips is at    *)
(* its limit: from there on it no longer counts.)                           *)
TripsCoverRecoveries ==
    Quiet /\ metrics.trips < MaxCount =>
        metrics.trips >= metrics.recoveries + IF state = "Closed" THEN 0 ELSE 1

(* The circuit never rests closed with a failure count that should have     *)
(* opened it, whatever resets, trips and recoveries overlap.                *)
ClosedBelowThreshold ==
    Quiet /\ state = "Closed" => consecutive_failures < FailureThreshold

(* README: when it trips the breaker "rejects calls for" the open duration. *)
(* The circuit leaves Open earlier only in one of three races: the trip has *)
(* not stamped opened_at yet, a late recovery erased the stamp, or a caller *)
(* acts on an opened_at it read before the stamp.                           *)
StaysOpen ==
    [][state = "Open" /\ state' # "Open" =>
         \/ sinceTrip >= OpenDuration
         \/ opened_at = None
         \/ \E c \in Caller : pc[c] = "stamp"
         \/ \E c \in Caller : pc[c] = "half_open" /\ seen[c] # opened_at]_vars

(* An open circuit does not reject for ever: if calls keep being made, some *)
(* keep being let in.                                                       *)
NeverStuck ==
    []<>(\E c \in Caller : pc[c] = "load")
        => []<>(\E c \in Caller : pc[c] \in Admitted)

(* Once operations only succeed and calls keep being made, the circuit      *)
(* closes for good, whatever the late failures left behind.                 *)
Recovers ==
    /\ []<>(\E c \in Caller : pc[c] = "load")
    /\ <>[][\A c \in Caller : ~ Fail(c) /\ ~ Abandon(c)]_vars
    => <>[](state = "Closed")
=============================================================================
