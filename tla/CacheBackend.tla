---------------------------- MODULE CacheBackend ----------------------------
(***************************************************************************)
(* CacheBackend of src/cache.rs: either an InMemoryCache, or a RedisCache  *)
(* that puts a circuit breaker, a bulkhead and a connection check before   *)
(* each command and turns to an unbounded InMemoryCache when any of them   *)
(* refuses or the command fails.  The cache of module InMemoryCache is the *)
(* backend itself or the fallback.                                         *)
(*                                                                         *)
(* A task is one call at a time, a step is one critical section or one     *)
(* answer of Redis.  Redis is external: a map with times to live on a      *)
(* connection that is up, down (what is sent fails) or hung (nothing is    *)
(* answered: no response timeout is set); a command that fails, or whose   *)
(* caller is gone, may have been executed.                                 *)
(* Instants are kept as ages, deadlines as the time left.                  *)
(***************************************************************************)
EXTENDS InMemoryCache

CONSTANTS
    FailureThreshold, HalfOpenMaxCalls, BackoffBase, BackoffMax,
    MaxConcurrent,      \* bound: the permits a bulkhead is made with
    ExponentCap,        \* both backoffs stop doubling here (6 in the code)
    HealthMax,          \* longest health backoff (60 seconds in the code)
    MaxSizes,           \* the sizes an in-memory backend is made with
    RedisKey,           \* bound: the keys used with the Redis backend
    MemoryValue         \* bound: the values used with the in-memory backend

ASSUME BackendAssumption ==
    /\ {FailureThreshold, HalfOpenMaxCalls, MaxConcurrent} \subseteq Nat \ {0}
    /\ {BackoffBase, BackoffMax, ExponentCap, HealthMax} \subseteq Nat
    /\ \A n \in 0 .. ExponentCap : 2 ^ n \in Nat
    /\ MaxSizes \subseteq Nat
    /\ RedisKey \subseteq Key /\ MemoryValue \subseteq Value

VARIABLES backend, redis, connection, breaker, health, permits, call

redisVars == <<redis, connection, breaker, health, permits>>
vars == <<memoryVars, pc, backend, redisVars, call, written>>

Least(a, b) == IF a <= b THEN a ELSE b

(* The counts matter up to the threshold, or until the backoffs stop growing. *)
MaxFailures == IF FailureThreshold > ExponentCap THEN FailureThreshold ELSE ExponentCap + 1
Increment(n) == Least(n + 1, MaxFailures)

Breaker == [state : {"Closed", "Open", "HalfOpen"},
            consecutive_failures : 0 .. MaxFailures,
            half_open_calls : 0 .. HalfOpenMaxCalls,
            opened_at : 0 .. BackoffMax]
Health == [backoff_left : 0 .. HealthMax, consecutive_failures : 0 .. ExponentCap]

Permitted == {"check", "ping", "command"}

TypeOK ==
    /\ MemoryType
    /\ backend \in {"Redis", "InMemory"}
    /\ redis \in [Key -> Entry \cup {None}]
    /\ connection \in {"up", "down", "hung"}
    /\ breaker \in Breaker
    /\ health \in Health
    /\ permits \in 0 .. MaxConcurrent
    /\ pc \in [Task -> {"idle", "allow", "bulkhead", "store", "stats", "evict", "sample"}
                       \cup Permitted]
    /\ call \in [Task -> Request \cup {None}]

Init ==
    /\ MemoryInit
    /\ \/ backend = "InMemory" /\ max_size \in MaxSizes /\ permits = MaxConcurrent
       \/ backend = "Redis" /\ max_size = 0 /\ permits \in 1 .. MaxConcurrent
    /\ redis = [k \in Key |-> None]
    /\ connection = "up"
    /\ breaker = [state |-> "Closed", consecutive_failures |-> 0,
                  half_open_calls |-> 0, opened_at |-> 0]
    /\ health = [backoff_left |-> 0, consecutive_failures |-> 0]
    /\ pc = [t \in Task |-> "idle"]
    /\ call = [t \in Task |-> None]

-----------------------------------------------------------------------------
(* CacheCircuitBreaker, under its mutex *)

TransitionTo(b, new) ==
    [state |-> new,
     consecutive_failures |-> IF new = "Closed" THEN 0 ELSE b.consecutive_failures,
     half_open_calls |-> 0,
     opened_at |-> IF new = "HalfOpen" THEN b.opened_at ELSE 0]

CurrentBackoff(b) ==
    LET failures == IF b.consecutive_failures = 0 THEN 1 ELSE b.consecutive_failures
    IN  Least(BackoffBase * 2 ^ Least(failures - 1, ExponentCap), BackoffMax)

ShouldAllow(b) ==
    \/ b.state = "Closed"
    \/ b.state = "Open" /\ b.opened_at >= CurrentBackoff(b)
    \/ b.state = "HalfOpen" /\ b.half_open_calls < HalfOpenMaxCalls

Asked(b) == IF b.state = "Open" /\ ShouldAllow(b) THEN TransitionTo(b, "HalfOpen") ELSE b

RecordSuccessLate(b) ==
    CASE b.state = "Closed" -> [b EXCEPT !.consecutive_failures = 0]
      [] b.state = "HalfOpen" ->
           IF b.half_open_calls + 1 > HalfOpenMaxCalls THEN TransitionTo(b, "Closed")
           ELSE [b EXCEPT !.half_open_calls = @ + 1]
      [] b.state = "Open" -> b
RecordSuccess(b) ==
    CASE b.state = "Closed" -> [b EXCEPT !.consecutive_failures = 0]
      [] b.state = "HalfOpen" ->
           IF b.half_open_calls + 1 >= HalfOpenMaxCalls THEN TransitionTo(b, "Closed")
           ELSE [b EXCEPT !.half_open_calls = @ + 1]
      [] b.state = "Open" -> b

RecordFailure(b) ==
    LET more == [b EXCEPT !.consecutive_failures = Increment(@)]
    IN  CASE b.state = "Closed" ->
               IF b.consecutive_failures + 1 >= FailureThreshold
               THEN TransitionTo(more, "Open") ELSE more
          [] b.state = "HalfOpen" -> TransitionTo(b, "Open")
          [] b.state = "Open" -> more

(* HealthCheckState *)
ShouldCheck(h) == h.backoff_left = 0
HealthFailure(h) ==
    LET failures == Least(h.consecutive_failures + 1, ExponentCap)
    IN  [backoff_left |-> Least(2 ^ failures, HealthMax),
         consecutive_failures |-> failures]
HealthSuccess == [backoff_left |-> 0, consecutive_failures |-> 0]

-----------------------------------------------------------------------------
(* The request of a call: any, until a failed command has fixed it. *)
Requests(t) ==
    IF call[t] # None THEN {call[t]}
    ELSE {r \in Request : IF backend = "Redis" THEN r.key \in RedisKey
                          ELSE r.op = "set" => r.value \in MemoryValue}

(* A call on the in-memory backend goes straight to its locks. *)
Call(t) ==
    /\ Goto(t, "idle", IF backend = "Redis" THEN "allow" ELSE "store")
    /\ UNCHANGED <<memoryVars, backend, redisVars, call, written>>

(* RedisCache::get_raw, set_raw and delete *)
Allow(t) ==
    /\ Goto(t, "allow", IF ShouldAllow(breaker) THEN "bulkhead" ELSE "store")
    /\ breaker' = Asked(breaker)
    /\ UNCHANGED <<memoryVars, backend, redis, connection, health, permits, call, written>>

AcquireUncounted(t) ==
    /\ Goto(t, "bulkhead", IF permits > 0 THEN "check" ELSE "store")
    /\ UNCHANGED <<memoryVars, backend, redisVars, call, written>>
Acquire(t) ==
    /\ Goto(t, "bulkhead", IF permits > 0 THEN "check" ELSE "store")
    /\ permits' = IF permits > 0 THEN permits - 1 ELSE permits
    /\ UNCHANGED <<memoryVars, backend, redis, connection, breaker, health, call, written>>

(* check_connection: the health mutex is held while the PING is answered; a *)
(* check inside the backoff returns the cached status, which is unhealthy.  *)
HealthLockedTwice == \E t \in Task : pc[t] \in {"check", "ping"}
HealthLocked == \E t \in Task : pc[t] = "ping"

(* A refused call records a failure and gives its permit back. *)
Refused(t, from) ==
    /\ Goto(t, from, "store")
    /\ breaker' = RecordFailure(breaker)
    /\ permits' = permits + 1

CheckConnection(t) ==
    /\ ~ HealthLocked
    /\ \/ /\ ShouldCheck(health)
          /\ Goto(t, "check", "ping")
          /\ UNCHANGED <<breaker, permits>>
       \/ ~ ShouldCheck(health) /\ Refused(t, "check")
    /\ UNCHANGED <<memoryVars, backend, redis, connection, health, call, written>>

Ping(t) ==
    /\ \/ /\ connection = "up"
          /\ Goto(t, "ping", "command")
          /\ health' = HealthSuccess
          /\ UNCHANGED <<breaker, permits>>
       \/ /\ connection = "down"
          /\ Refused(t, "ping")
          /\ health' = HealthFailure(health)
    /\ UNCHANGED <<memoryVars, backend, redis, connection, call, written>>

(* What the request does to Redis's map. *)
Stores(r, s) ==
    CASE r.op = "get" -> s
      [] r.op = "set" -> [s EXCEPT ![r.key] = [value |-> r.value, left |-> r.left]]
      [] r.op = "delete" -> [s EXCEPT ![r.key] = None]

Remember(r) == IF r.op = "set" THEN Wrote({<<r.key, r.value>>}) ELSE UNCHANGED written

(* Redis answers, or the connection is lost before or after it executes the *)
(* command; the breaker is told, and a failed call goes on to the fallback. *)
Answer(t, r) ==
    /\ Goto(t, "command", "idle")
    /\ connection = "up"
    /\ redis' = Stores(r, redis)
    /\ Remember(r)
    /\ breaker' = RecordSuccess(breaker)
    /\ permits' = permits + 1
    /\ UNCHANGED <<memoryVars, backend, connection, health, call>>

Lose(t, r) ==
    /\ connection = "down"
    /\ Refused(t, "command")
    /\ \/ UNCHANGED <<redis, written>>
       \/ redis' = Stores(r, redis) /\ Remember(r)
    /\ call' = [call EXCEPT ![t] = r]
    /\ UNCHANGED <<memoryVars, backend, connection, health>>

Command(t) == pc[t] = "command" /\ \E r \in Requests(t) : Answer(t, r) \/ Lose(t, r)

(* The future of a call is dropped at an await: the permit and the locks it  *)
(* has are released, the breaker is told nothing.  A command that was sent   *)
(* may have been executed, and a failed ping recorded.                       *)
AbandonCommand(t, r) ==
    /\ Goto(t, "command", "idle")
    /\ redis' = Stores(r, redis) /\ Remember(r)
    /\ permits' = permits + 1
    /\ UNCHANGED <<memoryVars, backend, connection, breaker, health, call>>

Abandon(t) ==
    /\ pc[t] # "idle"
    /\ pc' = [pc EXCEPT ![t] = "idle"]
    /\ permits' = IF pc[t] \in Permitted THEN permits + 1 ELSE permits
    /\ lock' = IF lock = t THEN None ELSE lock
    /\ call' = [call EXCEPT ![t] = None]
    /\ \/ UNCHANGED health
       \/ pc[t] = "ping" /\ connection = "down" /\ health' = HealthFailure(health)
    /\ UNCHANGED <<max_size, cache, mirror, batched, unevicted, backend, redis, connection,
                   breaker, written>>

-----------------------------------------------------------------------------
(* The in-memory cache, as the backend or as the fallback. *)

(* A get, and on the in-memory backend a batch, takes the store lock. *)
LockInMemory(t) ==
    /\ LockStore(t)
    /\ \E r \in Requests(t) : r.op = "get"
    /\ UNCHANGED <<backend, redisVars, call>>

SetInMemory(t) ==
    /\ pc[t] = "store"
    /\ \E r \in Requests(t) : InsertFirst(t, r)
    /\ call' = [call EXCEPT ![t] = None]
    /\ UNCHANGED <<backend, redisVars>>

PerformInMemory(t) ==
    /\ pc[t] \in {"store", "stats", "evict"}
    /\ EvictLast(t) \/ \E r \in Requests(t) : Write(t, r) \/ Read(t, r)
    /\ call' = [call EXCEPT ![t] = None]
    /\ UNCHANGED <<backend, redisVars>>

(* Batches, warming and statistics are operations of an InMemoryCache only. *)
PerformBatchInMemory(t) ==
    /\ backend = "InMemory"
    /\ BatchOf(t, Key, {r \in Requests(t) : r.op = "set"})
    /\ UNCHANGED <<backend, redisVars, call>>

StartStats(t) ==
    /\ backend = "InMemory"
    /\ ReadStats(t)
    /\ UNCHANGED <<backend, redisVars, call>>

EndStats(t) ==
    /\ Sample(t)
    /\ UNCHANGED <<backend, redisVars, call>>

-----------------------------------------------------------------------------
Connectivity ==
    /\ backend = "Redis"
    /\ connection' \in {"up", "down", "hung"} \ {connection}
    /\ UNCHANGED <<memoryVars, pc, backend, redis, breaker, health, permits, call, written>>

(* Redis drops an entry when its time is up. *)
Expire(e) == IF e = None THEN None
             ELSE IF e.left <= 1 THEN None ELSE [e EXCEPT !.left = @ - 1]

Tick ==
    /\ UNCHANGED <<max_size, lock, mirror, batched, unevicted, pc, backend, connection,
                   permits, call>>
    /\ cache' = Older(cache)
    /\ redis' = [k \in Key |-> Expire(redis[k])]
    /\ breaker' = IF breaker.state # "Open" THEN breaker
                  ELSE [breaker EXCEPT !.opened_at = Least(@ + 1, BackoffMax)]
    /\ health' = [health EXCEPT !.backoff_left = IF @ = 0 THEN 0 ELSE @ - 1]
    /\ written' = [k \in Key |-> [v \in Value |-> Least(written[k][v] + 1, MaxTtl)]]

Internal(t) ==
    \/ Allow(t) \/ Acquire(t) \/ CheckConnection(t) \/ Ping(t) \/ Command(t)
    \/ LockInMemory(t) \/ SetInMemory(t) \/ PerformInMemory(t) \/ PerformBatchInMemory(t)
    \/ EndStats(t)

Dropped(t) ==
    \/ Abandon(t)
    \/ pc[t] = "command" /\ \E r \in Requests(t) : AbandonCommand(t, r)

Next ==
    \/ \E t \in Task : Call(t) \/ StartStats(t) \/ Internal(t) \/ Dropped(t)
    \/ Connectivity
    \/ Tick

(* Tasks run, locks are granted in the order they are asked for, what is     *)
(* sent over a connection that does not hang is answered or fails, and time  *)
(* passes.  Nothing makes a connection that hangs recover.                   *)
Fairness ==
    /\ \A t \in Task : SF_vars(Internal(t))
    /\ WF_vars(Tick)

Spec == Init /\ [][Next]_vars /\ Fairness

-----------------------------------------------------------------------------
(* Properties *)

(* Staleness is bounded across failovers: a value that Redis or the memory *)
(* would return now was written less than the longest time to live ago,    *)
(* however often the backend changed sides since, with values overwritten, *)
(* deleted or half written on the other side.                              *)
ServedWithinTtl ==
    \A k \in Key :
        /\ redis[k] # None => written[k][redis[k].value] < MaxTtl
        /\ Valid(cache, k) => written[k][cache.store[k].value] < MaxTtl

(* A call returns, through rejections, failed pings, dropped neighbours and *)
(* the fallback, with two exceptions: Redis hangs for ever and the call is  *)
(* one of the MaxConcurrent that got a permit (no response timeout is set,  *)
(* and the health lock is held across the PING: all others are served by    *)
(* the fallback); or stats() and an operation wait for each other's lock.   *)
CallsReturn ==
    \A t \in Task :
        \/ []<>(pc[t] = "idle")
        \/ <>[](connection = "hung" /\ pc[t] \in Permitted)
        \/ <>[](Deadlocked /\ pc[t] \in {"store", "stats", "evict", "sample"})

(* The step drops a call before it was decided, or a probe of a half-open   *)
(* breaker (whose answer would have changed the breaker).                   *)
GivesUp(t) ==
    /\ pc'[t] = "idle"
    /\ \/ pc[t] \in {"allow", "bulkhead", "check", "ping"}
       \/ pc[t] = "command" /\ breaker.state = "HalfOpen" /\ breaker' = breaker

(* Graceful degradation ends: once the connection stays up and calls keep   *)
(* being made and are no longer dropped, the breaker closes for good,       *)
(* although probes made during a health backoff are failed without asking   *)
(* Redis.                                                                   *)
RedisUsedAgain ==
    /\ backend = "Redis" /\ <>[](connection = "up")
    /\ []<>(\E t \in Task : pc[t] = "allow")
    /\ <>[][\A t \in Task : ~ GivesUp(t)]_vars
    => <>[](breaker.state = "Closed")
=============================================================================
