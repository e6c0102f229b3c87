------------------------ MODULE PerIssuerRateLimiter ------------------------
(***************************************************************************)
(* The two-tier limiter of src/rate_limit.rs: a global bucket, and a map   *)
(* of per-issuer buckets that are created on first use and evicted when    *)
(* stale.  Callers run check or until_ready, others poll status.           *)
(*                                                                         *)
(* try_consume is one step here (module AtomicTokenBucket has its loop).   *)
(* A second is kept as its distance to the clock: the age of a bucket's    *)
(* last_refill, and how late a caller is with the second it read.  Tokens  *)
(* are whole, as in AtomicTokenBucket.  The global bucket is governor's,   *)
(* external: it gains GlobalPerSecond tokens a second, up to GlobalBurst.  *)
(* The snapshot that record_success gives to the cache is left out: the    *)
(* future of set_raw is dropped without being awaited, so nothing is kept. *)
(*                                                                         *)
(* History: promise, the seconds until an issuer that was told retry_after *)
(* should find a token, unless one was granted meanwhile.                  *)
(***************************************************************************)
EXTENDS Integers

CONSTANTS
    Caller, Issuer,
    GlobalBurst, GlobalPerSecond,
    Burst, PerSecond,   \* per issuer
    Ttl,                \* issuer_ttl_seconds
    MaxLate,            \* bound: a caller acts within MaxLate seconds of its now
    None

ASSUME LimiterAssumption ==
    /\ {GlobalBurst, GlobalPerSecond, Burst, PerSecond} \subseteq Nat \ {0}
    /\ {Ttl, MaxLate} \subseteq Nat
    /\ None \notin Nat \cup [age : Nat, tokens : Nat]

VARIABLES global, buckets, callers, promise

vars == <<global, buckets, callers, promise>>

(* Past this age a bucket is full and stale, and grows no older. *)
MaxAge == Ttl + Burst + 2 * MaxLate + 1
Bucket == [age : 0 .. MaxAge, tokens : 0 .. Burst]

Least(a, b) == IF a <= b THEN a ELSE b
Monus(a, b) == IF a >= b THEN a - b ELSE 0

(* A caller in flight; `left' is what it has yet to sleep. *)
Flight == [step : {"global", "consume", "retry_after", "sleep", "retain"},
           wait : BOOLEAN, issuer : Issuer \cup {None},
           late : 0 .. MaxLate, left : 0 .. 1]

TypeOK ==
    /\ global \in 0 .. GlobalBurst
    /\ buckets \in [Issuer -> Bucket \cup {None}]
    /\ callers \in [Caller -> Flight \cup {None}]
    /\ promise \in [Issuer -> {0, 1, None}]

Init ==
    /\ global = GlobalBurst
    /\ buckets = [i \in Issuer |-> None]
    /\ callers = [c \in Caller |-> None]
    /\ promise = [i \in Issuer |-> None]

At(c, step) == callers[c] # None /\ callers[c].step = step
Become(c, f) == callers' = [callers EXCEPT ![c] = f]

Begin(step, wait, i) ==
    [step |-> step, wait |-> wait, issuer |-> i, late |-> 0, left |-> 0]

-----------------------------------------------------------------------------
(* AtomicTokenBucket, at the second a caller read. *)

refilledUncapped(b, late) == b.tokens + PerSecond * Monus(b.age, late)
refilledLate(b, late) == Least(b.tokens + PerSecond * Monus(b.age, late + 1), Burst)
refilledBackwards(b, late) == Least(b.tokens + PerSecond * Monus(late, b.age), Burst)
refilled(b, late) == Least(b.tokens + PerSecond * Monus(b.age, late), Burst)

Created(late) == [age |-> late, tokens |-> Burst]
BucketOf(i, late) == IF buckets[i] = None THEN Created(late) ELSE buckets[i]

(* A rejected call stores nothing if neither the refill nor its second is   *)
(* new, which is what this stores too.                                      *)
Consumed(b, late) == [age |-> late, tokens |-> Monus(refilled(b, late), 1)]

(* The missing part of a token, rounded up to seconds: tokens are whole and *)
(* at least one comes each second.                                          *)
time_to_next_token(b, late) == IF refilled(b, late) >= 1 THEN 0 ELSE 1

Greatest(a, b) == IF a >= b THEN a ELSE b

next_token_wait(i, late) ==
    Greatest(IF buckets[i] = None THEN 0 ELSE time_to_next_token(buckets[i], late), 1)

-----------------------------------------------------------------------------
(* check: the global tier, then the clock is read. *)
Check(c, i) ==
    /\ callers[c] = None
    /\ IF global > 0
       THEN global' = global - 1 /\ Become(c, Begin("consume", FALSE, i))
       ELSE UNCHANGED <<global, callers>>
    /\ UNCHANGED <<buckets, promise>>

(* until_ready waits for the global tier first. *)
UntilReady(c, i) ==
    /\ callers[c] = None
    /\ Become(c, Begin("global", TRUE, i))
    /\ UNCHANGED <<global, buckets, promise>>

GlobalReady(c) ==
    /\ At(c, "global")
    /\ global > 0
    /\ global' = global - 1
    /\ Become(c, Begin("consume", TRUE, callers[c].issuer))
    /\ UNCHANGED <<buckets, promise>>

(* consume_issuer; a rejected caller goes on to ask how long to wait. *)
Consume(c) ==
    LET f == callers[c]
        b == BucketOf(f.issuer, f.late)
        granted == refilled(b, f.late) >= 1
    IN  /\ At(c, "consume")
        /\ buckets' = [buckets EXCEPT ![f.issuer] = Consumed(b, f.late)]
        /\ Become(c, IF granted THEN None ELSE [f EXCEPT !.step = "retry_after"])
        /\ promise' = IF granted THEN [promise EXCEPT ![f.issuer] = None] ELSE promise
        /\ UNCHANGED global

(* check returns retry_after; until_ready sleeps as long. *)
RetryAfter(c) ==
    LET f == callers[c]
        seconds == next_token_wait(f.issuer, f.late)
    IN  /\ At(c, "retry_after")
        /\ Become(c, IF f.wait THEN [f EXCEPT !.step = "sleep", !.late = 0, !.left = seconds]
                     ELSE None)
        /\ promise' = IF promise[f.issuer] # None /\ promise[f.issuer] < seconds
                      THEN promise ELSE [promise EXCEPT ![f.issuer] = seconds]
        /\ UNCHANGED <<global, buckets>>

(* The sleep is over: the clock is read again. *)
WakeUp(c) ==
    /\ At(c, "sleep")
    /\ callers[c].left = 0
    /\ Become(c, Begin("consume", TRUE, callers[c].issuer))
    /\ UNCHANGED <<global, buckets, promise>>

(* status reads a bucket, and its look at the global tier takes a token. *)
Status ==
    /\ global > 0
    /\ global' = global - 1
    /\ UNCHANGED <<buckets, callers, promise>>

(* evict_stale computes its cutoff, then drops the buckets last seen before *)
(* it.                                                                      *)
EvictStale(c) ==
    /\ callers[c] = None
    /\ Become(c, Begin("retain", FALSE, None))
    /\ UNCHANGED <<global, buckets, promise>>

StaleAtOnce(b, late) == b.age > late
Stale(b, late) == b.age > Ttl + late

Retain(c) ==
    /\ At(c, "retain")
    /\ buckets' = [i \in Issuer |->
                      IF buckets[i] # None /\ Stale(buckets[i], callers[c].late)
                      THEN None ELSE buckets[i]]
    /\ Become(c, None)
    /\ UNCHANGED <<global, promise>>

-----------------------------------------------------------------------------
Older(f) ==
    IF f = None THEN None
    ELSE [f EXCEPT !.late = IF f.step \in {"global", "sleep"} THEN 0 ELSE @ + 1,
                   !.left = Monus(@, 1)]

Tick ==
    /\ \A c \in Caller : callers[c] # None => callers[c].late < MaxLate
    /\ global' = Least(global + GlobalPerSecond, GlobalBurst)
    /\ buckets' = [i \in Issuer |-> IF buckets[i] = None THEN None
                      ELSE [buckets[i] EXCEPT !.age = Least(@ + 1, MaxAge)]]
    /\ callers' = [c \in Caller |-> Older(callers[c])]
    /\ promise' = [i \in Issuer |-> IF promise[i] = None THEN None ELSE Monus(promise[i], 1)]

Progress(c) ==
    GlobalReady(c) \/ Consume(c) \/ RetryAfter(c) \/ WakeUp(c) \/ Retain(c)

Start(c) == EvictStale(c) \/ \E i \in Issuer : Check(c, i) \/ UntilReady(c, i)

Next == (\E c \in Caller : Start(c) \/ Progress(c)) \/ Status \/ Tick

(* Threads are scheduled, governor serves its waiters, time passes. *)
Fairness == WF_vars(Tick) /\ \A c \in Caller : SF_vars(Progress(c))

Spec == Init /\ [][Next]_vars /\ Fairness

-----------------------------------------------------------------------------
(* Properties *)

(* A bucket that is dropped while stale had, at that time, all the tokens   *)
(* the bucket made in its place will have: eviction gives nothing away,     *)
(* even against callers that are late, if a bucket fills up within the TTL. *)
EvictionHarmless ==
    [][\A i \in Issuer :
         buckets[i] # None /\ buckets'[i] = None /\ Ttl * PerSecond >= Burst
             => refilled(buckets[i], 0) = Burst]_vars

(* A caller that waits for its retry_after finds a token, unless another    *)
(* one was granted to the issuer meanwhile, whatever rejections, late       *)
(* callers and evictions happened to the bucket in between.                 *)
RetryAfterSuffices ==
    \A i \in Issuer : promise[i] = 0 => refilled(BucketOf(i, 0), 0) >= 1

(* until_ready returns once no new call or status poll takes tokens away.   *)
UntilReadyReturns ==
    <>[][\A c \in Caller, i \in Issuer : ~ Check(c, i) /\ ~ UntilReady(c, i)]_vars
    /\ <>[][~ Status]_vars
    => \A c \in Caller : []<>(callers[c] = None \/ ~ callers[c].wait)
=============================================================================
