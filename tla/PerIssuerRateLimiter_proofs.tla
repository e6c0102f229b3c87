--------------------- MODULE PerIssuerRateLimiter_proofs ---------------------
(***************************************************************************)
(* The promises of the limiter for any number of callers and issuers, any  *)
(* rates, bursts and time to live, and callers that are arbitrarily late.  *)
(***************************************************************************)
EXTENDS PerIssuerRateLimiter, TLAPS

(* A caller that is not evicting is there for an issuer. *)
HasIssuer ==
    \A c \in Caller : callers[c] # None /\ callers[c].step # "retain"
                         => callers[c].issuer \in Issuer

LimiterInv == TypeOK /\ HasIssuer /\ RetryAfterSuffices

-----------------------------------------------------------------------------
(* Products of rates and seconds, with as little arithmetic as is needed. *)
LEMMA RefillIsNat == \A s \in Nat : PerSecond * s \in Nat
  BY LimiterAssumption

LEMMA RefillIsPositive == \A s \in Nat : s >= 1 => PerSecond * s >= 1
  BY LimiterAssumption

LEMMA RefillIsMonotone == \A s, t \in Nat : s <= t => s * PerSecond <= PerSecond * t
  BY LimiterAssumption

LEMMA RefilledIsTokens ==
    ASSUME NEW b \in [age : Nat, tokens : 0 .. Burst], NEW late \in Nat
    PROVE  refilled(b, late) \in 0 .. Burst
<1> DEFINE m == Monus(b.age, late)
<1>1. m \in Nat
  BY DEF Monus
<1>2. PerSecond * m \in Nat
  BY <1>1, RefillIsNat
<1> DEFINE p == PerSecond * m
<1>3. refilled(b, late) = Least(b.tokens + p, Burst)
  BY DEF refilled
<1> HIDE DEF p
<1>4. p \in Nat
  BY <1>2 DEF p
<1> QED
  BY <1>3, <1>4, LimiterAssumption DEF Least

(* A bucket has a token for a caller that reads now if it has one already   *)
(* or was last touched at least a second ago.                               *)
LEMMA TokenReady ==
    ASSUME NEW b \in [age : Nat, tokens : 0 .. Burst]
    PROVE  refilled(b, 0) >= 1 <=> b.tokens >= 1 \/ b.age >= 1
<1>1. Monus(b.age, 0) = b.age
  BY DEF Monus
<1> DEFINE p == PerSecond * b.age
<1>2. refilled(b, 0) = Least(b.tokens + p, Burst)
  BY <1>1 DEF refilled
<1>3. p \in Nat /\ (b.age >= 1 => p >= 1) /\ (b.age = 0 => p = 0)
  BY RefillIsNat, RefillIsPositive, LimiterAssumption
<1> HIDE DEF p
<1>4. b.tokens \in 0 .. Burst /\ b.age \in Nat /\ Burst \in Nat /\ Burst >= 1
  BY LimiterAssumption
<1> QED
  BY <1>2, <1>3, <1>4 DEF Least

LEMMA BucketsAreTyped ==
    /\ MaxAge \in Nat /\ MaxAge >= 1 /\ MaxLate <= MaxAge
    /\ \A b \in Bucket : b \in [age : Nat, tokens : 0 .. Burst] /\ b # None
    /\ \A late \in 0 .. MaxLate : Created(late) \in Bucket
<1>1. MaxAge \in Nat /\ MaxAge >= 1 /\ MaxLate <= MaxAge
  BY LimiterAssumption DEF MaxAge
<1>2. ASSUME NEW b \in Bucket PROVE b \in [age : Nat, tokens : 0 .. Burst] /\ b # None
  <2>1. b \in [age : Nat, tokens : 0 .. Burst] /\ b \in [age : Nat, tokens : Nat]
    BY <1>1, LimiterAssumption DEF Bucket
  <2> QED
    BY <2>1, LimiterAssumption
<1>3. ASSUME NEW late \in 0 .. MaxLate PROVE Created(late) \in Bucket
  BY <1>1, LimiterAssumption DEF Created, Bucket
<1> QED
  BY <1>1, <1>2, <1>3

(* What Consume stores, and why it never stores an empty bucket touched now *)
(* while somebody counts on a token.                                        *)
LEMMA ConsumedIsBucket ==
    ASSUME NEW b \in Bucket, NEW late \in 0 .. MaxLate
    PROVE  /\ Consumed(b, late) \in Bucket
           /\ Consumed(b, late).age = late
           /\ refilled(b, late) \in Nat
<1>1. refilled(b, late) \in 0 .. Burst
  BY BucketsAreTyped, RefilledIsTokens, LimiterAssumption
<1> DEFINE r == refilled(b, late)
<1> HIDE DEF r
<1>2. Monus(r, 1) \in 0 .. Burst
  BY <1>1, LimiterAssumption DEF Monus, r
<1>3. late \in 0 .. MaxAge
  BY BucketsAreTyped, LimiterAssumption
<1>4. Consumed(b, late) = [age |-> late, tokens |-> Monus(r, 1)]
  BY DEF Consumed, r
<1> QED
  BY <1>1, <1>2, <1>3, <1>4, LimiterAssumption DEF Bucket

-----------------------------------------------------------------------------
LEMMA LimiterInitially == Init => LimiterInv
<1> SUFFICES ASSUME Init PROVE LimiterInv
  OBVIOUS
<1>1. TypeOK
  BY LimiterAssumption DEF Init, TypeOK
<1>2. HasIssuer /\ RetryAfterSuffices
  BY LimiterAssumption DEF Init, HasIssuer, RetryAfterSuffices
<1> QED
  BY <1>1, <1>2 DEF LimiterInv

LEMMA BeginIsFlight ==
    ASSUME NEW step \in {"global", "consume", "retain"}, NEW wait \in BOOLEAN,
           NEW i \in Issuer \cup {None}
    PROVE  /\ Begin(step, wait, i) \in Flight
           /\ Begin(step, wait, i).step = step /\ Begin(step, wait, i).issuer = i
  BY LimiterAssumption DEF Begin, Flight

(* A step of caller c that leaves it at f, or done, keeps the type of the   *)
(* callers and that each is there for an issuer.                            *)
LEMMA CallerStep ==
    ASSUME LimiterInv, NEW c \in Caller, NEW f, Become(c, f),
           f # None => f \in Flight /\ (f.step # "retain" => f.issuer \in Issuer)
    PROVE  callers' \in [Caller -> Flight \cup {None}] /\ HasIssuer'
<1>1. callers \in [Caller -> Flight \cup {None}]
  BY DEF LimiterInv, TypeOK
<1>2. callers' \in [Caller -> Flight \cup {None}]
  BY <1>1 DEF Become
<1>3. ASSUME NEW d \in Caller, callers'[d] # None, callers'[d].step # "retain"
      PROVE  callers'[d].issuer \in Issuer
  <2>1. CASE d = c
    BY <1>1, <1>3, <2>1 DEF Become
  <2>2. CASE d # c
    BY <1>1, <1>3, <2>2 DEF Become, LimiterInv, HasIssuer
  <2> QED
    BY <2>1, <2>2
<1> QED
  BY <1>2, <1>3 DEF HasIssuer

LEMMA BeginStep ==
    ASSUME LimiterInv, NEW c \in Caller, NEW step \in {"global", "consume", "retain"},
           NEW wait \in BOOLEAN, NEW i \in Issuer \cup {None},
           step # "retain" => i \in Issuer, Become(c, Begin(step, wait, i))
    PROVE  callers' \in [Caller -> Flight \cup {None}] /\ HasIssuer'
<1> DEFINE w == Begin(step, wait, i)
<1>1. w \in Flight /\ w.step = step /\ w.issuer = i
  BY BeginIsFlight
<1>2. Become(c, w)
  OBVIOUS
<1> HIDE DEF w
<1> QED
  BY <1>1, <1>2, CallerStep

LEMMA LimiterStep == LimiterInv /\ [Next]_vars => LimiterInv'
<1> SUFFICES ASSUME LimiterInv, [Next]_vars PROVE LimiterInv'
  OBVIOUS
<1>0. /\ global \in 0 .. GlobalBurst
      /\ buckets \in [Issuer -> Bucket \cup {None}]
      /\ callers \in [Caller -> Flight \cup {None}]
      /\ promise \in [Issuer -> {0, 1, None}]
      /\ {GlobalBurst, GlobalPerSecond, Burst, PerSecond, Ttl, MaxLate} \subseteq Nat
  BY LimiterAssumption DEF LimiterInv, TypeOK
<1>a. ASSUME UNCHANGED <<buckets, promise>> PROVE RetryAfterSuffices'
  BY <1>a DEF LimiterInv, RetryAfterSuffices, BucketOf
<1>b. ASSUME NEW c \in Caller, callers[c] # None
      PROVE  /\ callers[c] \in Flight
             /\ callers[c].step # "retain" => callers[c].issuer \in Issuer
  BY <1>0, <1>b DEF LimiterInv, HasIssuer
<1>1. ASSUME NEW c \in Caller, NEW i \in Issuer, Check(c, i) PROVE LimiterInv'
  <2>1. CASE global > 0
    <3>1. callers' \in [Caller -> Flight \cup {None}] /\ HasIssuer'
      BY <1>1, <2>1, BeginStep DEF Check
    <3>2. global' \in 0 .. GlobalBurst
      BY <1>0, <1>1, <2>1 DEF Check
    <3> QED
      BY <1>0, <1>1, <1>a, <3>1, <3>2 DEF Check, LimiterInv, TypeOK
  <2>2. CASE ~ global > 0
    BY <1>0, <1>1, <1>a, <2>2 DEF Check, LimiterInv, TypeOK, HasIssuer
  <2> QED
    BY <2>1, <2>2
<1>2. ASSUME NEW c \in Caller, NEW i \in Issuer, UntilReady(c, i) PROVE LimiterInv'
  <2>1. callers' \in [Caller -> Flight \cup {None}] /\ HasIssuer'
    BY <1>2, BeginStep DEF UntilReady
  <2> QED
    BY <1>0, <1>2, <1>a, <2>1 DEF UntilReady, LimiterInv, TypeOK
<1>3. ASSUME NEW c \in Caller, EvictStale(c) PROVE LimiterInv'
  <2>1. callers' \in [Caller -> Flight \cup {None}] /\ HasIssuer'
    BY <1>3, BeginStep DEF EvictStale
  <2> QED
    BY <1>0, <1>3, <1>a, <2>1 DEF EvictStale, LimiterInv, TypeOK
<1>4. ASSUME NEW c \in Caller, GlobalReady(c) PROVE LimiterInv'
  <2>1. callers[c].issuer \in Issuer
    BY <1>4, <1>b DEF GlobalReady, At
  <2>2. callers' \in [Caller -> Flight \cup {None}] /\ HasIssuer'
    BY <1>4, <2>1, BeginStep DEF GlobalReady
  <2>3. global' \in 0 .. GlobalBurst
    BY <1>0, <1>4 DEF GlobalReady
  <2> QED
    BY <1>0, <1>4, <1>a, <2>2, <2>3 DEF GlobalReady, LimiterInv, TypeOK
<1>5. ASSUME NEW c \in Caller, WakeUp(c) PROVE LimiterInv'
  <2>1. callers[c].issuer \in Issuer
    BY <1>5, <1>b DEF WakeUp, At
  <2>2. callers' \in [Caller -> Flight \cup {None}] /\ HasIssuer'
    BY <1>5, <2>1, BeginStep DEF WakeUp
  <2> QED
    BY <1>0, <1>5, <1>a, <2>2 DEF WakeUp, LimiterInv, TypeOK
<1>6. ASSUME NEW c \in Caller, Consume(c) PROVE LimiterInv'
  <2> DEFINE f == callers[c]
             i == f.issuer
             late == f.late
             b == BucketOf(i, late)
             granted == refilled(b, late) >= 1
             n == Consumed(b, late)
  <2>1. f \in Flight /\ i \in Issuer /\ late \in 0 .. MaxLate
    BY <1>6, <1>b DEF Consume, At, Flight
  <2>2. /\ buckets' = [buckets EXCEPT ![i] = n]
        /\ Become(c, IF granted THEN None ELSE [f EXCEPT !.step = "retry_after"])
        /\ promise' = IF granted THEN [promise EXCEPT ![i] = None] ELSE promise
        /\ global' = global
    BY <1>6 DEF Consume
  <2>3. [f EXCEPT !.step = "retry_after"] \in Flight
           /\ [f EXCEPT !.step = "retry_after"].issuer = i
    BY <2>1 DEF Flight
  <2>4. callers' \in [Caller -> Flight \cup {None}] /\ HasIssuer'
    <3>1. CASE granted
      BY <2>2, <3>1, CallerStep
    <3>2. CASE ~ granted
      BY <2>1, <2>2, <2>3, <3>2, CallerStep
    <3> QED
      BY <3>1, <3>2
  <2>5. b \in Bucket
    BY <1>0, <2>1, BucketsAreTyped DEF BucketOf
  <2>6. n \in Bucket /\ n.age = late /\ refilled(b, late) \in Nat
    BY <2>1, <2>5, ConsumedIsBucket
  <2> HIDE DEF n, b, granted, late
  <2>7. buckets' \in [Issuer -> Bucket \cup {None}] /\ promise' \in [Issuer -> {0, 1, None}]
    BY <1>0, <2>1, <2>2, <2>6
  <2>8. RetryAfterSuffices'
    <3> SUFFICES ASSUME NEW j \in Issuer, promise'[j] = 0
                 PROVE  refilled(BucketOf(j, 0)', 0) >= 1
      BY DEF RetryAfterSuffices, refilled
    <3>1. CASE j # i
      <4>1. promise[j] = 0 /\ buckets'[j] = buckets[j]
        BY <1>0, <2>1, <2>2, <3>1
      <4> QED
        BY <4>1 DEF LimiterInv, RetryAfterSuffices, BucketOf
    <3>2. CASE j = i
      <4>1. ~ granted /\ promise[i] = 0
        BY <1>0, <2>1, <2>2, <3>2, LimiterAssumption
      <4>2. late # 0
        <5>1. SUFFICES ASSUME late = 0 PROVE granted
          BY <4>1
        <5>2. refilled(BucketOf(i, 0), 0) >= 1
          BY <2>1, <4>1 DEF LimiterInv, RetryAfterSuffices
        <5> QED
          BY <5>1, <5>2 DEF granted, b
      <4>3. BucketOf(j, 0)' = n
        BY <1>0, <2>1, <2>2, <2>6, <3>2, BucketsAreTyped DEF BucketOf
      <4>4. n.age >= 1 /\ n \in [age : Nat, tokens : 0 .. Burst]
        BY <2>1, <2>6, <4>2, BucketsAreTyped, <1>0
      <4> QED
        BY <4>3, <4>4, TokenReady
    <3> QED
      BY <3>1, <3>2
  <2> QED
    BY <1>0, <2>2, <2>4, <2>7, <2>8 DEF LimiterInv, TypeOK
<1>7. ASSUME NEW c \in Caller, RetryAfter(c) PROVE LimiterInv'
  <2> DEFINE f == callers[c]
             i == f.issuer
             seconds == next_token_wait(i, f.late)
             sleep == [f EXCEPT !.step = "sleep", !.late = 0, !.left = seconds]
  <2>1. f \in Flight /\ i \in Issuer
    BY <1>7, <1>b DEF RetryAfter, At
  <2>2. seconds = 1
    BY DEF next_token_wait, time_to_next_token, Greatest
  <2>3. sleep \in Flight /\ sleep.issuer = i
    <3>1. 0 \in 0 .. MaxLate /\ 1 \in 0 .. 1
      BY <1>0
    <3>2. sleep = [f EXCEPT !.step = "sleep", !.late = 0, !.left = 1]
      BY <2>2
    <3> HIDE DEF seconds, sleep
    <3>3. sleep = [step |-> "sleep", wait |-> f.wait, issuer |-> i, late |-> 0, left |-> 1]
      BY <2>1, <3>2 DEF Flight
    <3>4. f.wait \in BOOLEAN
      BY <2>1 DEF Flight
    <3> QED
      BY <2>1, <3>1, <3>3, <3>4 DEF Flight
  <2>4. /\ Become(c, IF f.wait THEN sleep ELSE None)
        /\ promise' = IF promise[i] # None /\ promise[i] < seconds
                      THEN promise ELSE [promise EXCEPT ![i] = seconds]
        /\ UNCHANGED <<global, buckets>>
    BY <1>7 DEF RetryAfter
  <2> HIDE DEF sleep, seconds
  <2>5. callers' \in [Caller -> Flight \cup {None}] /\ HasIssuer'
    <3>1. CASE f.wait
      BY <2>1, <2>3, <2>4, <3>1, CallerStep
    <3>2. CASE ~ f.wait
      BY <2>4, <3>2, CallerStep
    <3> QED
      BY <3>1, <3>2
  <2>6. promise' \in [Issuer -> {0, 1, None}]
    BY <1>0, <2>1, <2>2, <2>4
  <2>7. \A j \in Issuer : promise'[j] = 0 => promise[j] = 0
    BY <1>0, <2>1, <2>2, <2>4
  <2>8. RetryAfterSuffices'
    BY <2>4, <2>7 DEF LimiterInv, RetryAfterSuffices, BucketOf
  <2> QED
    BY <1>0, <2>4, <2>5, <2>6, <2>8 DEF LimiterInv, TypeOK
<1>8. ASSUME NEW c \in Caller, Retain(c) PROVE LimiterInv'
  <2>1. callers' \in [Caller -> Flight \cup {None}] /\ HasIssuer'
    BY <1>8, CallerStep DEF Retain
  <2>2. buckets' \in [Issuer -> Bucket \cup {None}]
    BY <1>0, <1>8 DEF Retain
  <2>3. RetryAfterSuffices'
    <3> SUFFICES ASSUME NEW j \in Issuer, promise'[j] = 0
                 PROVE  refilled(BucketOf(j, 0)', 0) >= 1
      BY DEF RetryAfterSuffices, refilled
    <3>1. CASE buckets'[j] = None
      <4>1. BucketOf(j, 0)' = Created(0)
        BY <3>1 DEF BucketOf
      <4>2. Created(0) \in [age : Nat, tokens : 0 .. Burst] /\ Created(0).tokens >= 1
        BY LimiterAssumption DEF Created
      <4> QED
        BY <4>1, <4>2, TokenReady
    <3>2. CASE buckets'[j] # None
      <4>1. buckets'[j] = buckets[j] /\ promise[j] = 0
        BY <1>8, <3>2 DEF Retain
      <4> QED
        BY <4>1 DEF LimiterInv, RetryAfterSuffices, BucketOf
    <3> QED
      BY <3>1, <3>2
  <2> QED
    BY <1>0, <1>8, <2>1, <2>2, <2>3 DEF Retain, LimiterInv, TypeOK
<1>9. CASE Status
  <2>1. global' \in 0 .. GlobalBurst
    BY <1>0, <1>9 DEF Status
  <2> QED
    BY <1>0, <1>9, <1>a, <2>1 DEF Status, LimiterInv, TypeOK, HasIssuer
<1>10. CASE Tick
  <2>1. global' \in 0 .. GlobalBurst
    BY <1>0, <1>10 DEF Tick, Least
  <2>2. ASSUME NEW j \in Issuer
        PROVE  buckets'[j] \in Bucket \cup {None}
               /\ (buckets'[j] # None => buckets'[j].age >= 1)
    <3>1. CASE buckets[j] = None
      BY <1>10, <3>1 DEF Tick
    <3>2. CASE buckets[j] # None
      <4>1. buckets[j] \in Bucket /\ buckets'[j] = [buckets[j] EXCEPT !.age = Least(@ + 1, MaxAge)]
        BY <1>0, <1>10, <3>2 DEF Tick
      <4>2. Least(buckets[j].age + 1, MaxAge) \in 1 .. MaxAge
        BY <4>1, BucketsAreTyped DEF Least
      <4> QED
        BY <4>1, <4>2, BucketsAreTyped DEF Bucket
    <3> QED
      BY <3>1, <3>2
  <2>3. buckets' \in [Issuer -> Bucket \cup {None}]
    BY <1>10, <2>2 DEF Tick
  <2>4. promise' \in [Issuer -> {0, 1, None}]
    BY <1>0, <1>10 DEF Tick, Monus
  <2>5. ASSUME NEW d \in Caller
        PROVE  /\ callers'[d] \in Flight \cup {None}
               /\ callers'[d] # None /\ callers'[d].step # "retain"
                     => callers'[d].issuer \in Issuer
    <3>1. CASE callers[d] = None
      BY <1>10, <3>1 DEF Tick, Older
    <3>2. CASE callers[d] # None
      <4> DEFINE f == callers[d]
                 late == IF f.step \in {"global", "sleep"} THEN 0 ELSE f.late + 1
                 left == Monus(f.left, 1)
      <4>1. f \in Flight /\ f.late < MaxLate
        BY <1>10, <1>b, <3>2 DEF Tick
      <4>2. late \in 0 .. MaxLate /\ left \in 0 .. 1
        BY <1>0, <4>1 DEF Flight, Monus
      <4>3. callers'[d] = [f EXCEPT !.late = late, !.left = left]
        BY <1>10, <3>2 DEF Tick, Older
      <4> HIDE DEF late, left
      <4>4. /\ callers'[d] \in Flight
            /\ callers'[d].step = f.step /\ callers'[d].issuer = f.issuer
        BY <4>1, <4>2, <4>3 DEF Flight
      <4> QED
        BY <4>4, <1>b, <3>2
    <3> QED
      BY <3>1, <3>2
  <2>6. callers' \in [Caller -> Flight \cup {None}] /\ HasIssuer'
    BY <1>10, <2>5 DEF Tick, HasIssuer
  <2>7. RetryAfterSuffices'
    <3> SUFFICES ASSUME NEW j \in Issuer PROVE refilled(BucketOf(j, 0)', 0) >= 1
      BY DEF RetryAfterSuffices, refilled
    <3>1. CASE buckets'[j] = None
      <4>1. BucketOf(j, 0)' = Created(0)
        BY <3>1 DEF BucketOf
      <4>2. Created(0) \in [age : Nat, tokens : 0 .. Burst] /\ Created(0).tokens >= 1
        BY LimiterAssumption DEF Created
      <4> QED
        BY <4>1, <4>2, TokenReady
    <3>2. CASE buckets'[j] # None
      <4>1. BucketOf(j, 0)' = buckets'[j]
        BY <3>2 DEF BucketOf
      <4>2. buckets'[j] \in [age : Nat, tokens : 0 .. Burst] /\ buckets'[j].age >= 1
        BY <2>2, <3>2, BucketsAreTyped
      <4> QED
        BY <4>1, <4>2, TokenReady
    <3> QED
      BY <3>1, <3>2
  <2> QED
    BY <2>1, <2>3, <2>4, <2>6, <2>7 DEF LimiterInv, TypeOK
<1>11. CASE UNCHANGED vars
  BY <1>11, <1>a DEF vars, LimiterInv, TypeOK, HasIssuer
<1> QED
  BY <1>1, <1>2, <1>3, <1>4, <1>5, <1>6, <1>7, <1>8, <1>9, <1>10, <1>11 DEF Next, Start, Progress

LEMMA LimiterInvariant == Spec => []LimiterInv
  BY LimiterInitially, LimiterStep, PTL DEF Spec

(* Buckets never hold more than a burst and delays are at most a second,    *)
(* whatever callers, pollers and evictions interleave.                      *)
THEOREM LimiterTypeCorrect == Spec => []TypeOK
<1>1. LimiterInv => TypeOK
  BY DEF LimiterInv
<1> QED
  BY <1>1, LimiterInvariant, PTL

(* The retry_after that check returns is enough: a token is there when it   *)
(* is over, unless one was granted meanwhile.                               *)
THEOREM RetryAfterIsEnough == Spec => []RetryAfterSuffices
<1>1. LimiterInv => RetryAfterSuffices
  BY DEF LimiterInv
<1> QED
  BY <1>1, LimiterInvariant, PTL

(* evict_stale drops only buckets that were full again, if a bucket fills   *)
(* up within the time to live.                                              *)
THEOREM EvictionIsHarmless == Spec => EvictionHarmless
<1>1. LimiterInv /\ [Next]_vars =>
        [\A i \in Issuer :
           buckets[i] # None /\ buckets'[i] = None /\ Ttl * PerSecond >= Burst
               => refilled(buckets[i], 0) = Burst]_vars
  <2> SUFFICES ASSUME LimiterInv, Next, NEW i \in Issuer, buckets[i] # None,
                      buckets'[i] = None, Ttl * PerSecond >= Burst
               PROVE  refilled(buckets[i], 0) = Burst
    OBVIOUS
  <2> DEFINE b == buckets[i]
  <2>1. b \in Bucket /\ b \in [age : Nat, tokens : 0 .. Burst]
    BY BucketsAreTyped DEF LimiterInv, TypeOK
  <2>2. PICK c \in Caller : Retain(c)
    <3>1. ASSUME NEW c \in Caller, Consume(c) PROVE FALSE
      <4> DEFINE f == callers[c]
                 n == Consumed(BucketOf(f.issuer, f.late), f.late)
      <4>1. f \in Flight /\ f.issuer \in Issuer /\ f.late \in 0 .. MaxLate
        BY <3>1 DEF Consume, At, LimiterInv, TypeOK, HasIssuer, Flight
      <4>2. BucketOf(f.issuer, f.late) \in Bucket
        BY <4>1, BucketsAreTyped DEF BucketOf, LimiterInv, TypeOK
      <4>3. n \in Bucket
        BY <4>1, <4>2, ConsumedIsBucket
      <4> HIDE DEF n
      <4>4. buckets' = [buckets EXCEPT ![f.issuer] = n]
        BY <3>1 DEF Consume, n
      <4> QED
        BY <4>1, <4>3, <4>4, BucketsAreTyped DEF LimiterInv, TypeOK
    <3>2. ~ Tick
      <4> SUFFICES ASSUME Tick PROVE FALSE
        OBVIOUS
      <4>1. buckets'[i] = [b EXCEPT !.age = Least(@ + 1, MaxAge)]
        BY DEF Tick
      <4>2. Least(b.age + 1, MaxAge) \in 0 .. MaxAge
        BY <2>1, BucketsAreTyped DEF Least
      <4>3. buckets'[i] \in Bucket
        BY <2>1, <4>1, <4>2 DEF Bucket
      <4> QED
        BY <4>3, BucketsAreTyped
    <3>3. buckets' # buckets
      OBVIOUS
    <3> QED
      BY <3>1, <3>2, <3>3 DEF Next, Start, Progress, EvictStale, Check, UntilReady, GlobalReady,
         RetryAfter, WakeUp, Status
  <2>3. callers[c] # None /\ Stale(b, callers[c].late)
    BY <2>2 DEF Retain, At
  <2>4. callers[c].late \in Nat
    BY <2>3, LimiterAssumption DEF LimiterInv, TypeOK, Flight
  <2>5. Ttl <= b.age
    BY <2>1, <2>3, <2>4, LimiterAssumption DEF Stale
  <2> DEFINE p == PerSecond * b.age
  <2>6. p \in Nat /\ Ttl * PerSecond <= p
    BY <2>1, <2>5, RefillIsNat, RefillIsMonotone, LimiterAssumption
  <2>7. Monus(b.age, 0) = b.age
    BY <2>1 DEF Monus
  <2>8. refilled(b, 0) = Least(b.tokens + p, Burst)
    BY <2>7 DEF refilled
  <2> DEFINE q == Ttl * PerSecond
  <2>9. q \in Nat /\ q >= Burst /\ q <= p
    BY <2>6, LimiterAssumption
  <2> HIDE DEF p, q
  <2> DEFINE r == b.tokens + p
  <2>10. r >= Burst /\ r \in Nat /\ Burst \in Nat
    BY <2>1, <2>6, <2>9, LimiterAssumption
  <2>11. refilled(b, 0) = Least(r, Burst)
    BY <2>8
  <2> HIDE DEF r
  <2>12. Least(r, Burst) = Burst
    BY <2>10 DEF Least
  <2> QED
    BY <2>11, <2>12
<1> QED
  BY <1>1, LimiterInvariant, PTL DEF Spec, EvictionHarmless
=============================================================================
