--------------------- MODULE AtomicTokenBucket_proofs ---------------------
(***************************************************************************)
(* Proofs about AtomicTokenBucket, for any number of threads, any burst    *)
(* and any rate.                                                           *)
(***************************************************************************)
EXTENDS AtomicTokenBucket, TLAPS

-----------------------------------------------------------------------------
(* Arithmetic *)

(* PerSecond is an integer that distributes over a sum and is monotone. *)
LEMMA Refills ==
    ASSUME NEW a \in Int, NEW b \in Int
    PROVE  /\ PerSecond * a \in Int
           /\ PerSecond * (a + b) = PerSecond * a + PerSecond * b
           /\ a >= 0 => PerSecond * a >= 0
  <1>1. PerSecond \in Int /\ PerSecond >= 0
    BY BucketAssumption
  <1> QED  BY <1>1

LEMMA RefillsMonotone ==
    ASSUME NEW a \in Int, NEW b \in Int, a <= b
    PROVE  PerSecond * a <= PerSecond * b
  <1>1. PerSecond * (b - a) >= 0 /\ PerSecond * (a + (b - a)) = PerSecond * a + PerSecond * (b - a)
    BY Refills, b - a \in Int
  <1>2. a + (b - a) = b  OBVIOUS
  <1>3. PerSecond * a \in Int /\ PerSecond * b \in Int /\ PerSecond * (b - a) \in Int
    BY Refills, b - a \in Int
  <1> QED  BY <1>1, <1>2, <1>3

(* What `refilled' returns, by cases. *)
LEMMA RefilledValue ==
    ASSUME NEW s \in BucketState, NEW at \in Time
    PROVE  /\ refilled(s, at) \in 0 .. Burst
           /\ s.tokens <= refilled(s, at)
           /\ at <= s.last => refilled(s, at) = s.tokens
           /\ at >= s.last =>
                 \/ refilled(s, at) = s.tokens + PerSecond * (at - s.last)
                 \/ /\ refilled(s, at) = Burst
                    /\ Burst <= s.tokens + PerSecond * (at - s.last)
  <1>1. /\ s.last \in Int /\ at \in Int /\ s.tokens \in 0 .. Burst
        /\ Burst \in Nat
    BY BucketAssumption DEF BucketState, Time
  <1>2. CASE at >= s.last
    <2>1. at - s.last \in Int /\ at - s.last >= 0  BY <1>1, <1>2
    <2>2. PerSecond * (at - s.last) \in Int /\ PerSecond * (at - s.last) >= 0
      BY <2>1, Refills
    <2>3. Monus(at, s.last) = at - s.last  BY <1>2 DEF Monus
    <2>4. at <= s.last => PerSecond * (at - s.last) = 0
      <3>1. at <= s.last => at - s.last = 0  BY <1>1, <1>2
      <3>2. PerSecond * 0 = 0  BY BucketAssumption
      <3> QED  BY <3>1, <3>2
    <2> DEFINE p == PerSecond * (at - s.last)
    <2>5. refilled(s, at) = IF s.tokens + p <= Burst THEN s.tokens + p ELSE Burst
      BY <2>3 DEF refilled, Least
    <2>6. p \in Int /\ p >= 0 /\ (at <= s.last => p = 0)  BY <2>2, <2>4
    <2> HIDE DEF p
    <2>7. /\ refilled(s, at) \in 0 .. Burst
          /\ s.tokens <= refilled(s, at)
          /\ at <= s.last => refilled(s, at) = s.tokens
          /\ refilled(s, at) = s.tokens + p
             \/ (refilled(s, at) = Burst /\ Burst <= s.tokens + p)
      BY <1>1, <2>5, <2>6
    <2> QED  BY <2>7 DEF p
  <1>3. CASE ~ (at >= s.last)
    <2>1. Monus(at, s.last) = 0  BY <1>1, <1>3 DEF Monus
    <2>2. PerSecond * 0 = 0  BY BucketAssumption
    <2>3. refilled(s, at) = s.tokens  BY <1>1, <2>1, <2>2 DEF refilled, Least
    <2> QED  BY <1>1, <1>3, <2>3
  <1> QED  BY <1>2, <1>3

(* The word a call stores is a bucket state, one token below the refill. *)
LEMMA NextValue ==
    ASSUME NEW s \in BucketState, NEW at \in Time
    PROVE  /\ next(s, at) \in BucketState
           /\ next(s, at).last = at
           /\ granted(s, at) => next(s, at).tokens = refilled(s, at) - 1
           /\ ~ granted(s, at) => /\ next(s, at).tokens = 0
                                  /\ refilled(s, at) = 0
  <1>1. refilled(s, at) \in 0 .. Burst /\ Burst \in Nat
    BY RefilledValue, BucketAssumption
  <1>2. Monus(refilled(s, at), 1) \in 0 .. Burst
    BY <1>1 DEF Monus
  <1> QED  BY <1>1, <1>2 DEF next, granted, Monus, BucketState

-----------------------------------------------------------------------------
(* The inductive invariant *)

(* No timestamp is ahead of the clock. *)
TimeInv ==
    /\ state.last <= clock
    /\ ideal.last <= clock
    /\ window.start <= clock
    /\ \A t \in Thread : now[t] <= clock

(* Once something was granted in the window, the tokens left count too: the *)
(* budget reaches to the bucket's own second.                               *)
WindowInv ==
    \/ window.grants = 0
    \/ window.grants + state.tokens <=
          Burst + PerSecond * (state.last - window.start + window.rewound)

(* The bucket's second is never ahead of the ideal one, and refilled up to  *)
(* that second it holds at least the ideal tokens.                          *)
RefillInv ==
    /\ state.last <= ideal.last
    /\ ideal.tokens <= refilled(state, ideal.last)

BucketInv == TypeOK /\ TimeInv /\ WindowInv /\ RefillInv

LEMMA BucketInit == Init => BucketInv
  <1> SUFFICES ASSUME Init PROVE BucketInv  OBVIOUS
  <1> USE BucketAssumption
  <1>1. 0 \in Time /\ Full \in BucketState
    BY DEF Full, BucketState, Time
  <1>2. TypeOK  BY <1>1 DEF Init, TypeOK
  <1>3. TimeInv  BY DEF Init, TimeInv, Full
  <1>4. WindowInv  BY DEF Init, WindowInv
  <1>5. state.last <= ideal.last /\ ideal.tokens = state.tokens
    BY DEF Init, Full
  <1>6. state.tokens <= refilled(state, ideal.last)
    BY <1>1, RefilledValue DEF Init, Full
  <1> QED  BY <1>2, <1>3, <1>4, <1>5, <1>6 DEF BucketInv, RefillInv

(* Steps that leave the bucket and its observers alone. *)
LEMMA QuietStep ==
    ASSUME BucketInv, TypeOK', TimeInv',
           UNCHANGED <<state, window, ideal>>
    PROVE  BucketInv'
  BY DEF BucketInv, WindowInv, RefillInv, refilled, Monus, Least

LEMMA ExchangeTypeOK ==
    ASSUME BucketInv, NEW t \in Thread, CompareExchange(t)
    PROVE  TypeOK' /\ TimeInv'
  <1> USE BucketAssumption
  <1>1. /\ now[t] \in Time /\ cur[t] \in BucketState
        /\ state \in BucketState /\ ideal \in BucketState
        /\ window \in [start : Time, grants : Nat, rewound : Nat]
    BY DEF BucketInv, TypeOK
  <1>2. state' \in BucketState /\ state'.last = now[t]
    BY <1>1, NextValue DEF CompareExchange
  <1>3. ideal' \in BucketState /\ ideal'.last <= clock
    <2> DEFINE accrued == Least(ideal.tokens + PerSecond * Monus(now[t], ideal.last), Burst)
               spent == IF granted(cur[t], now[t]) THEN Monus(accrued, 1) ELSE accrued
               second == IF now[t] >= ideal.last THEN now[t] ELSE ideal.last
    <2>1. accrued \in 0 .. Burst
      BY <1>1, RefilledValue DEF refilled
    <2>2. ideal' = [last |-> second, tokens |-> spent]
      BY DEF CompareExchange, Observe
    <2> HIDE DEF accrued
    <2>3. spent \in 0 .. Burst  BY <2>1 DEF Monus
    <2>4. second \in Time /\ second <= clock
      BY <1>1 DEF BucketInv, TimeInv, BucketState
    <2> QED  BY <2>2, <2>3, <2>4 DEF BucketState
  <1>4. /\ window' \in [start : Time, grants : Nat, rewound : Nat]
        /\ window'.start = window.start
    <2>1. Monus(state.last, now[t]) \in Nat
      BY <1>1 DEF Monus, BucketState, Time
    <2> DEFINE more == IF granted(cur[t], now[t]) /\ now[t] >= window.start
                       THEN window.grants + 1 ELSE window.grants
               back == window.rewound + Monus(state.last, now[t])
    <2>2. more \in Nat /\ back \in Nat  BY <1>1, <2>1
    <2>3. window' = [start |-> window.start, grants |-> more, rewound |-> back]
      BY <1>1 DEF CompareExchange, Observe
    <2> QED  BY <1>1, <2>2, <2>3
  <1>5. pc' \in [Thread -> {"idle", "load", "cas"}]
    BY DEF CompareExchange, BucketInv, TypeOK
  <1>6. TypeOK'
    BY <1>2, <1>3, <1>4, <1>5 DEF CompareExchange, BucketInv, TypeOK
  <1>7. TimeInv'
    BY <1>2, <1>3, <1>4 DEF CompareExchange, BucketInv, TimeInv
  <1> QED  BY <1>6, <1>7

LEMMA ExchangeWindow ==
    ASSUME BucketInv, NEW t \in Thread, CompareExchange(t)
    PROVE  WindowInv'
  <1> USE BucketAssumption
  <1> DEFINE at == now[t]
             L == state.last
             S == window.start
             R == window.rewound
             back == Monus(L, at)
             G == window.grants
  <1>1. /\ at \in Time /\ state \in BucketState /\ cur[t] = state
        /\ window \in [start : Time, grants : Nat, rewound : Nat]
    BY DEF BucketInv, TypeOK, CompareExchange, Swaps
  <1>2. /\ state' = next(state, at)
        /\ window'.start = S /\ window'.rewound = R + back
        /\ window'.grants = IF granted(state, at) /\ at >= S THEN G + 1 ELSE G
    BY <1>1 DEF CompareExchange, Observe
  <1>3. /\ at \in Int /\ L \in Int /\ S \in Int /\ R \in Nat /\ G \in Nat
        /\ back \in Nat /\ state.tokens \in 0 .. Burst /\ Burst \in Nat
        /\ (at >= L => back = 0) /\ (at < L => back = L - at)
    BY <1>1 DEF BucketState, Time, Monus
  <1>4. /\ state'.last = at
        /\ granted(state, at) => state'.tokens = refilled(state, at) - 1
        /\ ~ granted(state, at) => state'.tokens = 0 /\ refilled(state, at) = 0
        /\ refilled(state, at) \in 0 .. Burst
    BY <1>1, <1>2, NextValue, RefilledValue
  <1> DEFINE old == PerSecond * (L - S + R)
             new == PerSecond * (at - S + (R + back))
  <1>5. old \in Int /\ new \in Int
    BY <1>3, Refills, L - S + R \in Int, at - S + (R + back) \in Int
  <1>6. at - S >= 0 => new >= 0
    BY <1>3, Refills, at - S + (R + back) \in Int
  (* The budget grows by the refill of the seconds the bucket moves forward. *)
  <1>7. /\ at >= L => /\ PerSecond * (at - L) \in Int
                      /\ new = old + PerSecond * (at - L)
        /\ at < L => new = old
    <2>1. CASE at >= L
      <3>1. at - S + (R + back) = (L - S + R) + (at - L)  BY <1>3, <2>1
      <3>2. PerSecond * ((L - S + R) + (at - L)) = old + PerSecond * (at - L)
        BY <1>3, Refills, L - S + R \in Int, at - L \in Int
      <3>3. PerSecond * (at - L) \in Int  BY <1>3, Refills, at - L \in Int
      <3> QED  BY <1>3, <2>1, <3>1, <3>2, <3>3
    <2>2. CASE at < L
      <3>1. at - S + (R + back) = L - S + R  BY <1>3, <2>2
      <3> QED  BY <1>3, <2>2, <3>1
    <2> QED  BY <1>3, <2>1, <2>2
  (* What the refill adds is in the budget. *)
  <1>8. refilled(state, at) - state.tokens <= new - old
    <2>1. /\ at <= L => refilled(state, at) = state.tokens
          /\ at >= L => refilled(state, at) <= state.tokens + PerSecond * (at - L)
      <3>1. PerSecond * (at - L) \in Int  BY <1>3, Refills, at - L \in Int
      <3> QED  BY <1>1, <1>3, <1>4, <3>1, RefilledValue
    <2> QED  BY <1>3, <1>4, <1>5, <1>7, <2>1
  <1>9. G = 0 \/ G + state.tokens <= Burst + old
    BY DEF BucketInv, WindowInv
  <1>10. window'.grants = 0 \/ window'.grants + state'.tokens <= Burst + new
    <2> HIDE DEF old, new, at, L, S, R, back, G
    <2>1. CASE granted(state, at) /\ at >= S
      BY <1>2, <1>3, <1>4, <1>5, <1>6, <1>8, <1>9, <2>1
    <2>2. CASE ~ (granted(state, at) /\ at >= S)
      BY <1>2, <1>3, <1>4, <1>5, <1>8, <1>9, <2>2
    <2> QED  BY <2>1, <2>2
  <1> QED  BY <1>2, <1>4, <1>10 DEF WindowInv

LEMMA ExchangeRefill ==
    ASSUME BucketInv, NEW t \in Thread, CompareExchange(t)
    PROVE  RefillInv'
  <1> USE BucketAssumption
  <1> DEFINE at == now[t]
             ok == granted(state, at)
  <1>1. /\ at \in Time /\ state \in BucketState /\ ideal \in BucketState
        /\ cur[t] = state
        /\ at \in Int /\ state.last \in Int /\ ideal.last \in Int
        /\ ideal.last \in Time /\ Burst \in Nat
        /\ state.tokens \in 0 .. Burst /\ ideal.tokens \in 0 .. Burst
    BY DEF BucketInv, TypeOK, CompareExchange, Swaps, BucketState, Time
  <1>2. /\ state' = next(state, at)
        /\ ideal' = [last |-> IF at >= ideal.last THEN at ELSE ideal.last,
                     tokens |-> IF ok THEN Monus(refilled(ideal, at), 1)
                                      ELSE refilled(ideal, at)]
    BY <1>1 DEF CompareExchange, Observe, refilled
  <1>3. /\ state' \in BucketState /\ state'.last = at
        /\ ok => state'.tokens = refilled(state, at) - 1 /\ refilled(state, at) >= 1
        /\ ~ ok => state'.tokens = 0 /\ refilled(state, at) = 0
        /\ refilled(state, at) \in 0 .. Burst
    BY <1>1, <1>2, NextValue, RefilledValue DEF granted
  <1>4. state.last <= ideal.last /\ ideal.tokens <= refilled(state, ideal.last)
    BY DEF BucketInv, RefillInv
  <1>5. state'.last <= ideal'.last
    BY <1>1, <1>2, <1>3
  <1> DEFINE P(x) == PerSecond * x
  <1>6. P(ideal.last - state.last) \in Int /\ P(ideal.last - state.last) >= 0
    BY <1>1, <1>4, Refills, ideal.last - state.last \in Int
  <1>7. ideal.tokens <= state.tokens + P(ideal.last - state.last)
    BY <1>1, <1>4, <1>6, RefilledValue
  <1>8. CASE at >= ideal.last
    <2>1. refilled(ideal, at) <= refilled(state, at)
      <3>1. P(at - state.last) = P(ideal.last - state.last) + P(at - ideal.last)
        <4>1. at - state.last = (ideal.last - state.last) + (at - ideal.last)
          BY <1>1
        <4> QED  BY <1>1, <4>1, Refills, ideal.last - state.last \in Int,
                    at - ideal.last \in Int
      <3>0. at - ideal.last \in Int  BY <1>1
      <3>2. P(at - ideal.last) \in Int  BY <3>0, Refills
      <3>3. /\ refilled(ideal, at) <= ideal.tokens + P(at - ideal.last)
            /\ refilled(ideal, at) \in 0 .. Burst
        BY <1>1, <1>8, <3>2, RefilledValue
      <3>4. refilled(state, at) = Burst
            \/ refilled(state, at) = state.tokens + P(at - state.last)
        BY <1>1, <1>4, <1>8, RefilledValue
      <3> HIDE DEF P
      <3> QED  BY <1>1, <1>3, <1>6, <1>7, <3>1, <3>2, <3>3, <3>4
    <2>2. refilled(ideal, at) \in 0 .. Burst  BY <1>1, RefilledValue
    <2>3. ideal'.last = at  BY <1>2, <1>8
    <2>4. ideal'.tokens <= state'.tokens
      BY <1>1, <1>2, <1>3, <2>1, <2>2 DEF Monus
    <2>5. refilled(state', at) = state'.tokens
      BY <1>1, <1>3, RefilledValue
    <2>6. refilled(state', ideal'.last) = state'.tokens  BY <2>3, <2>5
    <2>7. ideal'.tokens <= refilled(state', ideal'.last)  BY <2>4, <2>6
    <2> QED  BY <1>5, <2>7 DEF RefillInv, refilled
  <1>9. CASE ~ (at >= ideal.last)
    <2>1. ideal'.last = ideal.last /\ refilled(ideal, at) = ideal.tokens
      BY <1>1, <1>2, <1>9, RefilledValue
    <2>2. ideal'.tokens = IF ok THEN Monus(ideal.tokens, 1) ELSE ideal.tokens
      BY <1>2, <2>1
    <2>3. P(ideal.last - at) \in Int /\ P(ideal.last - at) >= 0
      <3>1. ideal.last - at \in Int /\ ideal.last - at >= 0  BY <1>1, <1>9
      <3> QED  BY <3>1, Refills
    (* From its second on, the unpaid bucket would reach the ideal tokens. *)
    <2>4. ideal.tokens <= refilled(state, at) + P(ideal.last - at)
      <3>1. CASE at >= state.last
        <4>1. P(ideal.last - state.last) = P(at - state.last) + P(ideal.last - at)
          <5>1. ideal.last - state.last = (at - state.last) + (ideal.last - at)
            BY <1>1
          <5> QED  BY <1>1, <5>1, Refills, at - state.last \in Int,
                      ideal.last - at \in Int
        <4>2. P(at - state.last) \in Int  BY <1>1, Refills, at - state.last \in Int
        <4>3. refilled(state, at) = Burst
              \/ refilled(state, at) = state.tokens + P(at - state.last)
          BY <1>1, <3>1, RefilledValue
        <4> HIDE DEF P
        <4> QED  BY <1>1, <1>3, <1>6, <1>7, <2>3, <4>1, <4>2, <4>3
      <3>2. CASE ~ (at >= state.last)
        <4>1. refilled(state, at) = state.tokens  BY <1>1, <3>2, RefilledValue
        <4>2. P(ideal.last - state.last) <= P(ideal.last - at)
          BY <1>1, <3>2, RefillsMonotone, ideal.last - state.last \in Int,
             ideal.last - at \in Int, ideal.last - state.last <= ideal.last - at
        <4> HIDE DEF P
        <4> QED  BY <1>1, <1>6, <1>7, <2>3, <4>1, <4>2
      <3> QED  BY <3>1, <3>2
    <2>5. refilled(state', ideal.last) = Burst
          \/ refilled(state', ideal.last) = state'.tokens + P(ideal.last - at)
      BY <1>1, <1>3, <1>9, RefilledValue
    <2>6. ideal'.tokens <= refilled(state', ideal.last)
      <3> HIDE DEF P
      <3> QED  BY <1>1, <1>3, <2>2, <2>3, <2>4, <2>5 DEF Monus
    <2>7. ideal'.tokens <= refilled(state', ideal'.last)  BY <2>1, <2>6
    <2> QED  BY <1>5, <2>7 DEF RefillInv, refilled
  <1> QED  BY <1>8, <1>9

LEMMA BucketStep == BucketInv /\ [Next]_vars => BucketInv'
  <1> SUFFICES ASSUME BucketInv, [Next]_vars PROVE BucketInv'  OBVIOUS
  <1> USE BucketAssumption
  <1>1. ASSUME NEW t \in Thread, Call(t) PROVE BucketInv'
    <2>1. TypeOK'  BY <1>1 DEF Call, BucketInv, TypeOK
    <2>2. TimeInv'
      BY <1>1 DEF Call, BucketInv, TypeOK, TimeInv, Time
    <2> QED  BY <1>1, <2>1, <2>2, QuietStep DEF Call
  <1>2. ASSUME NEW t \in Thread, Load(t) PROVE BucketInv'
    <2>1. TypeOK'  BY <1>2 DEF Load, BucketInv, TypeOK
    <2>2. TimeInv'  BY <1>2 DEF Load, BucketInv, TimeInv
    <2> QED  BY <1>2, <2>1, <2>2, QuietStep DEF Load
  <1>3. ASSUME NEW t \in Thread, CompareExchange(t) PROVE BucketInv'
    BY <1>3, ExchangeTypeOK, ExchangeWindow, ExchangeRefill DEF BucketInv
  <1>4. ASSUME NEW t \in Thread, Retry(t) PROVE BucketInv'
    <2>1. TypeOK'  BY <1>4 DEF Retry, BucketInv, TypeOK
    <2>2. TimeInv'  BY <1>4 DEF Retry, BucketInv, TimeInv
    <2> QED  BY <1>4, <2>1, <2>2, QuietStep DEF Retry
  <1>5. ASSUME NEW t \in Thread, RejectUnchanged(t) PROVE BucketInv'
    <2>1. TypeOK'  BY <1>5 DEF RejectUnchanged, BucketInv, TypeOK
    <2>2. TimeInv'  BY <1>5 DEF RejectUnchanged, BucketInv, TimeInv
    <2> QED  BY <1>5, <2>1, <2>2, QuietStep DEF RejectUnchanged
  <1>6. CASE Tick
    <2>1. TypeOK'  BY <1>6 DEF Tick, BucketInv, TypeOK, Time
    <2>2. TimeInv'
      BY <1>6 DEF Tick, BucketInv, TypeOK, TimeInv, Time, BucketState
    <2> QED  BY <1>6, <2>1, <2>2, QuietStep DEF Tick
  <1>7. CASE OpenWindow
    <2>1. TypeOK'  BY <1>7 DEF OpenWindow, BucketInv, TypeOK
    <2>2. TimeInv'
      BY <1>7 DEF OpenWindow, BucketInv, TypeOK, TimeInv, Time
    <2>3. WindowInv'  BY <1>7 DEF OpenWindow, WindowInv
    <2>4. RefillInv'
      BY <1>7 DEF OpenWindow, BucketInv, RefillInv, refilled, Monus, Least
    <2> QED  BY <2>1, <2>2, <2>3, <2>4 DEF BucketInv
  <1>8. CASE UNCHANGED vars
    <2>1. TypeOK'  BY <1>8 DEF vars, BucketInv, TypeOK
    <2>2. TimeInv'  BY <1>8 DEF vars, BucketInv, TimeInv
    <2> QED  BY <1>8, <2>1, <2>2, QuietStep DEF vars
  <1> QED  BY <1>1, <1>2, <1>3, <1>4, <1>5, <1>6, <1>7, <1>8 DEF Next, TryConsume

LEMMA BucketInvariant == Spec => []BucketInv
  BY BucketInit, BucketStep, PTL DEF Spec

-----------------------------------------------------------------------------
(* The theorems *)

(* Every variable of the bucket and of its callers keeps its type.          *)
THEOREM BucketTypeCorrect == Spec => []TypeOK
  <1>1. BucketInv => TypeOK  BY DEF BucketInv
  <1> QED  BY <1>1, BucketInvariant, PTL

(* What try_consume grants in any window is at most a burst plus the refill *)
(* of the seconds that passed or that late callers moved the bucket back.   *)
THEOREM GrantsAreAccounted == Spec => []GrantsAccounted
  <1>1. BucketInv => GrantsAccounted
    <2> SUFFICES ASSUME BucketInv PROVE GrantsAccounted  OBVIOUS
    <2>1. /\ clock \in Int /\ state.last \in Int /\ window.start \in Int
          /\ window.rewound \in Nat /\ window.grants \in Nat
          /\ state.tokens \in Nat /\ Burst \in Nat
          /\ state.last <= clock /\ window.start <= clock
      BY BucketAssumption DEF BucketInv, TypeOK, TimeInv, BucketState, Time
    <2> DEFINE spent == state.last - window.start + window.rewound
               budget == clock - window.start + window.rewound
    <2>2. spent \in Int /\ budget \in Int /\ spent <= budget /\ 0 <= budget
      BY <2>1
    <2>3. /\ PerSecond * spent \in Int /\ PerSecond * budget \in Int
          /\ PerSecond * spent <= PerSecond * budget
          /\ PerSecond * budget >= 0
      BY <2>2, Refills, RefillsMonotone
    <2>4. window.grants = 0
          \/ window.grants + state.tokens <= Burst + PerSecond * spent
      BY DEF BucketInv, WindowInv
    <2>5. window.grants <= Burst + PerSecond * budget
      <3> HIDE DEF spent, budget
      <3> QED  BY <2>1, <2>3, <2>4
    <2> QED  BY <2>5 DEF GrantsAccounted
  <1> QED  BY <1>1, BucketInvariant, PTL

(* Rejected, raced and late calls never cost the bucket any refill.         *)
THEOREM RefillIsKept == Spec => []NoRefillLost
  <1>1. BucketInv => NoRefillLost
    <2> SUFFICES ASSUME BucketInv PROVE NoRefillLost  OBVIOUS
    <2> DEFINE P(x) == PerSecond * x
    <2>1. /\ clock \in Time /\ state \in BucketState /\ ideal \in BucketState
          /\ clock \in Int /\ state.last \in Int /\ ideal.last \in Int
          /\ state.tokens \in 0 .. Burst /\ ideal.tokens \in 0 .. Burst
          /\ ideal.last \in Time /\ Burst \in Nat
          /\ state.last <= ideal.last /\ ideal.last <= clock
          /\ ideal.tokens <= refilled(state, ideal.last)
      BY BucketAssumption
         DEF BucketInv, TypeOK, TimeInv, RefillInv, BucketState, Time
    <2> DEFINE before == ideal.last - state.last
               after == clock - ideal.last
    <2>2. P(clock - state.last) = P(before) + P(after) /\ P(before) \in Int /\ P(after) \in Int
      <3>1. clock - state.last = before + after /\ before \in Int /\ after \in Int
        BY <2>1
      <3> HIDE DEF before, after
      <3> QED  BY <3>1, Refills
    <2>3. P(before) \in Int /\ P(after) \in Int  BY <2>2
    <2>4. ideal.tokens <= state.tokens + P(ideal.last - state.last)
      BY <2>1, <2>3, RefilledValue
    <2>5. /\ refilled(ideal, clock) <= ideal.tokens + P(clock - ideal.last)
          /\ refilled(ideal, clock) \in 0 .. Burst
      BY <2>1, <2>3, RefilledValue
    <2>6. refilled(state, clock) = Burst
          \/ refilled(state, clock) = state.tokens + P(clock - state.last)
      BY <2>1, RefilledValue
    <2>7. refilled(ideal, clock) <= refilled(state, clock)
      <3> HIDE DEF P
      <3> QED  BY <2>1, <2>2, <2>3, <2>4, <2>5, <2>6
    <2> QED  BY <2>7 DEF NoRefillLost
  <1> QED  BY <1>1, BucketInvariant, PTL
=============================================================================
