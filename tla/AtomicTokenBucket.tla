------------------------- MODULE AtomicTokenBucket -------------------------
(***************************************************************************)
(* The lock-free token bucket of src/rate_limit.rs: one issuer's bucket,   *)
(* shared by threads that run try_consume.  (last_refill, tokens) is one   *)
(* atomic word, read, recomputed and written back by compare-and-swap; the *)
(* second `now' a thread works with was read from the clock before the     *)
(* loop and may be behind the clock, and behind the bucket, by then.       *)
(*                                                                         *)
(* Milli-tokens are kept as whole tokens: capacity, refill and cost are    *)
(* all multiples of MILLI, so no other amount is ever stored.              *)
(*                                                                         *)
(* History variables: `window' counts the grants to callers that read the  *)
(* clock at window.start or later, and the seconds the bucket's timestamp  *)
(* was moved back meanwhile; `ideal' is a bucket charged with the same     *)
(* grants whose timestamp never moves back.                                *)
(***************************************************************************)
EXTENDS Integers

CONSTANTS
    Thread,
    Burst,          \* burst.clamp(1, max_units)
    PerSecond,      \* per_second.clamp(1, max_units)
    MaxTime         \* bound: the clock stops here

ASSUME BucketAssumption ==
    Burst \in Nat \ {0} /\ PerSecond \in Nat \ {0} /\ MaxTime \in Nat

VARIABLES clock, state, pc, now, cur, window, ideal

vars == <<clock, state, pc, now, cur, window, ideal>>

Time == 0 .. MaxTime
BucketState == [last : Time, tokens : 0 .. Burst]

TypeOK ==
    /\ clock \in Time
    /\ state \in BucketState
    /\ pc \in [Thread -> {"idle", "load", "cas"}]
    /\ now \in [Thread -> Time]
    /\ cur \in [Thread -> BucketState]
    /\ window \in [start : Time, grants : Nat, rewound : Nat]
    /\ ideal \in BucketState

Least(a, b) == IF a <= b THEN a ELSE b
Monus(a, b) == IF a >= b THEN a - b ELSE 0

Full == [last |-> 0, tokens |-> Burst]

(* AtomicTokenBucket::new: full, stamped with the creator's second. *)
Init ==
    /\ clock = 0
    /\ state = Full
    /\ pc = [t \in Thread |-> "idle"]
    /\ now = [t \in Thread |-> 0]
    /\ cur = [t \in Thread |-> Full]
    /\ window = [start |-> 0, grants |-> 0, rewound |-> 0]
    /\ ideal = Full

refilledUncapped(s, at) == s.tokens + PerSecond * Monus(at, s.last)
refilledLate(s, at) == Least(s.tokens + PerSecond * Monus(at, s.last + 1), Burst)
refilled(s, at) == Least(s.tokens + PerSecond * Monus(at, s.last), Burst)

granted(s, at) == refilled(s, at) >= 1

(* The word try_consume wants to store in place of s: a granted call pays a *)
(* token, a rejected one (refilled = 0) stores the refill and the second.   *)
next(s, at) == [last |-> at, tokens |-> Monus(refilled(s, at), 1)]

(* `cur == next' on the rejecting branch: there is nothing to store. *)
nothing_to_store(s, at) == ~ granted(s, at) /\ s = next(s, at)

-----------------------------------------------------------------------------
(* check and until_ready read the clock, then call try_consume. *)
Call(t) ==
    /\ pc[t] = "idle"
    /\ now' = [now EXCEPT ![t] = clock]
    /\ pc' = [pc EXCEPT ![t] = "load"]
    /\ UNCHANGED <<clock, state, cur, window, ideal>>

Load(t) ==
    /\ pc[t] = "load"
    /\ cur' = [cur EXCEPT ![t] = state]
    /\ pc' = [pc EXCEPT ![t] = "cas"]
    /\ UNCHANGED <<clock, state, now, window, ideal>>

(* What the history variables note when a call of second `at' is folded in. *)
Observe(at, ok) ==
    /\ window' = [window EXCEPT
                    !.grants = IF ok /\ at >= window.start THEN @ + 1 ELSE @,
                    !.rewound = @ + Monus(state.last, at)]
    /\ ideal' = LET accrued == Least(ideal.tokens + PerSecond * Monus(at, ideal.last),
                                     Burst)
                IN  [last |-> IF at >= ideal.last THEN at ELSE ideal.last,
                     tokens |-> IF ok THEN Monus(accrued, 1) ELSE accrued]

(* compare_exchange_weak succeeds only on the word that was loaded. *)
SwapsBlindly(t) == TRUE
Swaps(t) == state = cur[t]

CompareExchange(t) ==
    /\ pc[t] = "cas"
    /\ ~ nothing_to_store(cur[t], now[t])
    /\ Swaps(t)
    /\ state' = next(cur[t], now[t])
    /\ Observe(now[t], granted(cur[t], now[t]))
    /\ pc' = [pc EXCEPT ![t] = "idle"]
    /\ UNCHANGED <<clock, now, cur>>

(* The exchange lost a race, or failed spuriously as a weak one may. *)
Retry(t) ==
    /\ pc[t] = "cas"
    /\ ~ nothing_to_store(cur[t], now[t])
    /\ pc' = [pc EXCEPT ![t] = "load"]
    /\ UNCHANGED <<clock, state, now, cur, window, ideal>>

(* The early return of the rejecting branch: no exchange, even if the word *)
(* has changed since it was loaded.                                        *)
RejectUnchanged(t) ==
    /\ pc[t] = "cas"
    /\ nothing_to_store(cur[t], now[t])
    /\ pc' = [pc EXCEPT ![t] = "idle"]
    /\ UNCHANGED <<clock, state, now, cur, window, ideal>>

Tick ==
    /\ clock < MaxTime
    /\ clock' = clock + 1
    /\ UNCHANGED <<state, pc, now, cur, window, ideal>>

(* The observer starts counting afresh. *)
OpenWindow ==
    /\ window' = [start |-> clock, grants |-> 0, rewound |-> 0]
    /\ UNCHANGED <<clock, state, pc, now, cur, ideal>>

TryConsume(t) ==
    Call(t) \/ Load(t) \/ CompareExchange(t) \/ Retry(t) \/ RejectUnchanged(t)

Next == (\E t \in Thread : TryConsume(t)) \/ Tick \/ OpenWindow

Spec == Init /\ [][Next]_vars

-----------------------------------------------------------------------------
(* Properties *)

(* What concurrent callers are granted in a window is accounted for to the *)
(* token: one burst, plus the refill of the seconds that passed, plus the  *)
(* refill of the seconds a late caller moved last_refill back over.        *)
GrantsAccounted ==
    window.grants <= Burst + PerSecond * (clock - window.start + window.rewound)

(* "accrued refill is never dropped": at any second the bucket offers at   *)
(* least what a bucket charged with the same grants would, had nothing     *)
(* been lost to lost races, rejections and late callers.                   *)
NoRefillLost == refilled(ideal, clock) <= refilled(state, clock)

(* "no token is ever ... double-spent": no window grants more than a burst *)
(* and the refill of the seconds that passed in it.                        *)
NoDoubleSpend ==
    window.grants <= Burst + PerSecond * (clock - window.start)
=============================================================================
