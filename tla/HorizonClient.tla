---------------------------- MODULE HorizonClient ----------------------------
(***************************************************************************)
(* verify_hash_with_retry of src/stellar.rs: the calls that the circuit    *)
(* breaker protects are verifications, each of up to 1 + MaxRetries        *)
(* attempts against Horizon.  A caller is verifying while the breaker has  *)
(* admitted it, and verify[c] holds the locals of its verify_hash; the     *)
(* outcome it returns is what the breaker records.                         *)
(*                                                                         *)
(* Horizon is external: it holds the transactions of the ledger that carry *)
(* the hash, and answers with them, with something that does not parse,    *)
(* with an HTTP error or not at all.  The cache holds at most the result   *)
(* that warm_cache put there, since nothing else writes one.               *)
(***************************************************************************)
EXTENDS CircuitBreaker

CONSTANTS
    MaxRetries,         \* retry.max_retries
    MaxConcurrents,     \* the values bulkhead.max_concurrent may have
    Memo                \* memo types the hash is anchored under in this instance

ASSUME HorizonAssumption ==
    /\ MaxRetries \in Nat
    /\ MaxConcurrents \subseteq Nat
    /\ Memo \subseteq {"text", "hash", "return"}
    /\ None \notin {"ConfirmedMatch", "NoMatch", "NetworkError", "MalformedResponse",
                     "retryable", "other"}

VARIABLES verify, ledger, cached, max_concurrent, stale_cache_ok

environment == <<ledger, cached, max_concurrent, stale_cache_ok>>
allVars == <<vars, verify, environment>>

VerificationStatus == {"ConfirmedMatch", "NoMatch", "NetworkError", "MalformedResponse"}
Hash == {"canonical", "malformed"}

(* is_retryable_status: 408, 429 and 5xx, against the others. *)
HttpStatus == {"retryable", "other"}

Answer == {"records", "unparsable", "no response"} \cup HttpStatus

(* The transaction's memo must match by its type; other types never do. *)
MemoMatchesText(type) == type = "text"
MemoMatches(type) == type \in {"text", "hash"}

(* parse_horizon_transaction: some record of the response matches. *)
Matched == \E type \in ledger : MemoMatches(type)

(* A document hash is recorded as a text memo or as a hash memo. *)
Anchored == ledger \cap {"text", "hash"} # {}

(* History: `anchored', whether the hash was anchored when the call was     *)
(* made; `unanswered', how many attempts ended without a verdict; `stale',  *)
(* whether the result is a cached one.                                      *)
Verification ==
    [hash : Hash, attempt : 0 .. MaxRetries, status : VerificationStatus,
     http : HttpStatus \cup {None}, done : BOOLEAN,
     anchored : BOOLEAN, unanswered : 0 .. MaxRetries + 1, stale : BOOLEAN]

Fresh(hash, anchored) ==
    [hash |-> hash, attempt |-> 0, status |-> "NoMatch", http |-> None,
     done |-> FALSE, anchored |-> anchored, unanswered |-> 0, stale |-> FALSE]

Unused == Fresh("canonical", FALSE)

HorizonTypeOK ==
    /\ TypeOK
    /\ verify \in [Caller -> Verification]
    /\ ledger \subseteq Memo
    /\ cached \in VerificationStatus \cup {None}
    /\ max_concurrent \in MaxConcurrents
    /\ stale_cache_ok \in BOOLEAN

HorizonInit ==
    /\ Init
    /\ verify = [c \in Caller |-> Unused]
    /\ ledger = {}
    /\ cached = None
    /\ max_concurrent \in MaxConcurrents
    /\ stale_cache_ok \in BOOLEAN
    /\ max_concurrent > 0 => stale_cache_ok  \* bound: it is not read then

-----------------------------------------------------------------------------
(* verify_hash *)

(* v ends with the given verdict. *)
Ended(v, status, http) ==
    [v EXCEPT !.status = status, !.http = http, !.done = TRUE]

(* v goes on to its next attempt, after the retry delay, if it has one. *)
RetryOnceMore(v, status, http) ==
    [v EXCEPT !.status = status, !.http = http,
              !.attempt = @ + 1,
              !.done = v.attempt > MaxRetries]

RetryWithoutEnd(v, status, http) ==
    [v EXCEPT !.status = status, !.http = http]

Retry(v, status, http) ==
    [v EXCEPT !.status = status, !.http = http,
              !.attempt = IF @ < MaxRetries THEN @ + 1 ELSE @,
              !.done = v.attempt = MaxRetries,
              !.unanswered = @ + 1]

(* An answer of Horizon to v.  A response that does not parse leaves the    *)
(* HTTP status of an earlier attempt in place.                              *)
After(v, answer) ==
    CASE answer = "records" /\ Matched -> Ended(v, "ConfirmedMatch", None)
      [] answer = "records" /\ ~ Matched -> Ended(v, "NoMatch", v.http)
      [] answer = "unparsable" -> Retry(v, "MalformedResponse", v.http)
      [] answer = "retryable" -> Retry(v, "NetworkError", answer)
      [] answer = "other" -> Ended(v, "NoMatch", answer)
      [] answer = "no response" -> Retry(v, "NetworkError", None)

Verifying(c) == pc[c] \in Admitted /\ ~ verify[c].done

Verify(c, hash) ==
    /\ Call(c)
    /\ verify' = [verify EXCEPT ![c] = Fresh(hash, Anchored)]
    /\ UNCHANGED environment

(* CanonicalHash::new refuses the hash: no request is made. *)
RefuseHash(c) ==
    /\ Verifying(c)
    /\ verify[c].hash = "malformed"
    /\ verify' = [verify EXCEPT ![c] = Ended(@, "MalformedResponse", None)]
    /\ UNCHANGED <<vars, environment>>

(* The permit of the bulkhead is dropped as soon as it is acquired, so      *)
(* acquiring one times out only when there are none at all.                 *)
Request(c, answer) ==
    /\ Verifying(c)
    /\ verify[c].hash = "canonical"
    /\ max_concurrent > 0
    /\ verify' = [verify EXCEPT ![c] = After(@, answer)]
    /\ UNCHANGED <<vars, environment>>

(* try_stale_cache_fallback has a result to give. *)
Fallback == cached = "ConfirmedMatch" \/ (cached # None /\ stale_cache_ok)

BulkheadTimeout(c) ==
    /\ Verifying(c)
    /\ verify[c].hash = "canonical"
    /\ max_concurrent = 0
    /\ verify' = [verify EXCEPT ![c] =
                    IF Fallback THEN [Ended(@, cached, None) EXCEPT !.stale = TRUE]
                                ELSE Retry(@, "NetworkError", @.http)]
    /\ UNCHANGED <<vars, environment>>

(* execute_verify_hash_with_retry: a verdict is Ok, which the breaker       *)
(* records as a success; anything else is RetryExhausted, a failure.        *)
ReturnNoMatchAsError(c) ==
    /\ verify[c].done
    /\ IF verify[c].status = "ConfirmedMatch" THEN Succeed(c) ELSE Fail(c)
    /\ verify' = [verify EXCEPT ![c] = Unused]
    /\ UNCHANGED environment

Return(c) ==
    /\ verify[c].done
    /\ IF verify[c].status \in {"ConfirmedMatch", "NoMatch"} THEN Succeed(c) ELSE Fail(c)
    /\ verify' = [verify EXCEPT ![c] = Unused]
    /\ UNCHANGED environment

-----------------------------------------------------------------------------
(* The future of the call is dropped. *)
Drop(c) ==
    /\ Abandon(c)
    /\ verify' = [verify EXCEPT ![c] = Unused]
    /\ UNCHANGED environment

(* allow_call, record_success and record_failure; a rejected call forgets   *)
(* its hash.                                                                *)
Breaker(c) ==
    /\ Internal(c)
    /\ verify' = IF pc'[c] = "idle" THEN [verify EXCEPT ![c] = Unused] ELSE verify
    /\ UNCHANGED environment

TimePasses == Tick /\ UNCHANGED <<verify, environment>>

(* A transaction whose memo carries the hash enters the ledger. *)
Anchor(type) ==
    /\ ledger' = ledger \cup {type}
    /\ UNCHANGED <<vars, verify, cached, max_concurrent, stale_cache_ok>>

(* warm_cache stores a result that was obtained before, whatever it says.   *)
WarmCache(status) ==
    /\ max_concurrent = 0       \* bound: the cache is not read otherwise
    /\ status = "ConfirmedMatch" => Anchored
    /\ cached' = status
    /\ UNCHANGED <<vars, verify, ledger, max_concurrent, stale_cache_ok>>

(* The TTL of the cached result runs out, or it is evicted. *)
Expire ==
    /\ cached # None
    /\ cached' = None
    /\ UNCHANGED <<vars, verify, ledger, max_concurrent, stale_cache_ok>>

(* What the task of caller c does by itself. *)
Run(c) ==
    \/ Breaker(c) \/ RefuseHash(c) \/ BulkheadTimeout(c) \/ Return(c)
    \/ \E answer \in Answer : Request(c, answer)

HorizonNext ==
    \/ \E c \in Caller : Run(c) \/ Drop(c) \/ \E hash \in Hash : Verify(c, hash)
    \/ TimePasses
    \/ \E type \in Memo : Anchor(type)
    \/ \E status \in VerificationStatus : WarmCache(status)
    \/ Expire

(* Tasks are scheduled, requests time out and time passes.  Nothing is      *)
(* assumed of what Horizon answers or of when calls are made or dropped.    *)
HorizonSpec ==
    /\ HorizonInit /\ [][HorizonNext]_allVars
    /\ \A c \in Caller : WF_allVars(Run(c))
    /\ WF_allVars(TimePasses)

-----------------------------------------------------------------------------
(* Properties *)

(* README: "NoMatch: Horizon was reachable but no transaction matches the   *)
(* hash", and only ConfirmedMatch is a positive verification.  A hash that  *)
(* was anchored when the call was made is never denied, and one that is     *)
(* not is never confirmed, however attempts fail and transactions arrive    *)
(* meanwhile; the exceptions are an HTTP error that is not retried, which   *)
(* the code reports as NoMatch, and a stale negative taken from the cache.  *)
VerdictSound ==
    \A c \in Caller : verify[c].done =>
        /\ verify[c].status = "ConfirmedMatch" => Anchored
        /\ verify[c].status = "NoMatch" /\ verify[c].anchored =>
              verify[c].http = "other" \/ (verify[c].stale /\ stale_cache_ok)

(* The breaker counts a failure only for a call all of whose attempts went  *)
(* without a verdict, whose hash was malformed, or that returned a cached   *)
(* failure where stale results are allowed (warm_cache takes any result):   *)
(* a NoMatch, a transient error that a retry overcame and an HTTP error of  *)
(* the client's own never open the circuit.                                 *)
FailureNeedsEveryAttempt ==
    [][\A c \in Caller :
         pc[c] \in Admitted /\ pc'[c] \in {"count_failure", "reopen"} =>
            \/ verify[c].unanswered = MaxRetries + 1
            \/ verify[c].hash = "malformed"
            \/ verify[c].stale /\ stale_cache_ok]_allVars

(* Every call returns, whatever Horizon answers and however often.          *)
VerificationEnds == \A c \in Caller : pc[c] = "load" ~> pc[c] = "idle"
=============================================================================
