------------------------------ MODULE AppConfig ------------------------------
(***************************************************************************)
(* from_env of src/config.rs: the settings, their defaults, the rule that  *)
(* each must meet and the rules that relate several of them.               *)
(*                                                                         *)
(* An environment maps the variables that are set to what they are set to: *)
(* a number, a word, Invalid for text that the setting's parser refuses,   *)
(* or NonUnicode for bytes that env::var does not return.  Numbers keep their order and are scaled down: MaxTimeout is   *)
(* MAX_TIMEOUT_MS, MaxU32 is u32::MAX, and the defaults lie in between as  *)
(* they do in the code.  An accepted configuration is kept as the          *)
(* environment it was read from; Value(config, s) is its field s.          *)
(***************************************************************************)
EXTENDS Integers, FiniteSets, TLC

CONSTANTS
    MaxTimeout,
    MaxU32,
    DebugAssertions,    \* whether arithmetic overflow panics or wraps
    Invalid, NonUnicode

ASSUME ConfigAssumption ==
    /\ MaxTimeout \in Nat /\ MaxTimeout >= 3
    /\ MaxU32 \in Nat /\ MaxU32 > MaxTimeout
    /\ DebugAssertions \in BOOLEAN
    /\ Invalid # NonUnicode
    /\ \A text \in {Invalid, NonUnicode} :
          text \notin Nat /\ text \notin {"valid", "inmemory", "redis"}

-----------------------------------------------------------------------------
(* The settings, as from_env takes them section by section. *)

Network == {"PORT", "STELLAR_HORIZON_URL", "REDIS_URL", "STELLAR_SECRET_KEY", "LOG_LEVEL"}

RateLimit ==
    {"RATE_LIMIT_PER_SECOND", "RATE_LIMIT_BURST", "PER_ISSUER_RATE_LIMIT_PER_SECOND",
     "PER_ISSUER_RATE_LIMIT_BURST", "ISSUER_RATE_LIMIT_TTL_SECONDS",
     "PER_ISSUER_RATE_LIMIT_JITTER_SECONDS"}

StellarRetry ==
    {"STELLAR_MAX_RETRIES", "STELLAR_RETRY_BASE_DELAY_MS", "STELLAR_RETRY_MAX_DELAY_MS",
     "STELLAR_RETRY_JITTER", "STELLAR_REQUEST_TIMEOUT_MS"}

StellarBreaker ==
    {"STELLAR_CIRCUIT_BREAKER_FAILURE_THRESHOLD", "STELLAR_CIRCUIT_BREAKER_OPEN_DURATION_MS",
     "STELLAR_CIRCUIT_BREAKER_HALF_OPEN_MAX_CALLS", "STELLAR_RETRY_JITTER_TYPE",
     "STELLAR_BULKHEAD_MAX_CONCURRENT", "STELLAR_BULKHEAD_MAX_QUEUE"}

CacheStore ==
    {"CACHE_VERIFICATION_TTL", "CACHE_BACKEND", "CACHE_MAX_SIZE", "CACHE_CONFIG_TTL",
     "CACHE_EVENTS_TTL"}

CacheBreaker ==
    {"CACHE_CIRCUIT_BREAKER_FAILURE_THRESHOLD", "CACHE_CIRCUIT_BREAKER_OPEN_DURATION_MS",
     "CACHE_CIRCUIT_BREAKER_HALF_OPEN_MAX_CALLS", "CACHE_CIRCUIT_BREAKER_BACKOFF_BASE_MS",
     "CACHE_CIRCUIT_BREAKER_BACKOFF_MAX_MS", "CACHE_BULKHEAD_MAX_CONCURRENT",
     "CACHE_BULKHEAD_MAX_QUEUE"}

Webhook ==
    {"WEBHOOK_MAX_RETRIES", "WEBHOOK_RETRY_BASE_DELAY_MS", "WEBHOOK_RETRY_MAX_DELAY_MS",
     "WEBHOOK_REQUEST_TIMEOUT_MS", "WEBHOOK_JITTER_ENABLED", "WEBHOOK_URLS"}

Sections == {Network, RateLimit, StellarRetry, StellarBreaker, CacheStore, CacheBreaker, Webhook}
Setting == UNION Sections

(* A URL of one of the two schemes its wrapper type allows, or a list.      *)
Url == {"STELLAR_HORIZON_URL", "REDIS_URL", "WEBHOOK_URLS"}

(* One of a few words, in either case. *)
Word == {"STELLAR_SECRET_KEY", "LOG_LEVEL", "CACHE_BACKEND", "STELLAR_RETRY_JITTER",
         "STELLAR_RETRY_JITTER_TYPE", "WEBHOOK_JITTER_ENABLED"}

(* Any number that parses. *)
Unbounded ==
    {"STELLAR_MAX_RETRIES", "WEBHOOK_MAX_RETRIES", "PER_ISSUER_RATE_LIMIT_JITTER_SECONDS"}
        \cup (CacheStore \ Word)

(* A number of milliseconds in 1 .. MAX_TIMEOUT_MS. *)
Timeout ==
    {"STELLAR_RETRY_BASE_DELAY_MS", "STELLAR_RETRY_MAX_DELAY_MS",
     "STELLAR_REQUEST_TIMEOUT_MS", "STELLAR_CIRCUIT_BREAKER_OPEN_DURATION_MS",
     "CACHE_CIRCUIT_BREAKER_OPEN_DURATION_MS", "CACHE_CIRCUIT_BREAKER_BACKOFF_BASE_MS",
     "CACHE_CIRCUIT_BREAKER_BACKOFF_MAX_MS", "WEBHOOK_RETRY_BASE_DELAY_MS",
     "WEBHOOK_RETRY_MAX_DELAY_MS", "WEBHOOK_REQUEST_TIMEOUT_MS"}

(* What the text of a variable may be, and what it must be. *)
Raw(s) ==
    {Invalid, NonUnicode} \cup (CASE s = "CACHE_BACKEND" -> {"redis", "inmemory"}
                                    [] s \in Url \cup (Word \ {"CACHE_BACKEND"}) -> {"valid"}
                                    [] OTHER -> 0 .. MaxU32)

Allowed(s) ==
    CASE s \in Url \cup Word -> Raw(s) \ {Invalid, NonUnicode}
      [] s \in Unbounded -> 0 .. MaxU32
      [] s \in Timeout -> 1 .. MaxTimeout
      [] OTHER -> 1 .. MaxU32

-----------------------------------------------------------------------------
(* Defaults, and the text of a variable that may not be set. *)

saturating_mul(n, m) == IF n * m <= MaxU32 THEN n * m ELSE MaxU32

(* A variable that is set to what is not Unicode counts as not set. *)
Given(env, s, default) ==
    IF s \in DOMAIN env /\ env[s] # NonUnicode THEN env[s] ELSE default

PerIssuerBurstDefault(env) ==
    LET rps == Given(env, "PER_ISSUER_RATE_LIMIT_PER_SECOND", 1)
    IN saturating_mul(IF rps = Invalid THEN 1 ELSE rps, 2)

Default(env, s) ==
    CASE s = "RATE_LIMIT_BURST" -> Given(env, "RATE_LIMIT_PER_SECOND", 2)
      [] s = "PER_ISSUER_RATE_LIMIT_PER_SECOND" -> 1
      [] s = "PER_ISSUER_RATE_LIMIT_BURST" -> PerIssuerBurstDefault(env)
      [] s = "PER_ISSUER_RATE_LIMIT_JITTER_SECONDS" -> 0
      [] s \in {"STELLAR_RETRY_BASE_DELAY_MS", "WEBHOOK_RETRY_BASE_DELAY_MS",
                "CACHE_CIRCUIT_BREAKER_BACKOFF_BASE_MS"} -> 1
      [] s = "STELLAR_SECRET_KEY" -> Invalid
      [] s = "CACHE_BACKEND" -> "inmemory"
      [] s \in Url \cup (Word \ {"STELLAR_SECRET_KEY", "CACHE_BACKEND"}) -> "valid"
      [] OTHER -> 2

Text(env, s) == Given(env, s, Default(env, s))

(* Setting s has an error of its own. *)
Bad(env, s) == Text(env, s) \notin Allowed(s)

(* The field that is used from there on: where there is an error, what the  *)
(* code puts in its place to look for further errors.                       *)
Value(env, s) ==
    LET text == Text(env, s)
    IN CASE ~ Bad(env, s) -> text
         [] s = "RATE_LIMIT_BURST" /\ Bad(env, s) /\ text = 0 -> 0
         [] s = "RATE_LIMIT_BURST" /\ Bad(env, s) /\ text = Invalid ->
               IF Bad(env, "RATE_LIMIT_PER_SECOND") THEN Default(env, "RATE_LIMIT_PER_SECOND")
               ELSE Text(env, "RATE_LIMIT_PER_SECOND")
         [] s = "PER_ISSUER_RATE_LIMIT_BURST" /\ Bad(env, s) ->
               LET rps == IF Bad(env, "PER_ISSUER_RATE_LIMIT_PER_SECOND") THEN 1
                          ELSE Text(env, "PER_ISSUER_RATE_LIMIT_PER_SECOND")
               IN (2 * rps) % (MaxU32 + 1)
         [] OTHER -> Default(env, s)

Less(env, s, t) == Value(env, s) < Value(env, t)

(* The plain multiplication that stands in for a bad per-issuer burst. *)
MultiplicationOverflows(env) ==
    /\ Bad(env, "PER_ISSUER_RATE_LIMIT_BURST")
    /\ ~ Bad(env, "PER_ISSUER_RATE_LIMIT_PER_SECOND")
    /\ 2 * Value(env, "PER_ISSUER_RATE_LIMIT_PER_SECOND") > MaxU32

-----------------------------------------------------------------------------
(* The errors that from_env collects. *)

BadIn(env, section) == {s \in section : Bad(env, s)}

NetworkErrors(env) == BadIn(env, Network)

RateLimitErrors(env) ==
    BadIn(env, RateLimit) \cup
    {s \in RateLimit :
        \/ /\ s = "RATE_LIMIT_BURST"
           /\ Less(env, "RATE_LIMIT_BURST", "RATE_LIMIT_PER_SECOND")
        \/ /\ s = "PER_ISSUER_RATE_LIMIT_BURST"
           /\ Less(env, "PER_ISSUER_RATE_LIMIT_BURST", "PER_ISSUER_RATE_LIMIT_PER_SECOND")
        \/ /\ s = "PER_ISSUER_RATE_LIMIT_PER_SECOND"
           /\ Less(env, "RATE_LIMIT_PER_SECOND", "PER_ISSUER_RATE_LIMIT_PER_SECOND")
        \/ /\ s = "PER_ISSUER_RATE_LIMIT_JITTER_SECONDS"
           /\ ~ Less(env, "PER_ISSUER_RATE_LIMIT_JITTER_SECONDS", "ISSUER_RATE_LIMIT_TTL_SECONDS")}

StellarRetryErrors(env) == BadIn(env, StellarRetry)

StellarDelayErrors(env) ==
    {s \in {"STELLAR_RETRY_MAX_DELAY_MS"} : Less(env, s, "STELLAR_RETRY_BASE_DELAY_MS")}

StellarBreakerErrors(env) == BadIn(env, StellarBreaker)

CacheStoreErrors(env) == BadIn(env, CacheStore)

CacheBreakerErrors(env) == BadIn(env, CacheBreaker)

WebhookErrors(env) ==
    BadIn(env, Webhook) \cup
    {s \in {"WEBHOOK_RETRY_MAX_DELAY_MS"} : Less(env, s, "WEBHOOK_RETRY_BASE_DELAY_MS")}

ErrorsOfTheirOwnFirst(env) ==
    IF BadIn(env, Setting) # {} THEN BadIn(env, Setting)
    ELSE UNION {RateLimitErrors(env), StellarDelayErrors(env), WebhookErrors(env)}

Errors(env) ==
    UNION {NetworkErrors(env), RateLimitErrors(env), StellarRetryErrors(env),
           StellarDelayErrors(env), StellarBreakerErrors(env), CacheStoreErrors(env),
           CacheBreakerErrors(env), WebhookErrors(env)}

from_env(env) ==
    CASE DebugAssertions /\ MultiplicationOverflows(env) -> "panic"
      [] Errors(env) = {} -> "Ok"
      [] OTHER -> "Err"
=============================================================================
