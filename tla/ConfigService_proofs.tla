------------------------ MODULE ConfigService_proofs ------------------------
(***************************************************************************)
(* A theorem about from_env, for every environment, every width of the     *)
(* numbers, and debug and release builds.                                  *)
(*                                                                         *)
(* It needs no invariant of the service.  The argument follows what each   *)
(* setting is after the repair (RepairedText): a reported one has its      *)
(* remedy; any other has the text it had, unless its default is taken from *)
(* a reported one, which only the per-issuer burst's can be, because a bad *)
(* global rate makes an unset global burst bad as well.                    *)
(***************************************************************************)
EXTENDS ConfigService, TLAPS

-----------------------------------------------------------------------------
(* from_env *)

LEMMA ConfigNumbers ==
    MaxTimeout \in Nat /\ MaxU32 \in Nat /\ MaxTimeout < MaxU32
  BY ConfigAssumption

(* The settings that the rules compare are numbers when they are allowed. *)
LEMMA ComparedAreNumbers ==
    ASSUME NEW s \in {"RATE_LIMIT_PER_SECOND", "RATE_LIMIT_BURST",
                      "PER_ISSUER_RATE_LIMIT_PER_SECOND", "PER_ISSUER_RATE_LIMIT_BURST",
                      "ISSUER_RATE_LIMIT_TTL_SECONDS", "PER_ISSUER_RATE_LIMIT_JITTER_SECONDS",
                      "STELLAR_RETRY_BASE_DELAY_MS", "STELLAR_RETRY_MAX_DELAY_MS",
                      "WEBHOOK_RETRY_BASE_DELAY_MS", "WEBHOOK_RETRY_MAX_DELAY_MS"}
    PROVE  Allowed(s) \subseteq Int /\ s \in Setting
<1>1. s \notin Url \cup Word
  BY DEF Url, Word
<1>2. Allowed(s) \in {0 .. MaxU32, 1 .. MaxTimeout, 1 .. MaxU32}
  BY <1>1 DEF Allowed
<1>3. s \in RateLimit \/ s \in StellarRetry \/ s \in Webhook
  BY DEF RateLimit, StellarRetry, Webhook
<1>4. s \in Setting
  BY <1>3 DEF Setting, Sections
<1> QED
  BY <1>2, <1>4, ConfigNumbers

Clean(e) == \A s \in Setting : ~ Bad(e, s)

LEMMA SettingSections ==
    Setting = Network \cup RateLimit \cup StellarRetry \cup StellarBreaker \cup CacheStore
                 \cup CacheBreaker \cup Webhook
  BY DEF Setting, Sections

(* An accepted value is the text of its variable. *)
LEMMA GoodValue ==
    ASSUME NEW e, NEW s, ~ Bad(e, s)
    PROVE  Value(e, s) = Text(e, s)
  BY DEF Value

(* The rules that relate two settings. *)
Related(e) ==
    /\ ~ Less(e, "RATE_LIMIT_BURST", "RATE_LIMIT_PER_SECOND")
    /\ ~ Less(e, "PER_ISSUER_RATE_LIMIT_BURST", "PER_ISSUER_RATE_LIMIT_PER_SECOND")
    /\ ~ Less(e, "RATE_LIMIT_PER_SECOND", "PER_ISSUER_RATE_LIMIT_PER_SECOND")
    /\ Less(e, "PER_ISSUER_RATE_LIMIT_JITTER_SECONDS", "ISSUER_RATE_LIMIT_TTL_SECONDS")
    /\ ~ Less(e, "STELLAR_RETRY_MAX_DELAY_MS", "STELLAR_RETRY_BASE_DELAY_MS")
    /\ ~ Less(e, "WEBHOOK_RETRY_MAX_DELAY_MS", "WEBHOOK_RETRY_BASE_DELAY_MS")

LEMMA NoErrors ==
    ASSUME NEW e
    PROVE  Errors(e) = {} <=> Clean(e) /\ Related(e)
<1>1. Errors(e) = {} <=>
        /\ NetworkErrors(e) = {} /\ RateLimitErrors(e) = {} /\ StellarRetryErrors(e) = {}
        /\ StellarDelayErrors(e) = {} /\ StellarBreakerErrors(e) = {}
        /\ CacheStoreErrors(e) = {} /\ CacheBreakerErrors(e) = {} /\ WebhookErrors(e) = {}
  BY DEF Errors
<1>2. Clean(e) <=>
        /\ BadIn(e, Network) = {} /\ BadIn(e, RateLimit) = {} /\ BadIn(e, StellarRetry) = {}
        /\ BadIn(e, StellarBreaker) = {} /\ BadIn(e, CacheStore) = {}
        /\ BadIn(e, CacheBreaker) = {} /\ BadIn(e, Webhook) = {}
  BY SettingSections DEF Clean, BadIn
<1>3. RateLimitErrors(e) = {} <=>
        /\ BadIn(e, RateLimit) = {}
        /\ ~ Less(e, "RATE_LIMIT_BURST", "RATE_LIMIT_PER_SECOND")
        /\ ~ Less(e, "PER_ISSUER_RATE_LIMIT_BURST", "PER_ISSUER_RATE_LIMIT_PER_SECOND")
        /\ ~ Less(e, "RATE_LIMIT_PER_SECOND", "PER_ISSUER_RATE_LIMIT_PER_SECOND")
        /\ Less(e, "PER_ISSUER_RATE_LIMIT_JITTER_SECONDS", "ISSUER_RATE_LIMIT_TTL_SECONDS")
  BY DEF RateLimitErrors, RateLimit
<1>4. StellarDelayErrors(e) = {} <=>
        ~ Less(e, "STELLAR_RETRY_MAX_DELAY_MS", "STELLAR_RETRY_BASE_DELAY_MS")
  BY DEF StellarDelayErrors
<1>5. WebhookErrors(e) = {} <=>
        /\ BadIn(e, Webhook) = {}
        /\ ~ Less(e, "WEBHOOK_RETRY_MAX_DELAY_MS", "WEBHOOK_RETRY_BASE_DELAY_MS")
  BY DEF WebhookErrors
<1> QED
  BY <1>1, <1>2, <1>3, <1>4, <1>5
     DEF Related, NetworkErrors, StellarRetryErrors, StellarBreakerErrors, CacheStoreErrors,
         CacheBreakerErrors

(* Without errors of their own, settings compare as their texts do. *)
LEMMA LessIs ==
    ASSUME NEW e, Clean(e),
           NEW s \in {"RATE_LIMIT_PER_SECOND", "RATE_LIMIT_BURST",
                      "PER_ISSUER_RATE_LIMIT_PER_SECOND", "PER_ISSUER_RATE_LIMIT_BURST",
                      "ISSUER_RATE_LIMIT_TTL_SECONDS", "PER_ISSUER_RATE_LIMIT_JITTER_SECONDS",
                      "STELLAR_RETRY_BASE_DELAY_MS", "STELLAR_RETRY_MAX_DELAY_MS",
                      "WEBHOOK_RETRY_BASE_DELAY_MS", "WEBHOOK_RETRY_MAX_DELAY_MS"},
           NEW t \in {"RATE_LIMIT_PER_SECOND", "RATE_LIMIT_BURST",
                      "PER_ISSUER_RATE_LIMIT_PER_SECOND", "PER_ISSUER_RATE_LIMIT_BURST",
                      "ISSUER_RATE_LIMIT_TTL_SECONDS", "PER_ISSUER_RATE_LIMIT_JITTER_SECONDS",
                      "STELLAR_RETRY_BASE_DELAY_MS", "STELLAR_RETRY_MAX_DELAY_MS",
                      "WEBHOOK_RETRY_BASE_DELAY_MS", "WEBHOOK_RETRY_MAX_DELAY_MS"}
    PROVE  /\ Less(e, s, t) <=> Text(e, s) < Text(e, t)
           /\ ~ Less(e, s, t) <=> Text(e, t) <= Text(e, s)
<1>1. ~ Bad(e, s) /\ ~ Bad(e, t)
  BY ComparedAreNumbers DEF Clean
<1>2. Text(e, s) \in Int /\ Text(e, t) \in Int
  BY <1>1, ComparedAreNumbers DEF Bad
<1>3. Value(e, s) = Text(e, s) /\ Value(e, t) = Text(e, t)
  BY <1>1, GoodValue
<1> QED
  BY <1>2, <1>3 DEF Less

(* from_env accepts what has no error of either kind. *)
LEMMA Accepts ==
    ASSUME NEW e
    PROVE  from_env(e) = "Ok" <=> Clean(e) /\ Related(e)
<1>1. Clean(e) => ~ MultiplicationOverflows(e)
  <2>1. "PER_ISSUER_RATE_LIMIT_BURST" \in Setting
    BY ComparedAreNumbers
  <2> QED
    BY <2>1 DEF Clean, MultiplicationOverflows
<1>2. MultiplicationOverflows(e) => Errors(e) # {}
  BY <1>1, NoErrors
<1>3. from_env(e) = "Ok" <=> Errors(e) = {}
  BY <1>2 DEF from_env
<1> QED
  BY <1>3, NoErrors

-----------------------------------------------------------------------------
(* What is reported *)

(* The settings that the rules relating two settings report. *)
RelatedReports ==
    {"RATE_LIMIT_BURST", "PER_ISSUER_RATE_LIMIT_BURST", "PER_ISSUER_RATE_LIMIT_PER_SECOND",
     "PER_ISSUER_RATE_LIMIT_JITTER_SECONDS", "STELLAR_RETRY_MAX_DELAY_MS",
     "WEBHOOK_RETRY_MAX_DELAY_MS"}

LEMMA Reported ==
    ASSUME NEW e, NEW s \in Errors(e)
    PROVE  s \in Setting /\ (Bad(e, s) \/ s \in RelatedReports)
<1>1. \/ s \in BadIn(e, Setting)
      \/ s \in RateLimitErrors(e) \ BadIn(e, RateLimit)
      \/ s \in StellarDelayErrors(e)
      \/ s \in WebhookErrors(e) \ BadIn(e, Webhook)
  BY SettingSections
     DEF Errors, BadIn, NetworkErrors, RateLimitErrors, StellarRetryErrors,
         StellarBreakerErrors, CacheStoreErrors, CacheBreakerErrors, WebhookErrors
<1>2. CASE s \in BadIn(e, Setting)
  BY <1>2 DEF BadIn
<1>3. CASE s \in RateLimitErrors(e) \ BadIn(e, RateLimit)
  BY <1>3, SettingSections DEF RateLimitErrors, RelatedReports
<1>4. CASE s \in StellarDelayErrors(e)
  BY <1>4, SettingSections DEF StellarDelayErrors, StellarRetry, RelatedReports
<1>5. CASE s \in WebhookErrors(e) \ BadIn(e, Webhook)
  BY <1>5, SettingSections DEF WebhookErrors, Webhook, RelatedReports
<1> QED
  BY <1>1, <1>2, <1>3, <1>4, <1>5

LEMMA BadIsReported ==
    ASSUME NEW e, NEW s \in Setting, s \notin Errors(e)
    PROVE  ~ Bad(e, s)
  BY SettingSections
     DEF Errors, BadIn, NetworkErrors, RateLimitErrors, StellarRetryErrors,
         StellarBreakerErrors, CacheStoreErrors, CacheBreakerErrors, WebhookErrors

LEMMA RelationIsReported ==
    ASSUME NEW e
    PROVE  /\ "RATE_LIMIT_BURST" \notin Errors(e) =>
                 ~ Less(e, "RATE_LIMIT_BURST", "RATE_LIMIT_PER_SECOND")
           /\ "PER_ISSUER_RATE_LIMIT_BURST" \notin Errors(e) =>
                 ~ Less(e, "PER_ISSUER_RATE_LIMIT_BURST", "PER_ISSUER_RATE_LIMIT_PER_SECOND")
           /\ "PER_ISSUER_RATE_LIMIT_PER_SECOND" \notin Errors(e) =>
                 ~ Less(e, "RATE_LIMIT_PER_SECOND", "PER_ISSUER_RATE_LIMIT_PER_SECOND")
           /\ "PER_ISSUER_RATE_LIMIT_JITTER_SECONDS" \notin Errors(e) =>
                 Less(e, "PER_ISSUER_RATE_LIMIT_JITTER_SECONDS", "ISSUER_RATE_LIMIT_TTL_SECONDS")
           /\ "STELLAR_RETRY_MAX_DELAY_MS" \notin Errors(e) =>
                 ~ Less(e, "STELLAR_RETRY_MAX_DELAY_MS", "STELLAR_RETRY_BASE_DELAY_MS")
           /\ "WEBHOOK_RETRY_MAX_DELAY_MS" \notin Errors(e) =>
                 ~ Less(e, "WEBHOOK_RETRY_MAX_DELAY_MS", "WEBHOOK_RETRY_BASE_DELAY_MS")
<1>1. RateLimitErrors(e) \cup StellarDelayErrors(e) \cup WebhookErrors(e) \subseteq Errors(e)
  BY DEF Errors
<1>2. {"RATE_LIMIT_BURST", "PER_ISSUER_RATE_LIMIT_BURST", "PER_ISSUER_RATE_LIMIT_PER_SECOND",
       "PER_ISSUER_RATE_LIMIT_JITTER_SECONDS"} \subseteq RateLimit
  BY DEF RateLimit
<1> QED
  BY <1>1, <1>2 DEF RateLimitErrors, StellarDelayErrors, WebhookErrors


-----------------------------------------------------------------------------
(* What the repair leaves *)

LEMMA TextsDiffer ==
    /\ NonUnicode \notin Nat /\ NonUnicode # "valid" /\ NonUnicode # "inmemory"
    /\ Invalid \notin Nat
  BY ConfigAssumption

(* A remedy is an allowed text. *)
LEMMA RemedyAllowed ==
    ASSUME NEW s \in Setting
    PROVE  Remedy(s) \in Allowed(s) /\ Remedy(s) # NonUnicode
<1>1. 1 \in 1 .. MaxTimeout /\ 2 \in 1 .. MaxTimeout /\ MaxTimeout \in 1 .. MaxTimeout
      /\ MaxU32 \in 1 .. MaxU32 /\ 1 \in 1 .. MaxU32 /\ 2 \in 1 .. MaxU32
      /\ 0 \in 0 .. MaxU32 /\ 2 \in 0 .. MaxU32
  BY ConfigAssumption
<1>2. MaxU32 # NonUnicode /\ MaxTimeout # NonUnicode /\ NonUnicode \notin {0, 1, 2}
  BY TextsDiffer, ConfigNumbers
<1>3. CASE s \in Url \cup Word
  <2>1. s \notin {"RATE_LIMIT_BURST", "PER_ISSUER_RATE_LIMIT_BURST", "STELLAR_RETRY_MAX_DELAY_MS",
                  "WEBHOOK_RETRY_MAX_DELAY_MS", "PER_ISSUER_RATE_LIMIT_PER_SECOND",
                  "PER_ISSUER_RATE_LIMIT_JITTER_SECONDS", "STELLAR_RETRY_BASE_DELAY_MS",
                  "WEBHOOK_RETRY_BASE_DELAY_MS", "CACHE_CIRCUIT_BREAKER_BACKOFF_BASE_MS"}
    BY <1>3 DEF Url, Word
  <2>2. Remedy(s) = IF s = "CACHE_BACKEND" THEN "inmemory" ELSE "valid"
    BY <1>3, <2>1 DEF Remedy, Default, Url, Word
  <2>3. Allowed(s) = Raw(s) \ {Invalid, NonUnicode}
    BY <1>3 DEF Allowed, Url, Word, Unbounded, Timeout, CacheStore
  <2>4. Remedy(s) \in Raw(s)
    BY <1>3, <2>2 DEF Raw, Url, Word
  <2> QED
    BY <2>2, <2>3, <2>4, ConfigAssumption
<1>4. CASE s \notin Url \cup Word
  <2>1. s \notin {"STELLAR_SECRET_KEY", "CACHE_BACKEND"}
    BY <1>4 DEF Word
  <2>2. CASE s \in {"RATE_LIMIT_BURST", "PER_ISSUER_RATE_LIMIT_BURST"}
    <3>1. s \notin Unbounded /\ s \notin Timeout
      BY <2>2 DEF Unbounded, Timeout, CacheStore
    <3>2. Allowed(s) = 1 .. MaxU32
      BY <1>4, <3>1 DEF Allowed
    <3> QED
      BY <1>1, <1>2, <2>2, <3>2 DEF Remedy
  <2>3. CASE s \in {"STELLAR_RETRY_MAX_DELAY_MS", "WEBHOOK_RETRY_MAX_DELAY_MS"}
    <3>1. s \notin Unbounded /\ s \in Timeout
      BY <2>3 DEF Unbounded, Timeout, CacheStore
    <3>2. Allowed(s) = 1 .. MaxTimeout
      BY <1>4, <3>1 DEF Allowed
    <3> QED
      BY <1>1, <1>2, <2>3, <3>2 DEF Remedy
  <2>4. CASE s = "PER_ISSUER_RATE_LIMIT_JITTER_SECONDS"
    <3>1. s \in Unbounded /\ s \notin Timeout
      BY <2>4 DEF Unbounded, Timeout
    <3>2. Allowed(s) = 0 .. MaxU32
      BY <1>4, <3>1 DEF Allowed
    <3> QED
      BY <1>1, <1>2, <1>4, <2>1, <2>4, <3>2 DEF Remedy, Default
  <2>5. CASE s \notin {"RATE_LIMIT_BURST", "PER_ISSUER_RATE_LIMIT_BURST",
                       "STELLAR_RETRY_MAX_DELAY_MS", "WEBHOOK_RETRY_MAX_DELAY_MS",
                       "PER_ISSUER_RATE_LIMIT_JITTER_SECONDS"}
    <3>1. Remedy(s) = Default(<<>>, s)
      BY <2>1, <2>5 DEF Remedy
    <3>2. /\ Default(<<>>, s) \in {1, 2}
          /\ Default(<<>>, s) = 1 =>
                s \in {"PER_ISSUER_RATE_LIMIT_PER_SECOND", "STELLAR_RETRY_BASE_DELAY_MS",
                       "WEBHOOK_RETRY_BASE_DELAY_MS", "CACHE_CIRCUIT_BREAKER_BACKOFF_BASE_MS"}
      BY <1>4, <2>1, <2>5 DEF Default
    <3>3. Allowed(s) \in {0 .. MaxU32, 1 .. MaxTimeout, 1 .. MaxU32}
      BY <1>4 DEF Allowed
    <3>4. {1, 2} \subseteq Allowed(s)
      BY <3>3, ConfigAssumption
    <3> QED
      BY <1>2, <3>1, <3>2, <3>4
  <2> QED
    BY <2>2, <2>3, <2>4, <2>5
<1> QED
  BY <1>3, <1>4

(* The texts of the repaired environment. *)
LEMMA GivenRepaired ==
    ASSUME NEW e, NEW s \in Setting, NEW default
    PROVE  /\ s \in Errors(e) => Given(Repaired(e), s, default) = Remedy(s)
           /\ s \notin Errors(e) => Given(Repaired(e), s, default) = Given(e, s, default)
<1>1. CASE s \in Errors(e)
  <2>1. s \in DOMAIN Repaired(e) /\ Repaired(e)[s] = Remedy(s)
    BY <1>1 DEF Repaired
  <2> QED
    BY <1>1, <2>1, RemedyAllowed DEF Given
<1>2. CASE s \notin Errors(e)
  <2>1. s \in DOMAIN Repaired(e) <=> s \in DOMAIN e
    BY <1>2 DEF Repaired
  <2>2. s \in DOMAIN e => Repaired(e)[s] = e[s]
    BY <1>2 DEF Repaired
  <2> QED
    BY <1>2, <2>1, <2>2 DEF Given
<1> QED
  BY <1>1, <1>2


(* The settings whose default depends on no other. *)
LEMMA PlainDefault ==
    ASSUME NEW e, NEW f,
           NEW s \in Setting \ {"RATE_LIMIT_BURST", "PER_ISSUER_RATE_LIMIT_BURST"}
    PROVE  Default(e, s) = Default(f, s)
  BY DEF Default

LEMMA RepairedText ==
    ASSUME NEW e, NEW s \in Setting
    PROVE  /\ s \in Errors(e) => Text(Repaired(e), s) = Remedy(s)
           /\ s \notin Errors(e) /\ s # "PER_ISSUER_RATE_LIMIT_BURST" =>
                 Text(Repaired(e), s) = Text(e, s)
           /\ s \notin Errors(e) /\ s = "PER_ISSUER_RATE_LIMIT_BURST" =>
                 IF "PER_ISSUER_RATE_LIMIT_PER_SECOND" \in Errors(e)
                 THEN Text(Repaired(e), s) \in {Text(e, s), 2}
                 ELSE Text(Repaired(e), s) = Text(e, s)
<1> DEFINE f == Repaired(e)
<1>1. s \in Errors(e) => Text(f, s) = Remedy(s)
  BY GivenRepaired DEF Text
<1>2. ASSUME s \notin Errors(e), s \notin {"RATE_LIMIT_BURST", "PER_ISSUER_RATE_LIMIT_BURST"}
      PROVE  Text(f, s) = Text(e, s)
  <2>1. Default(f, s) = Default(e, s)
    BY <1>2, PlainDefault
  <2> QED
    BY <1>2, <2>1, GivenRepaired DEF Text
<1>3. ASSUME s \notin Errors(e), s = "RATE_LIMIT_BURST"
      PROVE  Text(f, s) = Text(e, s)
  <2> DEFINE rps == "RATE_LIMIT_PER_SECOND"
  <2>0. rps \in Setting /\ rps \notin RelatedReports
    BY ComparedAreNumbers DEF RelatedReports
  <2>1. Default(e, s) = Given(e, rps, 2) /\ Default(f, s) = Given(f, rps, 2)
    BY <1>3 DEF Default, Url, Word
  <2>2. Text(f, s) = Given(e, s, Default(f, s)) /\ Text(e, s) = Given(e, s, Default(e, s))
    BY <1>3, GivenRepaired DEF Text
  <2>3. CASE rps \notin Errors(e)
    <3>1. Default(f, s) = Default(e, s)
      BY <2>0, <2>1, <2>3, GivenRepaired
    <3> QED
      BY <2>2, <3>1
  <2>4. CASE rps \in Errors(e)
    <3>1. Bad(e, rps)
      BY <2>0, <2>4, Reported
    <3>2. Text(e, rps) = Given(e, rps, 2)
      BY DEF Text, Default, Url, Word
    <3>3. Allowed(rps) = 1 .. MaxU32 /\ Allowed(s) = 1 .. MaxU32
      BY <1>3 DEF Allowed, Url, Word, Unbounded, Timeout, CacheStore
    <3>4. Default(e, s) \notin Allowed(s)
      BY <2>1, <3>1, <3>2, <3>3 DEF Bad
    <3>5. Text(e, s) \in Allowed(s)
      BY <1>3, BadIsReported DEF Bad
    <3>6. s \in DOMAIN e /\ e[s] # NonUnicode
      BY <2>2, <3>4, <3>5 DEF Given
    <3> QED
      BY <2>2, <3>6 DEF Given
  <2> QED
    BY <2>3, <2>4
<1>4. ASSUME s \notin Errors(e), s = "PER_ISSUER_RATE_LIMIT_BURST"
      PROVE  IF "PER_ISSUER_RATE_LIMIT_PER_SECOND" \in Errors(e)
             THEN Text(f, s) \in {Text(e, s), 2}
             ELSE Text(f, s) = Text(e, s)
  <2> DEFINE rps == "PER_ISSUER_RATE_LIMIT_PER_SECOND"
  <2>0. rps \in Setting
    BY ComparedAreNumbers
  <2>1. Default(e, s) = PerIssuerBurstDefault(e) /\ Default(f, s) = PerIssuerBurstDefault(f)
    BY <1>4 DEF Default, Url, Word
  <2>2. Text(f, s) = Given(e, s, Default(f, s)) /\ Text(e, s) = Given(e, s, Default(e, s))
    BY <1>4, GivenRepaired DEF Text
  <2>3. CASE rps \notin Errors(e)
    <3>1. Given(f, rps, 1) = Given(e, rps, 1)
      BY <2>0, <2>3, GivenRepaired
    <3>2. Default(f, s) = Default(e, s)
      BY <2>1, <3>1 DEF PerIssuerBurstDefault
    <3> QED
      BY <2>2, <2>3, <3>2
  <2>4. CASE rps \in Errors(e)
    <3>1. Remedy(rps) = 1
      BY DEF Remedy, Default, Url, Word
    <3>2. Given(f, rps, 1) = 1
      BY <2>0, <2>4, <3>1, GivenRepaired
    <3>3. PerIssuerBurstDefault(f) = saturating_mul(1, 2)
      BY <3>2, TextsDiffer DEF PerIssuerBurstDefault
    <3>4. saturating_mul(1, 2) = 2
      BY ConfigAssumption DEF saturating_mul
    <3> QED
      BY <2>1, <2>2, <2>4, <3>3, <3>4 DEF Given
  <2> QED
    BY <2>3, <2>4
<1> QED
  BY <1>1, <1>2, <1>3, <1>4

LEMMA RepairedIsClean ==
    ASSUME NEW e
    PROVE  Clean(Repaired(e))
<1> SUFFICES ASSUME NEW s \in Setting PROVE Text(Repaired(e), s) \in Allowed(s)
  BY DEF Clean, Bad
<1>1. CASE s \in Errors(e)
  BY <1>1, RepairedText, RemedyAllowed
<1>2. CASE s \notin Errors(e)
  <2>1. Text(e, s) \in Allowed(s)
    BY <1>2, BadIsReported DEF Bad
  <2>2. s = "PER_ISSUER_RATE_LIMIT_BURST" => Allowed(s) = 1 .. MaxU32
    BY DEF Allowed, Url, Word, Unbounded, Timeout, CacheStore
  <2>3. 2 \in 1 .. MaxU32
    BY ConfigAssumption
  <2> QED
    BY <1>2, <2>1, <2>2, <2>3, RepairedText
<1> QED
  BY <1>1, <1>2


(* A setting that only its own rule reports is, repaired, what from_env put *)
(* in its place; an unreported one is what it was.                          *)
LEMMA RepairedValue ==
    ASSUME NEW e
    PROVE  /\ \A s \in {"RATE_LIMIT_PER_SECOND", "ISSUER_RATE_LIMIT_TTL_SECONDS",
                        "STELLAR_RETRY_BASE_DELAY_MS", "WEBHOOK_RETRY_BASE_DELAY_MS"} :
                 Text(Repaired(e), s) = Value(e, s)
           /\ \A s \in RelatedReports \ {"PER_ISSUER_RATE_LIMIT_BURST"} :
                 s \notin Errors(e) => Text(Repaired(e), s) = Value(e, s)
           /\ "PER_ISSUER_RATE_LIMIT_BURST" \notin Errors(e)
                 /\ "PER_ISSUER_RATE_LIMIT_PER_SECOND" \notin Errors(e) =>
                 Text(Repaired(e), "PER_ISSUER_RATE_LIMIT_BURST")
                    = Value(e, "PER_ISSUER_RATE_LIMIT_BURST")
<1>1. ASSUME NEW s \in {"RATE_LIMIT_PER_SECOND", "ISSUER_RATE_LIMIT_TTL_SECONDS",
                        "STELLAR_RETRY_BASE_DELAY_MS", "WEBHOOK_RETRY_BASE_DELAY_MS"}
      PROVE  Text(Repaired(e), s) = Value(e, s)
  <2>0. s \in Setting /\ s \notin RelatedReports
    BY ComparedAreNumbers DEF RelatedReports
  <2>1. CASE s \in Errors(e)
    <3>1. Bad(e, s)
      BY <2>0, <2>1, Reported
    <3>2. Value(e, s) = Default(e, s)
      BY <3>1 DEF Value
    <3>3. Remedy(s) = Default(<<>>, s)
      BY DEF Remedy
    <3>4. Default(<<>>, s) = Default(e, s)
      BY <2>0, PlainDefault DEF RelatedReports
    <3> QED
      BY <2>0, <2>1, <3>2, <3>3, <3>4, RepairedText
  <2>2. CASE s \notin Errors(e)
    <3>1. Value(e, s) = Text(e, s)
      BY <2>0, <2>2, BadIsReported, GoodValue
    <3> QED
      BY <2>0, <2>2, <3>1, RepairedText
  <2> QED
    BY <2>1, <2>2
<1>2. ASSUME NEW s \in RelatedReports, s \notin Errors(e),
             s = "PER_ISSUER_RATE_LIMIT_BURST" =>
                "PER_ISSUER_RATE_LIMIT_PER_SECOND" \notin Errors(e)
      PROVE  Text(Repaired(e), s) = Value(e, s)
  <2>0. s \in Setting
    BY ComparedAreNumbers DEF RelatedReports
  <2>1. Value(e, s) = Text(e, s)
    BY <1>2, <2>0, BadIsReported, GoodValue
  <2>2. Text(Repaired(e), s) = Text(e, s)
    BY <1>2, <2>0, RepairedText
  <2> QED
    BY <2>1, <2>2
<1>3. "PER_ISSUER_RATE_LIMIT_BURST" \in RelatedReports
  BY DEF RelatedReports
<1> QED
  BY <1>1, <1>2, <1>3

LEMMA RepairedIsRelated ==
    ASSUME NEW e
    PROVE  Related(Repaired(e))
<1> DEFINE f == Repaired(e)
           T(s) == Text(f, s)
<1>0. Clean(f)
  BY RepairedIsClean
<1>1. ASSUME NEW s \in {"RATE_LIMIT_PER_SECOND", "RATE_LIMIT_BURST",
                        "PER_ISSUER_RATE_LIMIT_PER_SECOND", "PER_ISSUER_RATE_LIMIT_BURST",
                        "ISSUER_RATE_LIMIT_TTL_SECONDS", "PER_ISSUER_RATE_LIMIT_JITTER_SECONDS",
                        "STELLAR_RETRY_BASE_DELAY_MS", "STELLAR_RETRY_MAX_DELAY_MS",
                        "WEBHOOK_RETRY_BASE_DELAY_MS", "WEBHOOK_RETRY_MAX_DELAY_MS"}
      PROVE  /\ s \in Setting /\ T(s) \in Int
             /\ T(s) \in Allowed(s)
             /\ s \in Errors(e) => T(s) = Remedy(s)
  BY <1>0, <1>1, ComparedAreNumbers, RepairedText DEF Clean, Bad
<1>2. /\ Allowed("RATE_LIMIT_PER_SECOND") = 1 .. MaxU32
      /\ Allowed("PER_ISSUER_RATE_LIMIT_PER_SECOND") = 1 .. MaxU32
      /\ Allowed("PER_ISSUER_RATE_LIMIT_BURST") = 1 .. MaxU32
      /\ Allowed("ISSUER_RATE_LIMIT_TTL_SECONDS") = 1 .. MaxU32
      /\ Allowed("STELLAR_RETRY_BASE_DELAY_MS") = 1 .. MaxTimeout
      /\ Allowed("WEBHOOK_RETRY_BASE_DELAY_MS") = 1 .. MaxTimeout
  BY DEF Allowed, Url, Word, Unbounded, Timeout, CacheStore
<1>3. /\ Remedy("RATE_LIMIT_BURST") = MaxU32
      /\ Remedy("PER_ISSUER_RATE_LIMIT_BURST") = MaxU32
      /\ Remedy("PER_ISSUER_RATE_LIMIT_PER_SECOND") = 1
      /\ Remedy("PER_ISSUER_RATE_LIMIT_JITTER_SECONDS") = 0
      /\ Remedy("STELLAR_RETRY_MAX_DELAY_MS") = MaxTimeout
      /\ Remedy("WEBHOOK_RETRY_MAX_DELAY_MS") = MaxTimeout
  BY DEF Remedy, Default, Url, Word
<1>4. T("RATE_LIMIT_PER_SECOND") <= T("RATE_LIMIT_BURST")
  <2>1. CASE "RATE_LIMIT_BURST" \in Errors(e)
    BY <1>1, <1>2, <1>3, <2>1, ConfigNumbers
  <2>2. CASE "RATE_LIMIT_BURST" \notin Errors(e)
    BY <1>1, <2>2, RelationIsReported, RepairedValue DEF Less, RelatedReports
  <2> QED
    BY <2>1, <2>2
<1>5. T("PER_ISSUER_RATE_LIMIT_PER_SECOND") <= T("PER_ISSUER_RATE_LIMIT_BURST")
  <2>1. CASE "PER_ISSUER_RATE_LIMIT_BURST" \in Errors(e)
    BY <1>1, <1>2, <1>3, <2>1, ConfigNumbers
  <2>2. CASE "PER_ISSUER_RATE_LIMIT_PER_SECOND" \in Errors(e)
    BY <1>1, <1>2, <1>3, <2>2, ConfigNumbers
  <2>3. CASE /\ "PER_ISSUER_RATE_LIMIT_BURST" \notin Errors(e)
             /\ "PER_ISSUER_RATE_LIMIT_PER_SECOND" \notin Errors(e)
    BY <1>1, <2>3, RelationIsReported, RepairedValue DEF Less, RelatedReports
  <2> QED
    BY <2>1, <2>2, <2>3
<1>6. T("PER_ISSUER_RATE_LIMIT_PER_SECOND") <= T("RATE_LIMIT_PER_SECOND")
  <2>1. CASE "PER_ISSUER_RATE_LIMIT_PER_SECOND" \in Errors(e)
    BY <1>1, <1>2, <1>3, <2>1, ConfigNumbers
  <2>2. CASE "PER_ISSUER_RATE_LIMIT_PER_SECOND" \notin Errors(e)
    BY <1>1, <2>2, RelationIsReported, RepairedValue DEF Less, RelatedReports
  <2> QED
    BY <2>1, <2>2
<1>7. T("PER_ISSUER_RATE_LIMIT_JITTER_SECONDS") < T("ISSUER_RATE_LIMIT_TTL_SECONDS")
  <2>1. CASE "PER_ISSUER_RATE_LIMIT_JITTER_SECONDS" \in Errors(e)
    BY <1>1, <1>2, <1>3, <2>1, ConfigNumbers
  <2>2. CASE "PER_ISSUER_RATE_LIMIT_JITTER_SECONDS" \notin Errors(e)
    BY <1>1, <2>2, RelationIsReported, RepairedValue DEF Less, RelatedReports
  <2> QED
    BY <2>1, <2>2
<1>8. T("STELLAR_RETRY_BASE_DELAY_MS") <= T("STELLAR_RETRY_MAX_DELAY_MS")
  <2>1. CASE "STELLAR_RETRY_MAX_DELAY_MS" \in Errors(e)
    BY <1>1, <1>2, <1>3, <2>1, ConfigNumbers
  <2>2. CASE "STELLAR_RETRY_MAX_DELAY_MS" \notin Errors(e)
    BY <1>1, <2>2, RelationIsReported, RepairedValue DEF Less, RelatedReports
  <2> QED
    BY <2>1, <2>2
<1>9. T("WEBHOOK_RETRY_BASE_DELAY_MS") <= T("WEBHOOK_RETRY_MAX_DELAY_MS")
  <2>1. CASE "WEBHOOK_RETRY_MAX_DELAY_MS" \in Errors(e)
    BY <1>1, <1>2, <1>3, <2>1, ConfigNumbers
  <2>2. CASE "WEBHOOK_RETRY_MAX_DELAY_MS" \notin Errors(e)
    BY <1>1, <2>2, RelationIsReported, RepairedValue DEF Less, RelatedReports
  <2> QED
    BY <2>1, <2>2
<1> QED
  BY <1>0, <1>4, <1>5, <1>6, <1>7, <1>8, <1>9, LessIs DEF Related

(* Replacing the settings that from_env of src/config.rs reports, each by a *)
(* value that does not depend on the others, gives an environment that it   *)
(* accepts: whatever is set, in debug and release builds, one rejection     *)
(* names every setting that has to change.                                  *)
THEOREM OneRejectionSaysAll == Spec => []ReportIsComplete
<1>1. ReportIsComplete
  BY RepairedIsClean, RepairedIsRelated, Accepts DEF ReportIsComplete
<1> QED
  BY <1>1, PTL
=============================================================================
