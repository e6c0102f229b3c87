# ProofStell: TLA+ models, model checking and proofs

A verification development of the ProofStell contract and of the service that
runs beside it. `PROJECT.json` lists components, runs, mutants, the
definition-to-source map, hazards, findings and theorems; this file explains
them.

    tlc -workers 2 -config MCRegistry.cfg MCProofStellContract
    tlapm ProofStellContract_proofs.tla

## 1. The system

| Part | State | Operations | Hard behaviour |
|---|---|---|---|
| **Soroban contract** (`src/src/lib.rs`) | document records, admin, version, flags, limits, token buckets, retry delays, events | register, revoke, both in batches, initialize, migrate, upgrade, set flag, set limits, queries | rollback of a failed call, repeated hashes in a batch, two ways to become admin, limits changed under live buckets, casts |
| **Atomic token bucket** (`rate_limit.rs`) | one packed 64-bit word | `try_consume`, read-only projections | lock-free races, a clock read before the race |
| **Per-issuer limiter** (`rate_limit.rs`) | map of buckets, global governor | `check`, `until_ready`, `status`, `evict_stale` | eviction against use, two tiers of which one was already charged, late callers |
| **Stellar circuit breaker** (`stellar.rs`) | state, `opened_at`, counters, semaphore | `allow_call`, `record_success`, `record_failure` | several atomics updated one after the other |
| **Horizon verification** (`stellar.rs`) | retry loop, bulkhead, stale-cache fallback | `verify_hash`, `verify_hash_with_retry`, `warm_cache`, `check_connection` | retries, timeouts, status carried from one attempt to the next |
| **Cache** (`cache.rs`) | LRU store with TTL, statistics; Redis with breaker, bulkhead, health check and in-memory fallback | get, set, delete, batches, warm, stats | lock order, stale fallback, breaker and health backoffs that interact |
| **Events** (`event.rs`) | seen keys, last sequence per aggregate, history | `ingest`, `append` | duplicates, reordering, collisions of the computed sequence |
| **Webhooks** (`webhook.rs`) | dead-letter queue, deduplication marks | `dispatch`, retry, `drain_dlq` | crash between mark and delivery, concurrent dispatch, a drain against new failures |
| **Hash validation** (`hash_validator.rs`) | registry of canonical hashes | validators, conversions, `register`, `contains`, `clear` | several validators that must agree, check then insert |
| **Configuration** (`config.rs`) | the settings, a watch channel | `from_env`, `config_channel` | values made up after an error, rules between settings, overflow |
| **HTTP service** (`main.rs`) | shutdown flag, the parts above | start, reload, drain, statistics, shutdown | coalesced updates, what a shutdown loses |
| **Metrics, errors** (`metrics.rs`, `error.rs`) | counters | - | none that the program reads back |

Interactions: the service calls Horizon through the breaker, keeps results in
the cache, ingests the contract's events and forwards them through webhooks;
the webhook dispatcher uses the cache for its marks and its dead-letter queue.
The contract knows nothing of the service. The contract is sequential (the
ledger orders calls); everything in the service runs on a multi-threaded tokio
runtime, so its shared state is interleaved at every atomic operation, lock
and await.

What makes each part correct:

* contract: a hash is registered once, only its issuer revokes it, a
  revocation is final, batches are all-or-nothing, the event log tells the
  same story as storage, one admin governs for ever, and the rate limit
  really limits;
* bucket and limiter: races neither lose refill nor invent tokens; the
  retry delay told to a caller is enough; eviction gives nothing away;
  waiters are served;
* breaker: it opens on failures, stays open for its duration up to known
  races, and recovers;
* verification: no verdict that the ledger contradicts, only real failures
  reach the breaker, every call ends;
* cache: store, queue and invalidation events agree; the bound is exceeded
  only until the next eviction; nothing older than its time to live is served,
  whichever store serves it; calls return but for two named exceptions; Redis
  is used again;
* events and webhooks: logs follow ledger and index but for one named
  exception, nothing is refused that was not overtaken, every delivery is
  accounted for, every dispatch ends;
* hashes: all validators draw the same line, and one entry point panics on one
  string; a hash is registered once;
* configuration: one rejection reports everything that has to change, and the
  last reload is seen.

## 2. Modules

| Module | Models | Extends |
|---|---|---|
| `DocumentRegistry` | abstract specification of the registry | |
| `ProofStellContract` | the whole contract of `lib.rs` | |
| `AtomicTokenBucket` | `try_consume` by several threads | |
| `PerIssuerRateLimiter` | the two tiers, eviction, waiting | |
| `CircuitBreaker` | the breaker of `stellar.rs` under concurrent callers | |
| `HorizonClient` | `verify_hash` as the operation under the breaker | `CircuitBreaker` |
| `InMemoryCache` | LRU store with its locks | |
| `CacheBackend` | either backend, Redis with its guards and its fallback | `InMemoryCache` |
| `EventIngestor` | ingestion and store | |
| `WebhookDispatcher` | dispatch, retry, dead letters, drain | `EventIngestor` |
| `EventPipeline` | event path of the service, with restarts | `WebhookDispatcher` |
| `HashValidator`, `HashRegistry` | validators; clients of the registry | |
| `AppConfig`, `ConfigService` | settings and their rules; start, reload, shutdown | |
| `MC...` | instances for TLC: configurations, inputs, symmetry | |
| `..._proofs` | theorems; those of the breaker are in `HorizonClient_proofs`, those of the in-memory cache in `CacheBackend_proofs`, those of the dispatcher in `EventPipeline_proofs` | |

### ProofStellContract

`ledger` is a record with one field per storage key of `DataKey`, the installed
code and the event log. A call is one action: it computes a result and the
ledger its writes would leave (`frame`), and `Invoke` keeps the frame only when
the result is `Ok`, since Soroban reverts storage and events of a call that
returns an error. `require_auth` appears as the parameter of the call: an
action with `issuer = a` is a call that `a` authorised. `check_rate_limit`
charges the address scope and then the issuer scope, the second on the ledger
the first leaves. The loop of a batch is written without recursion: item *k*
fails on what storage holds or because an earlier item of the batch has the
same hash, and `FirstError` is where the loop stops. A batch costs one token.

The ledger timestamp advances by `CloseLedger`; calls in the same ledger see
the same time. The `u32`/`u64` arithmetic of the refill is kept, with `U32` as
a parameter: saturating multiplication in 64 bits, then a cast that keeps the
low 32. `upgrade` records the new code hash; later calls are still those of
this source. Storage expiry (TTL of persistent entries) and fees are outside.
The process-local metrics that a non-wasm build keeps are left out. The codes
`InvalidOwner` and `InvalidIssuer` are left out because no call returns them.

`last` is the call served last, `window` a history variable that counts grants
per scope from an arbitrary moment on (`OpenWindow`).

### AtomicTokenBucket and PerIssuerRateLimiter

In `AtomicTokenBucket` there is one action per atomic access: `Call` reads the
clock into the thread's `now`, `Load` reads the word, `CompareExchange` stores
and returns, `Retry` is a lost race or a spurious failure of the weak exchange,
`RejectUnchanged` the early return that stores nothing. Milli-tokens are
counted as tokens: capacity, refill and cost are multiples of 1000, so no other
amount occurs. The 32-bit second does not wrap before 2106, and the clock does
not step back. `window.rewound` sums the seconds by which a late caller moved
`last_refill` back; `ideal` is a bucket charged with the same grants whose
second never moves back.

`PerIssuerRateLimiter` takes `try_consume` as one step and keeps what the
module above cannot see: `Check` and `UntilReady` charge the global tier and
read the clock, `Consume` reaches the issuer's bucket (created full when
absent) up to `MaxLate` seconds later, `RetryAfter` computes the delay of a
rejected `check` in a step of its own, `WakeUp` ends the sleep of
`until_ready`, `Status` polls (and charges the global tier, as the code does),
`EvictStale` computes its cutoff and `Retain` removes bucket by bucket. Seconds
are kept as distances to the clock, so time needs no bound. `promise` is the
history of what a rejected caller was told. Governor is external: a bucket of
its own. The snapshot that `record_success` hands to the cache is left out,
because its future is dropped without being awaited.

### CircuitBreaker and HorizonClient

One action per atomic operation or critical section. The elapsed-time test is
joined with the exchange that follows it: elapsed time only grows, so testing
it at the exchange reaches the same states. Instants are ages that stop at
`OpenDuration`, which keeps the model finite without a time bound. Not
modelled: `half_open_in_flight` (written, never read), the metrics other than
trips and recoveries, and reorderings that `Ordering::Relaxed` permits on
weakly ordered hardware (the model is sequentially consistent).

In `CircuitBreaker` the operation succeeds, fails or is dropped with its
future. `HorizonClient` puts the real one in its place: `Verify` starts the
call, `RefuseHash` is the early return for a malformed hash, `Request` one
attempt with any of Horizon's answers, `BulkheadTimeout` and `Fallback` the
path of a bulkhead without permits, `Return` what
`execute_verify_hash_with_retry` makes of the result, which is what the breaker
records. `verify[c]` holds the locals (status, last HTTP status, attempt) and
three history fields: whether the hash was anchored when the call began, the
attempts without a verdict, and whether the result came from the cache
(`stale`). `WarmCache` stores a result of any status, failures included, as
`warm_cache` does; its caller, which is not under `src/`, is trusted with one
thing only, not to store a confirmation that the ledger does not bear out.
Transactions enter the ledger at any time (`Anchor`), under any of the memo
types of `Memo`.

### InMemoryCache and CacheBackend

Every operation of the store takes its locks in the order store, queue,
statistics; `stats()` takes statistics, then store. The queue's lock is only
taken under the store's, so it is not modelled as a lock. A step is what a task
does between two awaits at which it can be made to wait or be dropped. `get`
and the batches take the store (`LockStore`) and act once they have the
statistics (`Read`, `BatchOf`); `set` on a bounded cache inserts and broadcasts
(`InsertFirst`), then waits for the statistics with the store locked, then
evicts (`EvictLast`); `delete`, and `set` on an unbounded cache, need the store
only (`Write`). The loops of `retain` and of the batch operations are one
operator, `Each`, a recursive function over the rounds of the loop. Entries keep
the seconds they have left and lose one at a time (`Aged`).

`CacheBackend` chooses the backend. With Redis, a call goes through `Allow`
(breaker), `Acquire` (bulkhead, not blocking), `CheckConnection` and `Ping`
(the health lock is held across the ping) and then `Answer` or `Lose`; a
command that is lost may have been executed. Any refusal leads to the fallback
store. `Abandon` drops a call at every await where it can wait or has sent
something, which gives back its permit and its locks; `AbandonCommand` is the
same when Redis goes on to execute what was sent. Redis is external: a map with
expiry behind a connection that is up, down (everything sent fails) or hung
(nothing is answered, and the code sets no response timeout). A time to live of
0, which Redis refuses, is not modelled.

Histories: `mirror` is what a subscriber of the invalidation broadcast
believes, `batched` whether a batch ever ran, `unevicted` the keys set since
entries were last evicted, `written` the seconds since each value was last
written under each key, to either store.

### EventIngestor, WebhookDispatcher and EventPipeline

An event is its idempotency key: transaction, ledger, index, aggregate. `ingest`
remembers the key before it checks the order, as the code does; `append`
numbers by arrival. A dispatch goes through `CheckDelivered` and
`MarkDelivered` (two steps, since the cache is asked twice), then URL by URL
through `SendOk`, `SendFails` with retries, and `DeadLetter`. The dead-letter
queue is a bounded deque (`dlq`), or with a cache one entry per URL
(`persisted`). The cache is none, the process's memory, or Redis with that
memory as fallback: marks and entries belong to a `side`, `Failover` changes the
side that accesses come to, and `CacheLoses` is an entry that expires or is
evicted. With a cache a drain reads and deletes URL by URL (`DrainRead`,
`DrainDelete`) and hands over what it read at the end (`DrainReply`), unless the
operator's connection is gone (`DrainDropped`). `Restart` is a shutdown (after
the drain that `main` performs) or a crash: memory goes, what Redis holds stays.

Histories: `received` holds the deliveries a receiver accepted or an operator
was handed; `lost` is added to at each place where the code gives a delivery
up, and nowhere else. No code under `src/` connects ingestion to dispatch, so
`Receive`, which composes them, follows the documented flow, and `Replay`, a
second dispatch of a stored event, is external too: it makes two dispatches of
one event overlap. `MaxInputs` bounds accepted events, replays, drains,
disturbances of the cache and restarts together.

### HashValidator and HashRegistry

A string is a sequence over five kinds of character (two lower-case hex
digits, an upper-case one, white space, other), so that trimming, lower-casing,
length and digit checks are the real ones; lengths 64 and 128 are scaled to 2
and 4. A validator returns `Ok`, an error's name or `panic`. In `HashRegistry`,
clients submit strings (`Submit`), scan (`Scan`), insert (`Insert`) and return;
`Clear` empties the map at any time.

### AppConfig and ConfigService

`AppConfig` has every setting that `from_env` reads, by section: default,
range, and the rules between settings, with the values the code makes up after
an error (`Value`), since later rules are evaluated on them. Text that does not
parse is one value, `Invalid`, and a variable that is not Unicode is another,
`NonUnicode`, which `env::var(..).unwrap_or` takes for unset; numbers are
scaled but keep their order, and `MaxU32` is where a multiplication overflows.
`ConfigService` is the life of the process: `Start`, `InitCache`, `Bind`,
reload requests that may overlap, in two steps (`Reload` reads the environment
and counts, `Send` sends it to the channel), the watcher (`Watch`), `Signal`,
`Exit`. The environment changes by an external action. `Repaired` replaces the
settings that `from_env` reports, each by one fixed value (`Remedy`), and
leaves the others as they are.

## 3. Runs

| Run | Instance | Shows |
|---|---|---|
| `registry` | 2 addresses, 2 hashes, batches up to 3 (limit 2) | `RefinesRegistry`, `LogMatchesDocuments` |
| `rate_limit` | 2 addresses, one of them an issuer with both scopes, configurations that make either scope the tight one, all admin calls, 3 seconds | `TypeOK`, `GrantsBounded`, `RefilledAfterASecond`, `AdminAndVersionTogether`, `AdminGoverns` |
| `retry_after` | tight limits | violation: a rejected caller finds no delay |
| `token_bucket` | 3 threads, burst 2, rate 1, clock up to 2 | `TypeOK`, `GrantsAccounted`, `NoRefillLost` |
| `double_spend` | 2 threads | violation: a late caller makes a second refill twice |
| `breaker` | 2 callers, threshold 2, 2 probes to close, up to 3 trips | `TypeOK`, `TripsCoverRecoveries`, `ClosedBelowThreshold`, `StaysOpen`, `NeverStuck`, `Recovers` |
| `cache` | 2 tasks; in memory 2 keys in a cache of 1, batches of 2; with Redis 1 key and 2 values, a connection that fails and hangs | `TypeOK`, `LruTracksStore`, `MirrorExact`, `ServedWithinTtl`, `CallsReturn`, `RedisUsedAgain` |
| `pipeline` | 4 events of which one overtakes a later ledger, two collide and one is incomplete, 2 tasks, 2 URLs, 1 retry, queue of 1, 3 inputs, each of the three caches | `TypeOK`, `LogInChainOrder`, `RefusedOnlyIfOvertaken`, `NothingForgotten`, `DispatchEnds` |
| `limiter` | 3 callers, 1 issuer, bursts 2, rates 1, TTL 2, callers up to 1 s late | `TypeOK`, `RetryAfterSuffices`, `EvictionHarmless`, `UntilReadyReturns` |
| `horizon` | 2 callers, 1 retry, bulkheads of 0 and 1, 1 trip, a cached result of any status | `HorizonTypeOK`, `VerdictSound`, `FailureNeedsEveryAttempt`, `VerificationEnds` |
| `config` | any 2 variables of a section at start, `RATE_LIMIT_PER_SECOND` while serving, 2 reload requests that may overlap | `ReportIsComplete`, `WatcherCatchesUp` |
| `hash_registry` | every string up to 4 characters, 2 clients | `ValidatorsAgree`, `SecondOnlyByOverlap` |

Every property of a passing run has a mutant in `PROJECT.json`: a plausible
slip in one definition with which TLC finds the property violated.

Bounds. Two hashes and a batch limit of two give batches that are empty, too
large, repeat a hash, and mix old with new; a third hash adds no case. Two
addresses are an issuer and someone else, or two claimants of the admin role;
scopes of different addresses never touch each other, so one issuer is enough
for the limits. `MaxTime` lets a bucket be emptied, refilled and capped within
a window. `MaxEvents` only stops `upgrade`, the one call that could be repeated
for ever with an effect. Three threads on the bucket, and three callers of the
limiter, let a late caller meet a race between two others. `MaxTrips` stops new
calls after the trips it names; three cover a trip on what two earlier ones left
behind. A cache of one with two keys evicts on every path that adds, and a
batch of two exceeds it; one key is enough with Redis, where keys do not
interact (its fallback is unbounded), and two values tell an overwritten one
from its successor; in memory the value of a key decides nothing. Two tasks are
enough for the two locks of the cache. Two URLs show that a failure of one does
not touch the other, and a queue of one overflows at the second dead letter;
`EventsPerLedger = 2` makes an event of index 3 overtake the next ledger. Three
inputs are enough for two events of one URL and a drain, a failover or a restart
between them. Two clients overlap on one hash. Rules relate at most
two settings of one section, so two variables reach every combination. Hashes
and threads are interchangeable, hence the symmetry sets; runs with liveness
properties use none.

Fairness:

* `breaker`: callers inside the breaker are scheduled, every operation ends
  because the HTTP client has a request timeout, time passes. Nothing is
  assumed of when calls are made or dropped: both properties say "if calls keep
  being made".
* `cache`: a step of a task that is possible again and again happens (tokio's
  locks are fair queues and its scheduler does not starve tasks, hence strong
  fairness; what is sent over a connection that is up or down is answered or
  fails), time passes. Nothing is assumed of a connection that hangs: no step of
  a call that waits for it is possible, and `Connectivity` is not fair, nor are
  calls, `StartStats` and `Abandon`. `CallsReturn` names what then keeps a call
  for ever; see section 4.
* `pipeline`: requests time out, tasks are scheduled, and calls of the cache
  return (`CacheBackend` says when). Receivers owe nothing.
* `limiter`: time passes, and a waiter that is woken with a token available
  again and again gets one in the end (strong fairness): the code makes no
  promise of order between waiters. The property is stated for executions in
  which new calls and polls stop.
* `horizon`: callers are scheduled, requests time out, time passes.
* `config`: the watcher task is scheduled.

`config` and `pipeline` do not check deadlock: the service exits, and the
pipeline is idle once its inputs are used up. In all other runs some call can
always be made again.

## 4. Findings

* **Retry delay lost.** `check_rate_limit` writes the delay and returns an
  error, which reverts the write (`retry_after`).
* **Tokens spent twice.** A caller with an older `now` moves `last_refill` back
  and its seconds refill again (`double_spend`). `GrantsAccounted`, proved, says
  this is the only way to exceed the limit, and by how much.

Disagreements between code and documentation that appear as the exceptions a
checked property has to state:

* `StaysOpen`: the state is `Open` before `opened_at` is set, a late recovery
  may erase the stamp, and a caller may act on an older one; each half-opens the
  circuit before its duration is over (`stellar.rs:905`, `:879`).
* `RefilledAfterASecond` is stated for refills that fit: `refill as u32` drops
  the high half of the product (`lib.rs:742`); with `U32 = 4` and a rate of 2
  the property fails.
* `VerdictSound`: an HTTP error that is not retried is reported as `NoMatch`,
  which README line 52 reserves for a reachable Horizon; and a bulkhead without
  permits, which `from_env` does not accept, answers from a cache entry of any
  age.
* `FailureNeedsEveryAttempt`: a malformed hash counts as a failure of Horizon
  (`stellar.rs:386`), and so does a cached `NetworkError` that a bulkhead
  without permits returns at the first attempt (`stellar.rs:627`).
* `CallsReturn`: `stats()`, which `GET /cache/stats` calls, takes the locks in
  the other order and can block the cache for ever (`cache.rs:925`). A Redis
  that hangs keeps the calls that have a bulkhead permit, since no response
  timeout is set and the health lock is held across the ping (`cache.rs:615`);
  the bulkhead does not block (`cache.rs:456`), so every other call goes to the
  fallback.
* `LruTracksStore`: a `set` dropped at the lock of the statistics has inserted
  and not evicted (`cache.rs:1096`), so the cache exceeds `max_size` until the
  next eviction.
* `ServedWithinTtl` is all that can be said of the age of a value: after failing
  over or back, the other store may hold an older one than was last written
  (`cache.rs:131`).
* `MirrorExact`: batch operations broadcast nothing (`cache.rs:947`, `:985`).
* `RefusedOnlyIfOvertaken`: an overtaken event stays refused when it is sent
  again, and an index of 1000 or more overtakes the next ledger
  (`event.rs:249`, `:70`).
* `LogInChainOrder`: such an event is stored after an event of a later ledger
  (`event.rs:70`).
* `NothingForgotten`: what the code gives up. A full queue drops its oldest
  entry; with a cache the next dead letter of a URL overwrites the one before
  it (`webhook.rs:326`), although dead letters are said to be persisted for
  durability; a drain deletes an entry that arrived after its read
  (`webhook.rs:409`); entries expire or are evicted (`webhook.rs:328`); a drain
  whose client is gone has deleted what it read; a restart loses what was
  marked and not delivered (`webhook.rs:255`) and everything in memory.
* `EvictionHarmless` is stated for a TTL in which a bucket fills up; `from_env`
  does not require that relation (`rate_limit.rs:407`).
* `SecondOnlyByOverlap`: overlapping calls can both register
  (`hash_validator.rs:320`).
* `ValidatorsAgree`: the public `validate_sha256_constant_time` panics on the
  empty string in a build with debug assertions (`hash_validator.rs:397`), and
  the legacy `validate_sha256` accepts upper case and white space
  (`hash_validator.rs:413`).

Met while reading, without a property: `config_reload_total` counts the start,
accepted loads and watcher wake-ups, and no failed attempt, although README line
363 and `metrics.rs:242` have it count the reloads attempted; a variable that is
set but not Unicode silently becomes its default (`config.rs:401`); nothing
requires the base of the cache breaker's backoff to be at most its maximum
(`config.rs:1054`); `migrate` publishes no event, although
README line 74 has indexers follow versions by events; `migrate` on a versioned
contract answers `MigrationNotNeeded` to everyone, although its doc comment
lists `Unauthorized`; the half-open permit is dropped before the probe starts,
so `half_open_max_calls` does not limit probes (`docs/STELLAR_RESILIENCE.md`
line 38); the bulkhead permit of `verify_hash` is dropped in the expression
that acquires it; no component reads a reloaded configuration, although
`docs/STELLAR_RESILIENCE.md` line 49 has new breaker settings applied without
restart; `STELLAR_RETRY_JITTER` is parsed and never used; `status` charges the
global tier.

## 5. Proofs

Every invariant and every action property that a passing run checks is also a
theorem, for every value of the constants allowed by the named assumptions of
its module (`ContractAssumption`, `BucketAssumption`, `BreakerAssumption`,
`HorizonAssumption`, `LimiterAssumption`, `EventAssumption`,
`DispatcherAssumption`, `PipelineAssumption`, `CacheAssumption`,
`BackendAssumption`, `HashAssumption`, `InputAssumption`, `ConfigAssumption`,
`ServiceAssumption`). They say that bounds are numbers, configurations are
configurations and strings are strings, that hex lengths are even and not zero,
and that `None` is none of the values; sets of callers, tasks, keys and hashes
may be infinite. One states a fact of arithmetic: `BackendAssumption` has
`2 ^ n \in Nat` for the exponents of the backoff, because the prover knows no
exponentiation; TLC evaluates it.

Contract:

* `TypeCorrect`: one lemma per call shows that its frame is a `Ledger`.
* `AdminHasVersion`, `OnlyAdminGoverns`: document calls leave the governance
  fields alone; every governance call is classified by `GovernanceEffect`.
* `ContractImplementsRegistry`: every call either leaves the documents, adds
  fresh ones of its issuer or revokes active ones of its issuer; for batches
  this needs that a batch without a first error has no error (`FirstErrorIs`,
  by well-foundedness of `<`).
* `RateLimitHolds`: `GrantsBounded` is not inductive, as it forgets the tokens
  left. `LimitInv` adds them: once a window has a grant, the bucket was touched
  in the window and grants + tokens are within the burst plus the refill up to
  the bucket's own second.
* `BucketRefills`: for every bucket in storage, time and rate give at least one
  token. It is stated for refills that fit `u32`; the cast loses larger ones.
* `LogIsFaithful`: `LogStep` says what a call does to log and storage together:
  the log only grows, and each hash is untouched, issued or withdrawn, with
  exactly one new position in `EventsOf` for the latter two. In a batch each
  hash occurs once, because a batch with a repeated hash fails.

Rate limiters:

* `GrantsAreAccounted`, `RefillIsKept`, `BucketTypeCorrect`: `BucketInv` bounds
  every timestamp by the clock, gives `WindowInv` (as above, with the rewound
  seconds) and `RefillInv` (refilled up to the ideal bucket's second, the
  bucket holds at least the ideal tokens).
* `RetryAfterIsEnough`, `EvictionIsHarmless`, `LimiterTypeCorrect`: for an
  issuer whose delay is over, a late rejected caller can only store a second
  that is itself at least one ago, which refills a token; an absent bucket is
  created full. Eviction needs an age above the TTL, and the product of age and
  rate is then at least the burst. `LimiterInv` is `TypeOK`, `HasIssuer` and
  the property itself.

Breaker and verification:

* `BreakerTypeCorrect`, `ClosedIsBelowThreshold`, `OpenLasts`: that no permit is
  released twice is `PermitsConserved`: the free permits and the callers that
  hold one add up, by cardinality, to the size of the semaphore. A closed
  circuit may be at its threshold for a moment; `ReachedIsHandled` names the
  callers that may still trip it or clear the count. `StampFollowsTrip` says
  that `opened_at`, once a trip has written it, is no older than the trip, which
  leaves exactly the three races of `StaysOpen`.
* `RecoveriesHaveTrips`: at rest is not enough for induction, since a caller
  changes `state` first and the metrics later. The invariant counts the callers
  between the two as well: trips made and under way cover recoveries made and
  under way. `trips` stops counting at `MaxCount`, so the property is stated
  below it.
* `HorizonTypeCorrect`, `VerdictIsSound`, `FailuresAreReal`: every step of
  `HorizonClient` is a step of `CircuitBreaker` or leaves its variables alone
  (lemma `ImplementsBreaker`, since the breaker's operation may end in any way),
  so the breaker's invariants carry over. `VerifyInv` says of each call in
  flight that a finished verdict is backed by the ledger (`Backed`) and that
  every attempt used up went without a verdict, unless the result was taken from
  the cache (`Counted`), and of the cached result that it was confirmed only if
  the hash is anchored.

Cache (`CacheInv`, in four parts, for any number of tasks and keys):

* `QueueTracksStore`, `MirrorIsExact`: `MemoryInv` says that queue and store
  agree and that the stored keys not in `unevicted` are within the bound
  (`Bounded`). Inside a step they need not, so each operation is shown to lead
  from agreement to agreement: an insertion adds its key to `unevicted`, and
  eviction pops the queue until the bound is met (the number popped exists by
  well-foundedness). The loops of `retain` and of the batches are handled by one
  lemma: a loop whose rounds keep a set of states ends in it.
* `CacheTypeCorrect`: `RemoteInv` types Redis, breaker and health check; in
  `CallsInv` the free permits and the calls past the bulkhead add up, by
  cardinality, to no more than `MaxConcurrent`, wherever calls are dropped: no
  permit is given back twice.
* `ServedIsRecent`: `AgeInv` relates the time an entry has left to the age of
  its value: their sum is at most the longest time to live (`Recent`), in both
  stores. A write sets the age to 0 and the time left to no more than that, a
  second moves one unit from one to the other, and a write to the other store
  only makes the value younger, so failing over keeps it.

Events and webhooks:

* `LogFollowsChain`, `OnlyOvertakenRefused`: `IngestorInv` says that the
  sequences of a log rise (`LogIsSequenced`) and ties the last sequence of each
  aggregate to the end of its log (`LastIsLogged`). A restart clears both, so
  the invariant holds across it. That a smaller sequence means an earlier
  ledger or index, or an index past the factor, is arithmetic (`ChainOrder`,
  which deals with saturation, and `RisingSequences`). The dispatcher's steps
  leave the ingestor's variables alone.
* `PipelineTypeCorrect`, `NothingIsForgotten`: a task that finds the dedup mark
  ends without delivering, so `NothingForgotten` alone is not inductive.
  `MarkedIsHeld` says that the deliveries of a marked event are held by another
  task past its mark, by a dead-letter queue, by a drain, by `received` or by
  `lost`; `MarksFirst` that a
  task which has yet to mark its event stands at the first URL, so it still
  holds all the deliveries.

Hashes and configuration:

* `RegisteredOnce`: `RegistryInv` says that a hash registered before the call
  began is still in the map until a clear, so the scan finds it, and that a
  client which goes on to insert, or has inserted, had none before.
* `AllValidatorsAgree`, for strings of any length: the mask of the
  constant-time loop is 255 for the empty string and otherwise 1 or 0 by
  whether all characters are hex digits (`MaskIs`); a canonical string is its
  own normal form (`HexIsNormal`); and the hex digits a string begins with
  survive trimming (`PrefixSurvives`), so a string whose normal form has the
  right length never makes the conversion read or write out of bounds. Called
  directly on the empty string, the constant-time validator meets the mask 255
  and, with debug assertions, panics (`ConstantTimeIs`).
* `OneRejectionSaysAll`: it holds of every environment. Without errors of their
  own the settings have the values of their texts, so the rules compare the
  texts (`Accepts`). In the repaired environment a reported setting has its
  remedy and any other its old text (`RepairedText`), with one exception: the
  default of the per-issuer burst is taken from another setting. A setting that
  was not reported is then allowed as before, and each rule either relates two
  unchanged values that satisfied it or has a remedy on the side that must be
  large enough (`RepairedIsRelated`).

Only model-checked: liveness, which is outside the prover (`NeverStuck`,
`Recovers`, `CallsReturn`, `RedisUsedAgain`, `DispatchEnds`,
`UntilReadyReturns`, `VerificationEnds`, `WatcherCatchesUp`).

## 6. Not modelled

* Metrics and error types: nothing in the program depends on them. Counters a
  property is about are kept where they are bumped.
* `check_connection` of the Stellar client, `anchor_transfer` and
  `StellarRateLimiter`: a request or a wait without state of its own.
* Read-only HTTP routes.
* HTTP, JSON, Redis and governor themselves; signatures; constant-time
  execution, which is a property of timing.
* Weak memory: atomics are sequentially consistent in the models.

## 7. Plan

Every safety property that a run checks is proved. Possible extensions, in this
order: an abstract specification of the cache (one value per key, or none) that
`CacheBackend` implements while it does not fail over; one of the limiter's
issuer tier that `AtomicTokenBucket` and `PerIssuerRateLimiter` share, so that
the step from the lock-free bucket to the atomic one is itself a theorem.
