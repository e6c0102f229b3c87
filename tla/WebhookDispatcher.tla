-------------------------- MODULE WebhookDispatcher --------------------------
(***************************************************************************)
(* WebhookDispatcher of src/webhook.rs: background tasks that deliver an   *)
(* event to every URL in turn, with retries, and a dead-letter queue.      *)
(* With a cache, an event is marked as delivered before it is sent, and    *)
(* the queue is one cache entry per URL (persisted); without, it is a      *)
(* bounded deque in memory (dlq).  URLs are 1 .. UrlCount in order of      *)
(* registration.  Delays, signatures and metrics are left out.             *)
(*                                                                         *)
(* The cache is seen as its callers see CacheBackend: the process's own    *)
(* memory, or Redis with that memory as fallback, where the state of the   *)
(* breaker, the bulkhead and the connection decides which side an access   *)
(* comes to.  An entry leaves its side at any time, by expiry or eviction. *)
(*                                                                         *)
(* History: received, the deliveries a receiver accepted or an operator    *)
(* was handed; lost, those given up where the code gives them up.          *)
(***************************************************************************)
EXTENDS EventIngestor

CONSTANTS
    Task,               \* bound: dispatches at a time
    UrlCount,
    MaxRetries,
    MaxDlqDepth,        \* 10_000 in the code
    Cache               \* bound: the caches configured, of {"none", "memory", "redis"}

Url == 1 .. UrlCount
Side == {"memory", "redis"}
Delivery == [event : ContractEvent, url : Url]
Mark == [side : Side, event : ContractEvent]
Entry == [side : Side, delivery : Delivery]
Dispatch == [event : ContractEvent, step : {"check", "mark", "send", "dead_letter"},
             url : Url, attempt : 0 .. MaxRetries]
DrainCall == [url : 1 .. UrlCount + 1, step : {"get", "delete"}, taken : SUBSET Delivery]

ASSUME DispatcherAssumption ==
    /\ {UrlCount, MaxRetries} \subseteq Nat
    /\ MaxDlqDepth \in Nat \ {0}
    /\ Cache \subseteq {"none", "memory", "redis"}
    /\ None \notin Dispatch /\ None \notin DrainCall

VARIABLES cache, side, dedup, dlq, persisted, dispatches, drain, received, lost

dispatcher == <<cache, side, dedup, dlq, persisted, dispatches, drain, received, lost>>

DrainAt(step) == drain # None /\ drain.step = step

DispatcherType ==
    /\ cache \in Cache
    /\ side \in Side
    /\ dedup \subseteq Mark
    /\ dlq \in Seq(Delivery)
    /\ persisted \subseteq Entry
    /\ dispatches \in [Task -> Dispatch \cup {None}]
    /\ drain \in DrainCall \cup {None}
    /\ DrainAt("delete") => drain.url \in Url
    /\ received \subseteq Delivery
    /\ lost \subseteq Delivery

DispatcherInit ==
    /\ cache \in Cache
    /\ side = IF cache = "redis" THEN "redis" ELSE "memory"
    /\ dedup = {}
    /\ dlq = << >>
    /\ persisted = {}
    /\ dispatches = [t \in Task |-> None]
    /\ drain = None
    /\ received = {}
    /\ lost = {}

cached == cache # "none"

At(t, step) == dispatches[t] # None /\ dispatches[t].step = step
Become(t, d) == dispatches' = [dispatches EXCEPT ![t] = d]
DeliveryOf(d) == [event |-> d.event, url |-> d.url]
EntriesOf(u) == {p \in persisted : p.side = side /\ p.delivery.url = u}
Deliveries(entries) == {p.delivery : p \in entries}

-----------------------------------------------------------------------------
(* dispatch_background *)
Spawn(e) ==
    /\ \E t \in Task : dispatches[t] = None
    /\ LET t == CHOOSE u \in Task : dispatches[u] = None
       IN  Become(t, IF UrlCount = 0 THEN None
                     ELSE [event |-> e, step |-> IF cached THEN "check" ELSE "send",
                           url |-> 1, attempt |-> 0])
    /\ UNCHANGED <<cache, side, dedup, dlq, persisted, drain, received, lost>>

(* dispatch: the event is marked before anything is sent. *)
CheckDelivered(t) ==
    /\ At(t, "check")
    /\ Become(t, IF [side |-> side, event |-> dispatches[t].event] \in dedup THEN None
                 ELSE [dispatches[t] EXCEPT !.step = "mark"])
    /\ UNCHANGED <<cache, side, dedup, dlq, persisted, drain, received, lost>>

MarkDelivered(t) ==
    /\ At(t, "mark")
    /\ dedup' = dedup \cup {[side |-> side, event |-> dispatches[t].event]}
    /\ Become(t, [dispatches[t] EXCEPT !.step = "send"])
    /\ UNCHANGED <<cache, side, dlq, persisted, drain, received, lost>>

StopAtFailure(d) == None
NextUrl(d) ==
    IF d.url = UrlCount THEN None
    ELSE [d EXCEPT !.step = "send", !.url = @ + 1, !.attempt = 0]

SendOk(t) ==
    /\ At(t, "send")
    /\ received' = received \cup {DeliveryOf(dispatches[t])}
    /\ Become(t, NextUrl(dispatches[t]))
    /\ UNCHANGED <<cache, side, dedup, dlq, persisted, drain, lost>>

(* The request fails, or only its answer is lost: it counts for nothing. *)
RetryForEver(d) == [d EXCEPT !.attempt = (@ + 1) % (MaxRetries + 1)]
RetryOnceMore(d) ==
    IF d.attempt <= MaxRetries THEN [d EXCEPT !.attempt = @ + 1]
    ELSE [d EXCEPT !.step = "dead_letter"]
Retry(d) ==
    IF d.attempt < MaxRetries THEN [d EXCEPT !.attempt = @ + 1]
    ELSE [d EXCEPT !.step = "dead_letter"]

SendFails(t) ==
    /\ At(t, "send")
    /\ Become(t, Retry(dispatches[t]))
    /\ UNCHANGED <<cache, side, dedup, dlq, persisted, drain, received, lost>>

(* With a cache, the new entry of a URL overwrites the one before it on its *)
(* side.                                                                    *)
Persist(x) ==
    /\ persisted' = (persisted \ EntriesOf(x.url)) \cup {[side |-> side, delivery |-> x]}
    /\ lost' = lost \cup (Deliveries(EntriesOf(x.url)) \ {x})
    /\ UNCHANGED dlq

(* Without, a full queue drops its oldest entry. *)
PushBack(x) ==
    /\ IF Len(dlq) >= MaxDlqDepth
       THEN dlq' = Append(Tail(dlq), x) /\ lost' = lost \cup {Head(dlq)}
       ELSE dlq' = Append(dlq, x) /\ UNCHANGED lost
    /\ UNCHANGED persisted

DeadLetter(t) ==
    LET d == dispatches[t]
    IN  /\ At(t, "dead_letter")
        /\ IF cached THEN Persist(DeliveryOf(d))
                     ELSE PushBack(DeliveryOf(d))
        /\ Become(t, NextUrl(d))
        /\ UNCHANGED <<cache, side, dedup, drain, received>>

-----------------------------------------------------------------------------
(* drain_dlq: one step under the lock without a cache; with one, a read and *)
(* a delete per URL, of which the delete may find another entry than the    *)
(* read, or come to the other side.  The entries are handed over at the end.*)
Drain ==
    /\ drain = None
    /\ IF cached
       THEN drain' = [url |-> 1, step |-> "get", taken |-> {}] /\ UNCHANGED dlq
       ELSE drain' = [url |-> UrlCount + 1, step |-> "get", taken |-> ToSet(dlq)] /\ dlq' = << >>
    /\ UNCHANGED <<cache, side, dedup, persisted, dispatches, received, lost>>

DrainRead ==
    /\ DrainAt("get")
    /\ drain.url \in Url
    /\ drain' = [drain EXCEPT !.step = "delete",
                              !.taken = @ \cup Deliveries(EntriesOf(drain.url))]
    /\ UNCHANGED <<cache, side, dedup, dlq, persisted, dispatches, received, lost>>

DrainDelete ==
    /\ DrainAt("delete")
    /\ persisted' = persisted \ EntriesOf(drain.url)
    /\ lost' = lost \cup (Deliveries(EntriesOf(drain.url)) \ drain.taken)
    /\ drain' = [drain EXCEPT !.step = "get", !.url = @ + 1]
    /\ UNCHANGED <<cache, side, dedup, dlq, dispatches, received>>

DrainReply ==
    /\ DrainAt("get")
    /\ drain.url \notin Url
    /\ drain' = None
    /\ received' = received \cup drain.taken
    /\ UNCHANGED <<cache, side, dedup, dlq, persisted, dispatches, lost>>

(* The operator's connection closes first: the handler is dropped at an     *)
(* await, or its answer goes nowhere.                                       *)
DrainDropped ==
    /\ drain # None
    /\ drain' = None
    /\ lost' = lost \cup drain.taken
    /\ UNCHANGED <<cache, side, dedup, dlq, persisted, dispatches, received>>

-----------------------------------------------------------------------------
(* What a dispatch has yet to deliver. *)
Pending(d) ==
    IF d = None THEN {} ELSE {[event |-> d.event, url |-> u] : u \in d.url .. UrlCount}
InFlight == UNION {Pending(dispatches[t]) : t \in Task}
Taken == IF drain = None THEN {} ELSE drain.taken
DeadLettered == ToSet(dlq) \cup Deliveries(persisted)

(* CacheBackend turns to its in-memory fallback, or back to Redis. *)
Failover ==
    /\ cache = "redis"
    /\ side' \in Side \ {side}
    /\ UNCHANGED <<cache, dedup, dlq, persisted, dispatches, drain, received, lost>>

(* An entry of the cache expires or is evicted. *)
CacheLoses ==
    /\ \/ /\ \E m \in dedup : dedup' = dedup \ {m}
          /\ UNCHANGED <<persisted, lost>>
       \/ /\ \E p \in persisted : /\ persisted' = persisted \ {p}
                                  /\ lost' = lost \cup {p.delivery}
          /\ UNCHANGED dedup
    /\ UNCHANGED <<cache, side, dlq, dispatches, drain, received>>

(* The process ends: its tasks and its memory are gone.  On a shutdown the  *)
(* queue is drained first and what it held is discarded: of the entries in  *)
(* Redis, those whose delete came to Redis.                                 *)
Restart(shutdown) ==
    LET inRedis == {p \in persisted : p.side = "redis"}
    IN  /\ \E kept \in IF shutdown THEN SUBSET inRedis ELSE {inRedis} :
              /\ persisted' = kept
              /\ lost' = lost \cup InFlight \cup Taken \cup ToSet(dlq)
                              \cup Deliveries(persisted \ kept)
        /\ dlq' = << >>
        /\ dispatches' = [t \in Task |-> None]
        /\ drain' = None
        /\ dedup' = {m \in dedup : m.side = "redis"}
        /\ UNCHANGED <<cache, side, received>>

TaskStep(t) ==
    \/ CheckDelivered(t) \/ MarkDelivered(t)
    \/ SendOk(t) \/ SendFails(t) \/ DeadLetter(t)
=============================================================================
