---------------------------- MODULE InMemoryCache ----------------------------
(***************************************************************************)
(* InMemoryCache of src/cache.rs: a map with times to live, a queue of its *)
(* keys in order of use, and three RwLocks that tasks take one after the   *)
(* other.  Every operation but stats takes store, lru_queue, stats in that *)
(* order; stats() takes stats, then store.  lru_queue is only ever taken   *)
(* under store, so it never makes a task wait and is not modelled as a     *)
(* lock.  A step is what a task does between two awaits it can be made to  *)
(* wait at, or dropped at.                                                 *)
(*                                                                         *)
(* An entry keeps the seconds it has left (expires_at - now, at least 0):  *)
(* expires_at > now is left > 0.  The request of a call is chosen when it  *)
(* is first used.  Hit, miss and size metrics are left out.                *)
(*                                                                         *)
(* History: mirror, the keys a subscriber that applies every CacheEvent    *)
(* believes to be cached; batched, whether a batch operation ever ran;     *)
(* unevicted, the keys set since entries were last evicted; written, the   *)
(* seconds since a value was last written under a key.                     *)
(***************************************************************************)
EXTENDS Naturals, Sequences, SequencesExt, FiniteSets

CONSTANTS
    Task, Key, Value,
    Ttl,                \* the times to live that writers ask for (Redis refuses 0)
    MaxTtl,             \* bound: the longest of them
    MaxBatch,           \* bound: keys or entries in a batch
    None

Entry == [value : Value, left : Nat]

ASSUME CacheAssumption ==
    /\ MaxTtl \in Nat \ {0} /\ Ttl \subseteq 1 .. MaxTtl
    /\ MaxBatch \in Nat
    /\ None \notin Value /\ None \notin Entry

VARIABLES max_size, cache, lock, pc, mirror, batched, unevicted, written

memoryVars == <<max_size, cache, lock, mirror, batched, unevicted>>

Request ==
    [op : {"get", "delete"}, key : Key]
        \cup [op : {"set"}, key : Key, value : Value, left : Ttl]

Cache == [store : [Key -> Entry \cup {None}], lru_queue : Seq(Key)]

EmptyCache == [store |-> [k \in Key |-> None], lru_queue |-> << >>]

Stored(c) == {k \in Key : c.store[k] # None}

-----------------------------------------------------------------------------
(* What the operations do to a cache. *)

(* for x in s { c = op(c, x) } *)
Each(op(_, _), c, s) ==
    LET after[n \in 0 .. Len(s)] == IF n = 0 THEN c ELSE op(after[n - 1], s[n])
    IN  after[Len(s)]

(* retain *)
Without(queue, k) ==
    Each(LAMBDA kept, x : IF x = k THEN kept ELSE Append(kept, x), << >>, queue)

Used(c, k) == [c EXCEPT !.lru_queue = <<k>> \o Without(@, k)]

Drop(c, k) == [store |-> [c.store EXCEPT ![k] = None],
               lru_queue |-> Without(c.lru_queue, k)]

ValidForEver(c, k) == c.store[k] # None
Valid(c, k) == c.store[k] # None /\ c.store[k].left > 0
Expired(c, k) == c.store[k] # None /\ ~ Valid(c, k)

Lookup(c, k) ==
    CASE Valid(c, k) -> Used(c, k)
      [] Expired(c, k) -> Drop(c, k)
      [] OTHER -> c

Insert(c, e) ==
    Used([c EXCEPT !.store[e.key] = [value |-> e.value, left |-> e.left]], e.key)

(* pop_back, n times, with the removal of each key from the store *)
Popped(c, n) == SubSeq(c.lru_queue, Len(c.lru_queue) - n + 1, Len(c.lru_queue))
Pop(c, n) ==
    [store |-> [k \in Key |-> IF k \in ToSet(Popped(c, n)) THEN None ELSE c.store[k]],
     lru_queue |-> SubSeq(c.lru_queue, 1, Len(c.lru_queue) - n)]

(* Entries are evicted from the back while the store is too large. *)
EvictedTooFew(c) ==
    IF max_size = 0 THEN 0
    ELSE CHOOSE n \in 0 .. Len(c.lru_queue) :
            /\ n = Len(c.lru_queue) \/ Cardinality(Stored(Pop(c, n))) <= max_size + 1
            /\ \A i \in 0 .. n - 1 : Cardinality(Stored(Pop(c, i))) > max_size + 1
Evicted(c) ==
    IF max_size = 0 THEN 0
    ELSE CHOOSE n \in 0 .. Len(c.lru_queue) :
            /\ n = Len(c.lru_queue) \/ Cardinality(Stored(Pop(c, n))) <= max_size
            /\ \A i \in 0 .. n - 1 : Cardinality(Stored(Pop(c, i))) > max_size
Evict(c) == Pop(c, Evicted(c))

-----------------------------------------------------------------------------
(* The operations, between two awaits. *)

(* These values were written now. *)
Wrote(pairs) ==
    written' = [k \in Key |-> [v \in Value |-> IF <<k, v>> \in pairs THEN 0 ELSE written[k][v]]]

get_raw_with_expiry(k) ==
    /\ cache' = Lookup(cache, k)
    /\ mirror' = IF Expired(cache, k) THEN mirror \ {k} ELSE mirror
    /\ UNCHANGED <<batched, unevicted, written>>

(* set_raw inserts and broadcasts; a bounded cache evicts later. *)
set_raw(e) ==
    /\ cache' = Insert(cache, e)
    /\ mirror' = mirror \cup {e.key}
    /\ unevicted' = IF max_size = 0 THEN unevicted ELSE unevicted \cup {e.key}
    /\ Wrote({<<e.key, e.value>>})
    /\ UNCHANGED batched

EvictOverLimit ==
    /\ cache' = Evict(cache)
    /\ mirror' = mirror \ ToSet(Popped(cache, Evicted(cache)))
    /\ unevicted' = {}
    /\ UNCHANGED <<batched, written>>

DeleteSilently(k) ==
    /\ cache' = Drop(cache, k)
    /\ UNCHANGED <<mirror, batched, unevicted, written>>
Delete(k) ==
    /\ cache' = Drop(cache, k)
    /\ mirror' = IF cache.store[k] # None THEN mirror \ {k} ELSE mirror
    /\ UNCHANGED <<batched, unevicted, written>>

(* No batch operation broadcasts what it inserts, expires or evicts. *)
get_batch(keys) ==
    /\ cache' = Each(Lookup, cache, keys)
    /\ batched' = TRUE
    /\ UNCHANGED <<mirror, unevicted, written>>

(* warm has the same body. *)
set_batch(entries) ==
    /\ cache' = Evict(Each(Insert, cache, entries))
    /\ batched' = TRUE
    /\ unevicted' = {}
    /\ Wrote({<<e.key, e.value>> : e \in ToSet(entries)})
    /\ UNCHANGED mirror

-----------------------------------------------------------------------------
(* The locks.  While lock is None both are free, or stats() has the stats.  *)

Goto(t, from, to) == pc[t] = from /\ pc' = [pc EXCEPT ![t] = to]

Sampling == {t \in Task : pc[t] = "sample"}

(* delete, and set on an unbounded cache, need the store lock only. *)
Write(t, r) ==
    /\ lock = None
    /\ Goto(t, "store", "idle")
    /\ \/ r.op = "delete" /\ Delete(r.key)
       \/ r.op = "set" /\ max_size = 0 /\ set_raw(r)
    /\ UNCHANGED <<max_size, lock>>

(* set on a bounded cache keeps the store and asks for the stats to evict. *)
InsertFirst(t, r) ==
    /\ lock = None
    /\ Goto(t, "store", "evict")
    /\ r.op = "set" /\ max_size > 0
    /\ set_raw(r)
    /\ lock' = t
    /\ UNCHANGED max_size

(* get and the batches take the store and ask for the stats before they do  *)
(* anything.                                                                *)
LockStore(t) ==
    /\ lock = None
    /\ Goto(t, "store", "stats")
    /\ lock' = t
    /\ UNCHANGED <<max_size, cache, mirror, batched, unevicted, written>>

(* The task has the stats lock too and is done. *)
Locked(t, at) ==
    /\ lock = t /\ Sampling = {}
    /\ Goto(t, at, "idle")
    /\ lock' = None
    /\ UNCHANGED max_size

Read(t, r) == r.op = "get" /\ Locked(t, "stats") /\ get_raw_with_expiry(r.key)

EvictLast(t) == Locked(t, "evict") /\ EvictOverLimit

Batch(S) == UNION {[1 .. n -> S] : n \in 0 .. MaxBatch}

BatchOf(t, keys, entries) ==
    /\ Locked(t, "stats")
    /\ \/ \E ks \in Batch(keys) : get_batch(ks)
       \/ \E es \in Batch(entries) : set_batch(es)

(* stats() reads the stats, unless a writer waits for them, and then needs  *)
(* the store lock for reading: whoever takes the store lock meanwhile and   *)
(* asks for the stats waits for stats(), which waits for the store.         *)
ReadStats(t) ==
    /\ lock = None
    /\ Goto(t, "idle", "sample")
    /\ UNCHANGED <<memoryVars, written>>

Sample(t) ==
    /\ lock = None
    /\ Goto(t, "sample", "idle")
    /\ UNCHANGED <<memoryVars, written>>

Deadlocked == lock # None /\ Sampling # {}

-----------------------------------------------------------------------------
Aged(e) == IF e = None \/ e.left = 0 THEN e ELSE [e EXCEPT !.left = @ - 1]
Older(c) == [c EXCEPT !.store = [k \in Key |-> Aged(c.store[k])]]

MemoryType ==
    /\ max_size \in Nat
    /\ cache \in Cache
    /\ lock \in Task \cup {None}
    /\ mirror \subseteq Key
    /\ batched \in BOOLEAN
    /\ unevicted \subseteq Key
    /\ written \in [Key -> [Value -> 0 .. MaxTtl]]

MemoryInit ==
    /\ cache = EmptyCache
    /\ lock = None
    /\ mirror = {}
    /\ batched = FALSE
    /\ unevicted = {}
    /\ written = [k \in Key |-> [v \in Value |-> MaxTtl]]

-----------------------------------------------------------------------------
(* Properties *)

(* The queue that eviction follows holds every stored key exactly once and  *)
(* nothing else, and a bounded cache exceeds its bound only by keys set     *)
(* since entries were last evicted, whatever mix of single, batch and       *)
(* expiring operations ran and wherever a call was dropped.  A set dropped  *)
(* between its insertion and its eviction (cache.rs:1096) leaves the cache  *)
(* too large until the next eviction and no longer; a queue out of step     *)
(* with the store would let eviction pop keys that are gone and leave it    *)
(* too large for good.                                                      *)
LruTracksStore ==
    /\ IsInjective(cache.lru_queue)
    /\ ToSet(cache.lru_queue) = Stored(cache)
    /\ max_size > 0 => Cardinality(Stored(cache) \ unevicted) <= max_size

(* "Useful for coordinating cache invalidation": a subscriber that applies  *)
(* every event knows exactly which keys are cached, as long as no batch     *)
(* operation runs (those broadcast nothing).                                *)
MirrorExact == ~ batched => mirror = Stored(cache)
=============================================================================
