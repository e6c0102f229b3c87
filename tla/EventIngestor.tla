---------------------------- MODULE EventIngestor ----------------------------
(***************************************************************************)
(* src/event.rs: contract events, the EventIngestor that rejects           *)
(* duplicates and events out of order, and the EventStore that numbers the *)
(* accepted ones.  An event is its idempotency key (transaction, ledger,   *)
(* index, aggregate and type); named says whether the transaction and      *)
(* document hashes are there.  Metrics and cache invalidation notices are  *)
(* left out.                                                               *)
(***************************************************************************)
EXTENDS Naturals, Sequences, SequencesExt

CONSTANTS
    Aggregate,
    ContractEvent,      \* records [tx, aggregate, ledger, index, named]
    EventsPerLedger,    \* 1_000 in the code
    MaxSequence,        \* u64::MAX
    None

ASSUME EventAssumption ==
    /\ \A e \in ContractEvent : /\ e.aggregate \in Aggregate
                                /\ {e.ledger, e.index} \subseteq Nat
                                /\ e.named \in BOOLEAN
    /\ {EventsPerLedger, MaxSequence} \subseteq Nat
    /\ None \notin Nat

VARIABLES seen_keys, last_sequence, events

ingestor == <<seen_keys, last_sequence, events>>

Finalized == [event : ContractEvent, sequence : Nat]

IngestorType ==
    /\ seen_keys \subseteq ContractEvent
    /\ last_sequence \in [Aggregate -> 0 .. MaxSequence \cup {None}]
    /\ events \in [Aggregate -> Seq(Finalized)]

IngestorInit ==
    /\ seen_keys = {}
    /\ last_sequence = [a \in Aggregate |-> None]
    /\ events = [a \in Aggregate |-> << >>]

(* The process ends: the ingestor and the store live in its memory. *)
Forget ==
    /\ seen_keys' = {}
    /\ last_sequence' = [a \in Aggregate |-> None]
    /\ events' = [a \in Aggregate |-> << >>]

-----------------------------------------------------------------------------
validate(e) == e.named /\ e.ledger > 0

Saturated(n) == IF n > MaxSequence THEN MaxSequence ELSE n

(* saturating_mul, then saturating_add *)
sequence(e) == Saturated(Saturated(e.ledger * EventsPerLedger) + e.index)

DuplicateByTransaction(e) == \E f \in seen_keys : f.tx = e.tx
Duplicate(e) == e \in seen_keys

InOrder(e) ==
    LET last == last_sequence[e.aggregate]
    IN  last # None => sequence(e) > last

AcceptedInAnyOrder(e) == validate(e) /\ ~ Duplicate(e)
Accepted(e) == validate(e) /\ ~ Duplicate(e) /\ InOrder(e)

(* The key is remembered before the order is checked. *)
ingest(e) ==
    /\ seen_keys' = seen_keys \cup {e}
    /\ last_sequence' = IF Accepted(e)
                        THEN [last_sequence EXCEPT ![e.aggregate] = sequence(e)]
                        ELSE last_sequence

(* The store gives its own sequence number, the position in the log. *)
append(e) ==
    events' = [events EXCEPT ![e.aggregate] =
                  Append(@, [event |-> e, sequence |-> Len(@) + 1])]

-----------------------------------------------------------------------------
(* Properties *)

Stored(a) == {f.event : f \in ToSet(events[a])}

Before(f, e) == f.ledger < e.ledger \/ (f.ledger = e.ledger /\ f.index < e.index)

(* However deliveries are replayed and reordered, the log of an aggregate   *)
(* is in the order of the chain, although the store numbers by arrival: its *)
(* numbers have no gap, and of two events the first stored is the first by  *)
(* ledger and index.  The one exception is an event whose index is          *)
(* EventsPerLedger or more: its sequence overtakes later ledgers, and it is *)
(* stored after an event of one.                                            *)
LogInChainOrder ==
    \A a \in Aggregate :
        LET log == events[a]
        IN  \A i, j \in 1 .. Len(log) :
                /\ log[i].sequence = i
                /\ i < j => \/ Before(log[i].event, log[j].event)
                            \/ /\ log[j].event.ledger < log[i].event.ledger
                               /\ log[j].event.index >= EventsPerLedger

(* An event is refused for good only when it was overtaken: an event of its *)
(* aggregate with the same sequence or a later one was stored before.  With *)
(* at most EventsPerLedger events in a ledger and deliveries in order,      *)
(* nothing is refused.                                                      *)
RefusedOnlyIfOvertaken ==
    \A e \in seen_keys :
        \/ e \in Stored(e.aggregate)
        \/ \E f \in Stored(e.aggregate) : sequence(f) >= sequence(e)
=============================================================================
