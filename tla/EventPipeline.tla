---------------------------- MODULE EventPipeline ----------------------------
(***************************************************************************)
(* The service's event path: contract events arrive from Horizon, possibly *)
(* repeated and reordered; each is validated, ingested, appended to the    *)
(* store and dispatched to the webhooks in the background; an event of the *)
(* store may be dispatched again; operators drain the dead-letter queue;   *)
(* the cache loses entries; the process may be shut down or crash, and     *)
(* loses its memory.  The calls of the ingestor and of the dispatcher are  *)
(* external: no code under src/ makes them.                                *)
(***************************************************************************)
EXTENDS WebhookDispatcher

CONSTANT MaxInputs   \* bound: inputs, replays, lost cache entries and dropped drains

ASSUME PipelineAssumption == MaxInputs \in Nat

VARIABLES inputs,
          accepted      \* history: the events accepted so far

vars == <<ingestor, dispatcher, inputs, accepted>>

TypeOK ==
    /\ IngestorType
    /\ DispatcherType
    /\ inputs \in 0 .. MaxInputs
    /\ accepted \subseteq ContractEvent

Init ==
    /\ IngestorInit
    /\ DispatcherInit
    /\ inputs = 0
    /\ accepted = {}

-----------------------------------------------------------------------------
Input ==
    /\ inputs < MaxInputs
    /\ inputs' = inputs + 1

(* from_contract_event refuses an incomplete event before it is ingested. *)
Receive(e) ==
    /\ validate(e)
    /\ ingest(e)
    /\ IF Accepted(e)
       THEN /\ append(e)
            /\ Spawn(e)
            /\ accepted' = accepted \cup {e}
            /\ Input
       ELSE UNCHANGED <<events, dispatcher, accepted, inputs>>

(* The caller dispatches an event of the store once more, a replay of a     *)
(* drained entry for one: this may overlap the first dispatch.              *)
Replay(e) ==
    /\ Input
    /\ e \in Stored(e.aggregate)
    /\ Spawn(e)
    /\ UNCHANGED <<ingestor, accepted>>

Work(t) == TaskStep(t) /\ UNCHANGED <<ingestor, inputs, accepted>>

StartDrain ==
    /\ Input
    /\ Drain
    /\ UNCHANGED <<ingestor, accepted>>

ContinueDrain ==
    /\ DrainRead \/ DrainDelete \/ DrainReply
    /\ UNCHANGED <<ingestor, inputs, accepted>>

Disturb ==
    /\ Input
    /\ DrainDropped \/ Failover \/ CacheLoses
    /\ UNCHANGED <<ingestor, accepted>>

End ==
    /\ Input
    /\ \E shutdown \in BOOLEAN : Restart(shutdown)
    /\ Forget
    /\ UNCHANGED accepted

Next ==
    \/ \E e \in ContractEvent : Receive(e) \/ Replay(e)
    \/ \E t \in Task : Work(t)
    \/ StartDrain
    \/ ContinueDrain
    \/ Disturb
    \/ End

(* Requests have a timeout and tasks are scheduled; the calls of the cache  *)
(* return (CacheBackend says when).                                         *)
Fairness == WF_vars(ContinueDrain) /\ \A t \in Task : WF_vars(Work(t))

Spec == Init /\ [][Next]_vars /\ Fairness

-----------------------------------------------------------------------------
(* Properties *)

(* Every delivery of an accepted event is accounted for, whatever overlaps: *)
(* it is under way, it waits in the dead-letter queue or in a drain, its    *)
(* receiver or an operator has it, or it is one of the known losses: pushed *)
(* out of a full queue, overwritten by the next dead letter of its URL,     *)
(* deleted by a drain that had not read it, expired or evicted, drained for *)
(* a client that went away, or cut off by the end of the process.           *)
NothingForgotten ==
    \A e \in accepted, u \in Url :
        [event |-> e, url |-> u] \in InFlight \cup DeadLettered \cup Taken \cup received \cup lost

(* "An event is attempted against every URL regardless of individual        *)
(* failures": every dispatch comes to its end, whatever the receivers do.   *)
DispatchEnds ==
    \A t \in Task : dispatches[t] # None ~> dispatches[t] = None
=============================================================================
