------------------------ MODULE EventPipeline_proofs ------------------------
(***************************************************************************)
(* Theorems about the event path, for every set of contract events, any    *)
(* width of the sequence and any number of tasks, URLs and restarts.       *)
(*                                                                         *)
(* No property is inductive by itself.  What the ingestor compares is the  *)
(* last sequence of an aggregate, which LastIsLogged ties to the log's     *)
(* last event, so that the log rises by sequence (LogIsSequenced); what    *)
(* that says of ledgers and indexes is arithmetic (ChainOrder).  A task    *)
(* that finds its event marked ends with deliveries still to make:         *)
(* MarkedIsHeld says who answers for them.                                 *)
(***************************************************************************)
EXTENDS EventPipeline, SequenceTheorems, TLAPS

LogsTyped == events \in [Aggregate -> Seq([event : ContractEvent, sequence : Nat])]

(* The last sequence remembered for an aggregate is the one of the last     *)
(* event in its log, and none is remembered only for an empty log.          *)
LastIsLogged ==
    \A a \in Aggregate :
        IF last_sequence[a] = None
        THEN events[a] = << >>
        ELSE /\ Len(events[a]) > 0
             /\ last_sequence[a] = sequence(events[a][Len(events[a])].event)

LogIsSequenced ==
    \A a \in Aggregate :
        \A i, j \in 1 .. Len(events[a]) :
            /\ events[a][i].sequence = i
            /\ i < j => sequence(events[a][i].event) < sequence(events[a][j].event)

SequencesTyped ==
    /\ last_sequence \in [Aggregate -> 0 .. MaxSequence \cup {None}]
    /\ seen_keys \subseteq ContractEvent

IngestorInv ==
    LogsTyped /\ SequencesTyped /\ LastIsLogged /\ LogIsSequenced /\ RefusedOnlyIfOvertaken

-----------------------------------------------------------------------------
(* The saturating arithmetic of the sequence stays within its width. *)
LEMMA SequenceIsNat ==
    ASSUME NEW e \in ContractEvent
    PROVE  sequence(e) \in Nat /\ sequence(e) \in 0 .. MaxSequence
<1>1. /\ e.ledger * EventsPerLedger \in Nat /\ e.index \in Nat /\ MaxSequence \in Nat
  BY EventAssumption
<1>2. Saturated(e.ledger * EventsPerLedger) \in 0 .. MaxSequence
  BY <1>1 DEF Saturated
<1> QED
  BY <1>1, <1>2 DEF sequence, Saturated

LEMMA EventAt ==
    ASSUME NEW s \in Seq([event : ContractEvent, sequence : Nat]), NEW i \in 1 .. Len(s)
    PROVE  s[i].event \in ContractEvent
<1> DEFINE F == [event : ContractEvent, sequence : Nat]
<1>1. s \in Seq(F)
  OBVIOUS
<1>2. \A f \in F : f.event \in ContractEvent
  OBVIOUS
<1> HIDE DEF F
<1>3. s[i] \in F
  BY <1>1
<1> QED
  BY <1>2, <1>3

(* The event at a position of a log is one of the stored events. *)
LEMMA LoggedIsStored ==
    ASSUME NEW a \in Aggregate, LogsTyped, NEW i \in 1 .. Len(events[a])
    PROVE  events[a][i].event \in Stored(a)
<1>1. events[a] \in Seq([event : ContractEvent, sequence : Nat])
  BY DEF LogsTyped
<1>2. i \in DOMAIN events[a]
  BY <1>1
<1>3. events[a][i] \in ToSet(events[a])
  BY <1>2 DEF ToSet
<1> QED
  BY <1>3 DEF Stored

(* Nothing of the ingestor's state changes but by a delivery or a restart. *)
LEMMA IngestorInitially == Init => IngestorInv
<1> SUFFICES ASSUME Init PROVE IngestorInv
  OBVIOUS
<1> USE DEF Init, IngestorInit
<1>1. \A a \in Aggregate : events[a] = << >> /\ Len(events[a]) = 0
  OBVIOUS
<1>2. LogsTyped /\ SequencesTyped
  BY DEF LogsTyped, SequencesTyped
<1>3. LastIsLogged
  BY <1>1 DEF LastIsLogged
<1>4. LogIsSequenced
  BY <1>1 DEF LogIsSequenced
<1>5. RefusedOnlyIfOvertaken
  BY DEF RefusedOnlyIfOvertaken
<1> QED
  BY <1>2, <1>3, <1>4, <1>5 DEF IngestorInv

(* A restart forgets log, keys and sequences together. *)
LEMMA ForgetKeeps == Forget => IngestorInv'
<1> SUFFICES ASSUME Forget PROVE IngestorInv'
  OBVIOUS
<1> USE DEF Forget
<1>1. \A a \in Aggregate : events'[a] = << >> /\ Len(events'[a]) = 0
  OBVIOUS
<1>2. LogsTyped' /\ SequencesTyped'
  BY DEF LogsTyped, SequencesTyped
<1>3. LastIsLogged'
  BY <1>1 DEF LastIsLogged
<1>4. LogIsSequenced'
  BY <1>1 DEF LogIsSequenced
<1>5. RefusedOnlyIfOvertaken'
  BY DEF RefusedOnlyIfOvertaken
<1> QED
  BY <1>2, <1>3, <1>4, <1>5 DEF IngestorInv

LEMMA UnchangedKeeps == IngestorInv /\ UNCHANGED ingestor => IngestorInv'
  BY DEF IngestorInv, ingestor, LogsTyped, SequencesTyped, LastIsLogged, LogIsSequenced,
         RefusedOnlyIfOvertaken, Stored, sequence

(* A refused delivery only adds its key: it is stored already, or the last  *)
(* event of its aggregate's log has its sequence or a later one.            *)
LEMMA RefusalKeeps ==
    ASSUME IngestorInv, NEW e \in ContractEvent, validate(e), ingest(e), ~ Accepted(e),
           UNCHANGED events
    PROVE  IngestorInv'
<1> DEFINE a == e.aggregate
<1>1. /\ a \in Aggregate
      /\ last_sequence' = last_sequence
      /\ seen_keys' = seen_keys \cup {e}
  BY EventAssumption DEF ingest
<1>2. LogsTyped' /\ SequencesTyped' /\ LastIsLogged' /\ LogIsSequenced'
  BY <1>1 DEF IngestorInv, LogsTyped, SequencesTyped, LastIsLogged, LogIsSequenced, sequence
<1>3. \A b \in Aggregate : Stored(b)' = Stored(b)
  BY DEF Stored
<1>4. e \in seen_keys \/ \E f \in Stored(a) : sequence(f) >= sequence(e)
  <2>1. CASE Duplicate(e)
    BY <2>1 DEF Duplicate
  <2>2. CASE ~ Duplicate(e)
    <3>1. last_sequence[a] # None /\ ~ (sequence(e) > last_sequence[a])
      BY <2>2 DEF Accepted, InOrder
    <3>2. /\ Len(events[a]) > 0
          /\ last_sequence[a] = sequence(events[a][Len(events[a])].event)
      BY <1>1, <3>1 DEF IngestorInv, LastIsLogged
    <3>3. Len(events[a]) \in 1 .. Len(events[a])
      BY <1>1, <3>2 DEF IngestorInv, LogsTyped
    <3>4. events[a][Len(events[a])].event \in Stored(a)
      BY <1>1, <3>3, LoggedIsStored DEF IngestorInv
    <3>5. sequence(e) \in Nat /\ last_sequence[a] \in Nat
      BY <1>1, <3>1, SequenceIsNat DEF IngestorInv, SequencesTyped
    <3>6. last_sequence[a] >= sequence(e)
      BY <3>1, <3>5
    <3> QED
      BY <3>2, <3>4, <3>6
  <2> QED
    BY <2>1, <2>2
<1>5. RefusedOnlyIfOvertaken'
  <2> SUFFICES ASSUME NEW k \in seen_keys'
               PROVE  \/ k \in Stored(k.aggregate)'
                      \/ \E f \in Stored(k.aggregate)' : sequence(f) >= sequence(k)
    BY DEF RefusedOnlyIfOvertaken
  <2>1. k \in ContractEvent /\ k.aggregate \in Aggregate
    BY <1>1, EventAssumption DEF IngestorInv, SequencesTyped
  <2>2. CASE k \in seen_keys
    BY <2>1, <2>2, <1>3 DEF IngestorInv, RefusedOnlyIfOvertaken
  <2>3. CASE k \notin seen_keys
    <3>1. k = e
      BY <2>3, <1>1
    <3> QED
      BY <3>1, <2>1, <2>3, <1>3, <1>4
  <2> QED
    BY <2>2, <2>3
<1> QED
  BY <1>2, <1>5 DEF IngestorInv

(* An accepted delivery extends the log of its aggregate by an event whose  *)
(* sequence is above the last one's.                                        *)
LEMMA AcceptanceKeeps ==
    ASSUME IngestorInv, NEW e \in ContractEvent, ingest(e), Accepted(e), append(e)
    PROVE  IngestorInv'
<1> DEFINE a == e.aggregate
           F == [event : ContractEvent, sequence : Nat]
           n == Len(events[a])
           x == [event |-> e, sequence |-> n + 1]
<1>1. /\ a \in Aggregate
      /\ last_sequence' = [last_sequence EXCEPT ![a] = sequence(e)]
      /\ seen_keys' = seen_keys \cup {e}
      /\ events' = [events EXCEPT ![a] = Append(events[a], x)]
  <2>1. a \in Aggregate
    BY EventAssumption
  <2>2. events' = [events EXCEPT ![a] = Append(events[a], x)]
    BY <2>1 DEF append, IngestorInv, LogsTyped
  <2> QED
    BY <2>1, <2>2 DEF ingest
<1>2. events \in [Aggregate -> Seq(F)] /\ events[a] \in Seq(F) /\ n \in Nat /\ x \in F
  <2>1. events \in [Aggregate -> Seq(F)]
    BY DEF IngestorInv, LogsTyped
  <2>2. events[a] \in Seq(F)
    <3> HIDE DEF F, a
    <3> QED
      BY <1>1, <2>1
  <2>3. n \in Nat
    <3> HIDE DEF F, a
    <3> QED
      BY <2>2
  <2>4. x \in F
    <3> HIDE DEF n, a
    <3> QED
      BY <2>3
  <2> QED
    BY <2>1, <2>2, <2>3, <2>4
<1>3. /\ Append(events[a], x) \in Seq(F)
      /\ Len(Append(events[a], x)) = n + 1
      /\ \A i \in 1 .. n : Append(events[a], x)[i] = events[a][i]
      /\ Append(events[a], x)[n + 1] = x
  <2> HIDE DEF F, x, a
  <2> QED
    BY <1>2, AppendProperties
<1>4. /\ events'[a] \in Seq(F)
      /\ Len(events'[a]) = n + 1
      /\ \A i \in 1 .. n : events'[a][i] = events[a][i]
      /\ events'[a][n + 1] = x
      /\ \A b \in Aggregate : b # a => events'[b] = events[b]
  BY <1>1, <1>2, <1>3
<1>5. LogsTyped'
  BY <1>1, <1>2, <1>3 DEF LogsTyped
<1>6. SequencesTyped'
  BY <1>1, SequenceIsNat DEF IngestorInv, SequencesTyped
<1>7. sequence(e) \in Nat /\ sequence(e) # None
  BY SequenceIsNat, EventAssumption
<1>8. LastIsLogged'
  <2> SUFFICES ASSUME NEW b \in Aggregate
               PROVE  IF last_sequence'[b] = None
                      THEN events'[b] = << >>
                      ELSE /\ Len(events'[b]) > 0
                           /\ last_sequence'[b] = sequence(events'[b][Len(events'[b])].event)
    BY DEF LastIsLogged, sequence
  <2>1. CASE b = a
    <3>1. last_sequence'[a] = sequence(e)
      BY <1>1 DEF IngestorInv, SequencesTyped
    <3>2. events'[a][Len(events'[a])].event = e
      BY <1>4
    <3> QED
      BY <2>1, <3>1, <3>2, <1>2, <1>4, <1>7
  <2>2. CASE b # a
    <3>1. last_sequence'[b] = last_sequence[b]
      BY <1>1, <2>2 DEF IngestorInv, SequencesTyped
    <3> QED
      BY <2>2, <3>1, <1>4 DEF IngestorInv, LastIsLogged
  <2> QED
    BY <2>1, <2>2
<1>9. \A i \in 1 .. n : sequence(events[a][i].event) < sequence(e)
  <2> SUFFICES ASSUME NEW i \in 1 .. n PROVE sequence(events[a][i].event) < sequence(e)
    OBVIOUS
  <2>0. n > 0 /\ n \in 1 .. n /\ i \in 1 .. Len(events[a]) /\ n \in 1 .. Len(events[a])
    BY <1>2
  <2>1. last_sequence[a] # None
    BY <1>1, <1>2, <2>0 DEF IngestorInv, LastIsLogged
  <2>2. last_sequence[a] = sequence(events[a][n].event) /\ last_sequence[a] \in Nat
    BY <1>1, <2>1 DEF IngestorInv, LastIsLogged, SequencesTyped
  <2>3. sequence(e) > last_sequence[a]
    BY <2>1 DEF Accepted, InOrder
  <2>4. i = n \/ sequence(events[a][i].event) < sequence(events[a][n].event)
    <3>1. i < n => sequence(events[a][i].event) < sequence(events[a][n].event)
      BY <1>1, <2>0 DEF IngestorInv, LogIsSequenced
    <3> HIDE DEF n
    <3> QED
      BY <3>1, <1>2
  <2>5. events[a][i].event \in ContractEvent
    BY <1>2, <2>0, EventAt
  <2>6. sequence(events[a][i].event) \in Nat
    BY <2>5, SequenceIsNat
  <2> QED
    BY <2>2, <2>3, <2>4, <2>6, <1>7
<1>10. LogIsSequenced'
  <2> SUFFICES ASSUME NEW b \in Aggregate, NEW i \in 1 .. Len(events'[b]),
                      NEW j \in 1 .. Len(events'[b])
               PROVE  /\ events'[b][i].sequence = i
                      /\ i < j => sequence(events'[b][i].event) < sequence(events'[b][j].event)
    BY DEF LogIsSequenced, sequence
  <2>1. CASE b # a
    BY <2>1, <1>4 DEF IngestorInv, LogIsSequenced
  <2>2. CASE b = a
    <3>1. i \in 1 .. n + 1 /\ j \in 1 .. n + 1 /\ n \in Nat
      BY <2>2, <1>2, <1>4
    <3>2. \A k \in 1 .. n : events'[b][k] = events[a][k] /\ events[a][k].sequence = k
      BY <2>2, <1>1, <1>4 DEF IngestorInv, LogIsSequenced
    <3>3. \A k, l \in 1 .. n :
             k < l => sequence(events[a][k].event) < sequence(events[a][l].event)
      BY <1>1 DEF IngestorInv, LogIsSequenced
    <3>4. events'[b][n + 1].sequence = n + 1 /\ events'[b][n + 1].event = e
      BY <2>2, <1>4
    <3> HIDE DEF n, a, x
    <3>5. events'[b][i].sequence = i
      <4>1. i \in 1 .. n \/ i = n + 1
        BY <3>1
      <4> QED
        BY <4>1, <3>2, <3>4
    <3>6. ASSUME i < j PROVE sequence(events'[b][i].event) < sequence(events'[b][j].event)
      <4>1. i \in 1 .. n /\ (j \in 1 .. n \/ j = n + 1)
        BY <3>1, <3>6
      <4>2. CASE j \in 1 .. n
        BY <4>1, <4>2, <3>2, <3>3, <3>6
      <4>3. CASE j = n + 1
        BY <4>1, <4>3, <3>2, <3>4, <1>9
      <4> QED
        BY <4>1, <4>2, <4>3
    <3> QED
      BY <3>5, <3>6
  <2> QED
    BY <2>1, <2>2
<1>11. \A b \in Aggregate : Stored(b) \subseteq Stored(b)'
  <2> SUFFICES ASSUME NEW b \in Aggregate, NEW f \in Stored(b) PROVE f \in Stored(b)'
    OBVIOUS
  <2>1. PICK i \in DOMAIN events[b] : f = events[b][i].event
    BY DEF Stored, ToSet
  <2>2. i \in 1 .. Len(events[b])
    BY <2>1, <1>2
  <2>3. events'[b][i] = events[b][i] /\ i \in 1 .. Len(events'[b])
    <3>1. CASE b = a
      <4>1. i \in 1 .. n /\ i \in 1 .. n + 1
        BY <3>1, <2>2, <1>2
      <4> HIDE DEF n
      <4> QED
        BY <4>1, <3>1, <1>4
    <3>2. CASE b # a
      BY <3>2, <2>2, <1>4
    <3> QED
      BY <3>1, <3>2
  <2>4. events'[b] \in Seq(F)
    BY <1>5 DEF LogsTyped
  <2>5. i \in DOMAIN events'[b]
    BY <2>3, <2>4
  <2>6. events'[b][i] \in {events'[b][j] : j \in DOMAIN events'[b]}
    BY <2>5
  <2> QED
    BY <2>1, <2>3, <2>6 DEF Stored, ToSet
<1>12. e \in Stored(a)'
  <2>1. n + 1 \in DOMAIN events'[a]
    BY <1>2, <1>4
  <2>2. x \in {events'[a][j] : j \in DOMAIN events'[a]}
    BY <2>1, <1>4
  <2>3. x.event = e
    OBVIOUS
  <2> QED
    BY <2>2, <2>3 DEF Stored, ToSet
<1>13. RefusedOnlyIfOvertaken'
  <2> SUFFICES ASSUME NEW k \in seen_keys'
               PROVE  \/ k \in Stored(k.aggregate)'
                      \/ \E f \in Stored(k.aggregate)' : sequence(f) >= sequence(k)
    BY DEF RefusedOnlyIfOvertaken, sequence
  <2>1. CASE k = e
    BY <2>1, <1>12
  <2>2. CASE k \in seen_keys
    <3>1. k.aggregate \in Aggregate
      BY <2>2, EventAssumption DEF IngestorInv, SequencesTyped
    <3>2. \/ k \in Stored(k.aggregate)
          \/ \E f \in Stored(k.aggregate) : sequence(f) >= sequence(k)
      BY <2>2 DEF IngestorInv, RefusedOnlyIfOvertaken
    <3> QED
      BY <3>1, <3>2, <1>11
  <2> QED
    BY <2>1, <2>2, <1>1
<1> QED
  BY <1>5, <1>6, <1>8, <1>10, <1>13 DEF IngestorInv

LEMMA StepKeeps == IngestorInv /\ [Next]_vars => IngestorInv'
<1> SUFFICES ASSUME IngestorInv, [Next]_vars PROVE IngestorInv'
  OBVIOUS
<1>1. ASSUME NEW e \in ContractEvent, Receive(e) PROVE IngestorInv'
  <2>1. CASE Accepted(e)
    BY <1>1, <2>1, AcceptanceKeeps DEF Receive
  <2>2. CASE ~ Accepted(e)
    BY <1>1, <2>2, RefusalKeeps DEF Receive
  <2> QED
    BY <2>1, <2>2
<1>2. ASSUME NEW t \in Task, Work(t) PROVE IngestorInv'
  BY <1>2, UnchangedKeeps DEF Work
<1>7. ASSUME NEW e \in ContractEvent, Replay(e) PROVE IngestorInv'
  BY <1>7, UnchangedKeeps DEF Replay
<1>8. CASE Disturb
  BY <1>8, UnchangedKeeps DEF Disturb
<1>3. CASE StartDrain
  BY <1>3, UnchangedKeeps DEF StartDrain
<1>4. CASE ContinueDrain
  BY <1>4, UnchangedKeeps DEF ContinueDrain
<1>5. CASE End
  BY <1>5, ForgetKeeps DEF End
<1>6. CASE UNCHANGED vars
  BY <1>6, UnchangedKeeps DEF vars
<1> QED
  BY <1>1, <1>2, <1>3, <1>4, <1>5, <1>6, <1>7, <1>8 DEF Next

LEMMA IngestorInvariant == Spec => []IngestorInv
<1> QED
  BY IngestorInitially, StepKeeps, PTL DEF Spec

(* Of two unsaturated sequences l * k + i, the smaller one has the lower    *)
(* ledger or index, unless the index of the larger one reaches k.           *)
LEMMA RisingSequences ==
    ASSUME NEW k \in Nat, NEW l1 \in Nat, NEW i1 \in Nat, NEW l2 \in Nat, NEW i2 \in Nat,
           l1 * k + i1 < l2 * k + i2
    PROVE  \/ l1 < l2 \/ (l1 = l2 /\ i1 < i2)
           \/ l2 < l1 /\ i2 >= k
<1>1. CASE l1 < l2
  BY <1>1
<1>2. CASE l1 = l2
  BY <1>2
<1>3. CASE l2 < l1
  <2>1. PICK d \in Nat : l1 = l2 + 1 + d
    <3>1. l1 - l2 - 1 \in Nat /\ l1 = l2 + 1 + (l1 - l2 - 1)
      BY <1>3
    <3> QED
      BY <3>1
  <2>2. l1 * k = l2 * k + k + d * k
    BY <2>1
  <2>3. d * k \in Nat /\ l2 * k \in Nat
    OBVIOUS
  <2> QED
    BY <1>3, <2>2, <2>3
<1> QED
  BY <1>1, <1>2, <1>3

(* A sequence below another one has not saturated. *)
LEMMA ChainOrder ==
    ASSUME NEW f \in ContractEvent, NEW e \in ContractEvent, sequence(f) < sequence(e)
    PROVE  Before(f, e) \/ (e.ledger < f.ledger /\ e.index >= EventsPerLedger)
<1> DEFINE k == EventsPerLedger
           m == MaxSequence
           p == f.ledger * k
           q == e.ledger * k
<1>1. /\ k \in Nat /\ m \in Nat /\ f.ledger \in Nat /\ f.index \in Nat
      /\ e.ledger \in Nat /\ e.index \in Nat
  BY EventAssumption
<1>2. p \in Nat /\ q \in Nat
  BY <1>1
<1>3. p + f.index < q + e.index
  <2>1. sequence(f) = Saturated(Saturated(p) + f.index) /\ sequence(e) = Saturated(Saturated(q) + e.index)
    BY DEF sequence
  <2> HIDE DEF p, q, k
  <2>2. sequence(e) <= q + e.index /\ sequence(e) <= m /\ sequence(e) \in Nat
    BY <1>1, <1>2, <2>1 DEF Saturated
  <2>3. sequence(f) < m => sequence(f) = p + f.index
    BY <1>1, <1>2, <2>1 DEF Saturated
  <2>4. sequence(f) \in Nat
    BY SequenceIsNat
  <2> QED
    BY <1>1, <1>2, <2>2, <2>3, <2>4
<1> HIDE DEF k
<1> QED
  BY <1>1, <1>3, RisingSequences DEF Before, k

(* However deliveries are lost, replayed, reordered and interrupted by      *)
(* restarts, ingest and append keep every aggregate's log in the order of   *)
(* ledger and index, save for an event whose index reaches EventsPerLedger. *)
THEOREM LogFollowsChain == Spec => []LogInChainOrder
<1>1. IngestorInv => LogInChainOrder
  <2> SUFFICES ASSUME IngestorInv, NEW a \in Aggregate,
                      NEW i \in 1 .. Len(events[a]), NEW j \in 1 .. Len(events[a])
               PROVE  /\ events[a][i].sequence = i
                      /\ i < j => \/ Before(events[a][i].event, events[a][j].event)
                                  \/ /\ events[a][j].event.ledger < events[a][i].event.ledger
                                     /\ events[a][j].event.index >= EventsPerLedger
    BY DEF LogInChainOrder
  <2>1. /\ events[a][i].sequence = i
        /\ i < j => sequence(events[a][i].event) < sequence(events[a][j].event)
    BY DEF IngestorInv, LogIsSequenced
  <2>2. events[a] \in Seq([event : ContractEvent, sequence : Nat])
    BY DEF IngestorInv, LogsTyped
  <2>3. events[a][i].event \in ContractEvent /\ events[a][j].event \in ContractEvent
    BY <2>2, EventAt
  <2> QED
    BY <2>1, <2>3, ChainOrder
<1> QED
  BY <1>1, IngestorInvariant, PTL

(* ingest refuses an event for good only if an event of its aggregate with  *)
(* the same sequence or a later one was stored before it.                   *)
THEOREM OnlyOvertakenRefused == Spec => []RefusedOnlyIfOvertaken
<1>1. IngestorInv => RefusedOnlyIfOvertaken
  BY DEF IngestorInv
<1> QED
  BY <1>1, IngestorInvariant, PTL

-----------------------------------------------------------------------------
(* The dispatcher *)

(* Marking comes before the first URL. *)
MarksFirst ==
    \A t \in Task : At(t, "check") \/ At(t, "mark") => dispatches[t].url = 1

(* What the tasks past the dedup check have yet to deliver. *)
Marking == UNION {Pending(dispatches[t]) : t \in {x \in Task : ~ At(x, "check")}}

Held == DeadLettered \cup Taken \cup received \cup lost

(* An event that bears the mark is accounted for without the tasks that are *)
(* about to look for the mark: one that finds it may go.                    *)
MarkedIsHeld ==
    \A m \in dedup, u \in Url : [event |-> m.event, url |-> u] \in Marking \cup Held

DispatcherInv == DispatcherType /\ MarksFirst

LEMMA DispatchFields ==
    ASSUME NEW d \in Dispatch
    PROVE  /\ d # None /\ d.event \in ContractEvent
           /\ d.step \in {"check", "mark", "send", "dead_letter"}
           /\ d.url \in Url /\ d.url \in Nat /\ d.attempt \in 0 .. MaxRetries
  BY DispatcherAssumption DEF Dispatch, Url

(* The next URL, the retries and the first step of a task. *)
LEMMA DispatchMoves ==
    ASSUME NEW d \in Dispatch
    PROVE  /\ NextUrl(d) \in Dispatch \cup {None}
           /\ NextUrl(d) # None => NextUrl(d).step = "send"
           /\ d.url # UrlCount => /\ NextUrl(d) \in Dispatch
                                 /\ NextUrl(d).event = d.event
                                 /\ NextUrl(d).url = d.url + 1
           /\ Retry(d) \in Dispatch
           /\ \A s \in {"check", "mark", "send", "dead_letter"} :
                 /\ [d EXCEPT !.step = s] \in Dispatch
                 /\ [d EXCEPT !.step = s].step = s
                 /\ [d EXCEPT !.step = s].url = d.url
                 /\ [d EXCEPT !.step = s].event = d.event
<1>0. UrlCount \in Nat /\ MaxRetries \in Nat
  BY DispatcherAssumption
<1>1. ASSUME d.url # UrlCount
      PROVE  /\ NextUrl(d) \in Dispatch /\ NextUrl(d).event = d.event
             /\ NextUrl(d).url = d.url + 1
  <2>1. d.url + 1 \in Url /\ 0 \in 0 .. MaxRetries
    <3>1. d.url \in 1 .. UrlCount
      BY DEF Dispatch, Url
    <3> QED
      BY <1>0, <1>1, <3>1 DEF Url
  <2> DEFINE v == d.url + 1
             c == [d EXCEPT !.step = "send", !.url = v, !.attempt = 0]
  <2>2. NextUrl(d) = c
    BY <1>1 DEF NextUrl, Dispatch
  <2>3. v \in Url
    BY <2>1
  <2> HIDE DEF v
  <2>4. c \in Dispatch /\ c.event = d.event /\ c.url = v
    BY <2>1, <2>3 DEF Dispatch
  <2> HIDE DEF c
  <2> QED
    BY <2>2, <2>4 DEF v
<1>2. NextUrl(d) # None => NextUrl(d).step = "send"
  BY DEF NextUrl, Dispatch
<1>3. Retry(d) \in Dispatch
  BY <1>0 DEF Retry, Dispatch
<1>4. NextUrl(d) \in Dispatch \cup {None}
  BY <1>1 DEF NextUrl
<1> QED
  BY <1>1, <1>2, <1>3, <1>4 DEF Dispatch

(* A task owes the delivery to its URL and to every later one; the step to  *)
(* the next URL drops the first of these and no other.                      *)
LEMMA PendingIs ==
    ASSUME NEW d \in Dispatch
    PROVE  /\ Pending(d) = {[event |-> d.event, url |-> u] : u \in d.url .. UrlCount}
           /\ Pending(d) \subseteq Delivery
           /\ Pending(d) \subseteq Pending(NextUrl(d)) \cup {DeliveryOf(d)}
           /\ Pending(Retry(d)) = Pending(d)
           /\ \A s \in {"check", "mark", "send", "dead_letter"} :
                 Pending([d EXCEPT !.step = s]) = Pending(d)
<1>0. /\ UrlCount \in Nat /\ MaxRetries \in Nat
      /\ d.event \in ContractEvent /\ d.url \in 1 .. UrlCount
  BY DispatcherAssumption, DispatchFields DEF Url
<1>1. ASSUME NEW c \in Dispatch
      PROVE  Pending(c) = {[event |-> c.event, url |-> u] : u \in c.url .. UrlCount}
  BY DispatcherAssumption DEF Pending
<1>2. Pending(d) \subseteq Delivery
  BY <1>0, <1>1 DEF Delivery, Url
<1>3. Pending(d) \subseteq Pending(NextUrl(d)) \cup {DeliveryOf(d)}
  <2> SUFFICES ASSUME NEW u \in d.url .. UrlCount
               PROVE  [event |-> d.event, url |-> u] \in Pending(NextUrl(d)) \cup {DeliveryOf(d)}
    BY <1>1
  <2>1. CASE u = d.url
    BY <2>1 DEF DeliveryOf
  <2>2. CASE u # d.url
    <3>1. d.url # UrlCount /\ u \in (d.url + 1) .. UrlCount
      BY <1>0, <2>2
    <3>3. NextUrl(d).event = d.event /\ NextUrl(d).url = d.url + 1 /\ NextUrl(d) \in Dispatch
      BY <3>1, DispatchMoves
    <3>4. Pending(NextUrl(d)) = {[event |-> d.event, url |-> v] : v \in (d.url + 1) .. UrlCount}
      BY <1>1, <3>3
    <3> QED
      BY <3>1, <3>4
  <2> QED
    BY <2>1, <2>2
<1>4. Pending(Retry(d)) = Pending(d)
  <2>1. Retry(d) \in Dispatch
    BY DispatchMoves
  <2>2. Retry(d).event = d.event /\ Retry(d).url = d.url
    BY DEF Retry, Dispatch
  <2> QED
    BY <1>1, <2>1, <2>2
<1>5. ASSUME NEW s \in {"check", "mark", "send", "dead_letter"}
      PROVE  Pending([d EXCEPT !.step = s]) = Pending(d)
  <2>1. /\ [d EXCEPT !.step = s] \in Dispatch
        /\ [d EXCEPT !.step = s].event = d.event /\ [d EXCEPT !.step = s].url = d.url
    BY DispatchMoves
  <2> HIDE DEF Dispatch
  <2> QED
    BY <1>1, <2>1
<1> QED
  BY <1>1, <1>2, <1>3, <1>4, <1>5

LEMMA QueuesAreDeliveries ==
    ASSUME DispatcherType
    PROVE  /\ ToSet(dlq) \subseteq Delivery
           /\ Taken \subseteq Delivery
           /\ InFlight \subseteq Delivery
           /\ \A ps \in SUBSET persisted : Deliveries(ps) \subseteq Delivery
<1>1. ToSet(dlq) \subseteq Delivery
  BY DEF DispatcherType, ToSet
<1>2. \A ps \in SUBSET persisted : Deliveries(ps) \subseteq Delivery
  BY DEF DispatcherType, Deliveries, Entry
<1>4. Taken \subseteq Delivery
  BY DEF DispatcherType, Taken, DrainCall
<1>3. \A t \in Task : Pending(dispatches[t]) \subseteq Delivery
  <2> SUFFICES ASSUME NEW t \in Task PROVE Pending(dispatches[t]) \subseteq Delivery
    OBVIOUS
  <2>1. CASE dispatches[t] = None
    BY <2>1 DEF Pending
  <2>2. CASE dispatches[t] # None
    <3>1. dispatches[t] \in Dispatch
      BY <2>2 DEF DispatcherType
    <3> QED
      BY <3>1, PendingIs
  <2> QED
    BY <2>1, <2>2
<1> QED
  BY <1>1, <1>2, <1>3, <1>4 DEF InFlight

(* A task that moves on leaves the deliveries of the other tasks alone. *)
LEMMA OthersKeep ==
    ASSUME DispatcherType, NEW t \in Task, NEW new, Become(t, new), NEW x
    PROVE  /\ x \in InFlight => x \in InFlight' \/ x \in Pending(dispatches[t])
           /\ x \in Marking =>
                x \in Marking' \/ (~ At(t, "check") /\ x \in Pending(dispatches[t]))
           /\ x \in Pending(new) => x \in InFlight'
           /\ x \in Pending(new) /\ (new = None \/ new.step # "check") => x \in Marking'
<1>1. /\ dispatches'[t] = new
      /\ \A s \in Task \ {t} : dispatches'[s] = dispatches[s]
  BY DEF Become, DispatcherType
<1>2. \A s \in Task : Pending(dispatches'[s]) \subseteq InFlight'
  BY DEF InFlight, Pending
<1>3. \A s \in Task : ~ At(s, "check")' => Pending(dispatches'[s]) \subseteq Marking'
  BY DEF Marking, Pending
<1>4. ASSUME x \in InFlight PROVE x \in InFlight' \/ x \in Pending(dispatches[t])
  <2>1. PICK s \in Task : x \in Pending(dispatches[s])
    BY <1>4 DEF InFlight
  <2> QED
    BY <1>1, <1>2, <2>1
<1>5. ASSUME x \in Marking
      PROVE  x \in Marking' \/ (~ At(t, "check") /\ x \in Pending(dispatches[t]))
  <2>1. PICK s \in Task : ~ At(s, "check") /\ x \in Pending(dispatches[s])
    BY <1>5 DEF Marking
  <2>2. CASE s # t
    <3>1. ~ At(s, "check")'
      BY <1>1, <2>1, <2>2 DEF At
    <3> QED
      BY <1>1, <1>3, <2>1, <2>2, <3>1
  <2> QED
    BY <2>1, <2>2
<1>6. x \in Pending(new) => x \in InFlight'
  BY <1>1, <1>2
<1>7. ASSUME new = None \/ new.step # "check" PROVE x \in Pending(new) => x \in Marking'
  <2>1. ~ At(t, "check")'
    BY <1>1, <1>7 DEF At
  <2> QED
    BY <1>1, <1>3, <2>1
<1> QED
  BY <1>4, <1>5, <1>6, <1>7

LEMMA MarkingInFlight == Marking \subseteq InFlight
  BY DEF Marking, InFlight

(* Nothing that was accounted for stops being so. *)
NothingLost ==
    /\ InFlight \cup Held \subseteq InFlight' \cup Held'
    /\ Marking \cup Held \subseteq Marking' \cup Held'

LEMMA CheckLosesNothing ==
    ASSUME DispatcherInv, MarkedIsHeld, NEW t \in Task, CheckDelivered(t)
    PROVE  NothingLost /\ DispatcherInv'
<1> DEFINE d == dispatches[t]
           m == [side |-> side, event |-> d.event]
           new == IF m \in dedup THEN None ELSE [d EXCEPT !.step = "mark"]
<1>1. DispatcherType /\ Become(t, new) /\ At(t, "check") /\ d \in Dispatch
  BY DEF CheckDelivered, At, DispatcherInv, DispatcherType
<1>2. Held' = Held
  BY DEF CheckDelivered, Held, DeadLettered, Deliveries, Taken
<1>3. new = None \/ new.step # "check"
  BY <1>1, DispatchMoves
<1>4. Marking \subseteq Marking'
  <2> HIDE DEF new
  <2> QED
    BY <1>1, <1>3, OthersKeep
<1>5. ASSUME NEW x \in Pending(d) PROVE x \in InFlight' \cup Held'
  <2>1. CASE m \in dedup
    <3>0. Pending(d) = {[event |-> d.event, url |-> u] : u \in d.url .. UrlCount}
      BY <1>1, PendingIs
    <3>1. PICK u \in d.url .. UrlCount : x = [event |-> d.event, url |-> u]
      BY <3>0
    <3>2. u \in Url
      BY <1>1, DispatchFields, DispatcherAssumption DEF Url
    <3>5. m.event = d.event
      OBVIOUS
    <3>3. x \in Marking \cup Held
      <4> HIDE DEF m
      <4> QED
        BY <2>1, <3>1, <3>2, <3>5 DEF MarkedIsHeld
    <3>4. Marking' \subseteq InFlight'
      BY DEF Marking, InFlight
    <3> QED
      BY <1>2, <1>4, <3>3, <3>4
  <2>2. CASE m \notin dedup
    <3>1. Pending(new) = Pending(d)
      BY <1>1, <2>2, PendingIs
    <3> HIDE DEF new
    <3> QED
      BY <1>1, <3>1, OthersKeep
  <2> QED
    BY <2>1, <2>2
<1>6. InFlight \subseteq InFlight' \cup Held'
  <2> HIDE DEF new
  <2> QED
    BY <1>1, <1>5, OthersKeep
<1>7. DispatcherType'
  <2>1. new \in Dispatch \cup {None}
    BY <1>1, DispatchMoves
  <2> HIDE DEF new
  <2> QED
    BY <1>1, <2>1 DEF CheckDelivered, DispatcherType, DrainAt, Become
<1>8. MarksFirst'
  <2>1. new = None \/ new.url = 1
    BY <1>1, DispatchMoves DEF DispatcherInv, MarksFirst
  <2> HIDE DEF new
  <2> QED
    BY <1>1, <2>1 DEF DispatcherInv, DispatcherType, MarksFirst, Become, At
<1> QED
  BY <1>2, <1>4, <1>6, <1>7, <1>8 DEF NothingLost, DispatcherInv

(* The other steps of a task, which is past its check before and after. *)
LEMMA TaskLosesNothing ==
    ASSUME DispatcherInv, NEW t \in Task, NEW new \in Dispatch \cup {None}, Become(t, new),
           ~ At(t, "check"), new # None => new.step \in {"send", "dead_letter"},
           Pending(dispatches[t]) \subseteq Pending(new) \cup Held',
           Held \subseteq Held'
    PROVE  NothingLost /\ dispatches' \in [Task -> Dispatch \cup {None}] /\ MarksFirst'
<1>1. DispatcherType
  BY DEF DispatcherInv
<1>2. new = None \/ new.step # "check"
  OBVIOUS
<1>3. InFlight \subseteq InFlight' \cup Held'
  BY <1>1, OthersKeep
<1>4. Marking \subseteq Marking' \cup Held'
  BY <1>1, <1>2, OthersKeep
<1>5. dispatches' \in [Task -> Dispatch \cup {None}]
  BY <1>1 DEF Become, DispatcherType
<1>6. MarksFirst'
  BY <1>1 DEF MarksFirst, Become, At, DispatcherInv, DispatcherType
<1> QED
  BY <1>3, <1>4, <1>5, <1>6 DEF NothingLost

LEMMA MarkLosesNothing ==
    ASSUME DispatcherInv, MarkedIsHeld, NEW t \in Task, MarkDelivered(t)
    PROVE  NothingLost /\ DispatcherInv' /\ MarkedIsHeld'
<1> DEFINE d == dispatches[t]
           new == [d EXCEPT !.step = "send"]
<1>1. DispatcherType /\ Become(t, new) /\ At(t, "mark") /\ d \in Dispatch /\ d.url = 1
  BY DEF MarkDelivered, At, DispatcherInv, DispatcherType, MarksFirst
<1>2. Held' = Held
  BY DEF MarkDelivered, Held, DeadLettered, Deliveries, Taken
<1>3. new \in Dispatch /\ new.step = "send" /\ Pending(new) = Pending(d) /\ ~ At(t, "check")
  BY <1>1, DispatchMoves, PendingIs DEF At
<1>4. NothingLost /\ dispatches' \in [Task -> Dispatch \cup {None}] /\ MarksFirst'
  <2> HIDE DEF new
  <2> QED
    BY <1>1, <1>2, <1>3, TaskLosesNothing
<1>7. dedup' = dedup \cup {[side |-> side, event |-> d.event]}
  BY DEF MarkDelivered
<1>5. DispatcherType'
  <2>1. [side |-> side, event |-> d.event] \in Mark
    BY <1>1, DispatchFields DEF Mark, DispatcherType
  <2> QED
    BY <1>1, <1>4, <1>7, <2>1 DEF MarkDelivered, DispatcherType, DrainAt
<1>6. MarkedIsHeld'
  <2> SUFFICES ASSUME NEW m \in dedup', NEW u \in Url
               PROVE  [event |-> m.event, url |-> u] \in Marking' \cup Held'
    BY DEF MarkedIsHeld
  <2> DEFINE e == m.event
  <2>1. CASE m \in dedup
    BY <2>1, <1>4 DEF MarkedIsHeld, NothingLost
  <2>2. CASE e = d.event
    <3>1. Pending(d) = {[event |-> d.event, url |-> v] : v \in d.url .. UrlCount}
      BY <1>1, PendingIs
    <3>2. [event |-> e, url |-> u] \in Pending(new)
      BY <1>1, <1>3, <2>2, <3>1 DEF Url
    <3> HIDE DEF new
    <3> QED
      BY <1>1, <1>3, <3>2, OthersKeep
  <2> QED
    BY <2>1, <2>2, <1>7
<1> QED
  BY <1>4, <1>5, <1>6 DEF DispatcherInv

(* What keeps the marks accounts for the marked events as before. *)
LEMMA MarkedStays ==
    ASSUME MarkedIsHeld, NothingLost, dedup' \subseteq dedup
    PROVE  MarkedIsHeld'
  BY DEF MarkedIsHeld, NothingLost

LEMMA SendOkLosesNothing ==
    ASSUME DispatcherInv, NEW t \in Task, SendOk(t)
    PROVE  NothingLost /\ DispatcherInv'
<1> DEFINE d == dispatches[t]
           new == NextUrl(d)
<1>1. DispatcherType /\ Become(t, new) /\ At(t, "send") /\ d \in Dispatch
  BY DEF SendOk, At, DispatcherInv, DispatcherType
<1>2. Held' = Held \cup {DeliveryOf(d)}
  BY DEF SendOk, Held, DeadLettered, Deliveries, Taken
<1>3. /\ new \in Dispatch \cup {None} /\ (new # None => new.step = "send")
      /\ Pending(d) \subseteq Pending(new) \cup {DeliveryOf(d)} /\ ~ At(t, "check")
  BY <1>1, DispatchMoves, PendingIs DEF At
<1>4. NothingLost /\ dispatches' \in [Task -> Dispatch \cup {None}] /\ MarksFirst'
  <2> HIDE DEF new
  <2> QED
    BY <1>1, <1>2, <1>3, TaskLosesNothing
<1>5. DeliveryOf(d) \in Delivery
  BY <1>1, DispatchFields DEF DeliveryOf, Delivery
<1>6. DispatcherType'
  BY <1>1, <1>4, <1>5 DEF SendOk, DispatcherType, DrainAt
<1> QED
  BY <1>4, <1>6 DEF DispatcherInv

LEMMA SendFailsLosesNothing ==
    ASSUME DispatcherInv, NEW t \in Task, SendFails(t)
    PROVE  NothingLost /\ DispatcherInv'
<1> DEFINE d == dispatches[t]
           new == Retry(d)
<1>1. DispatcherType /\ Become(t, new) /\ At(t, "send") /\ d \in Dispatch
  BY DEF SendFails, At, DispatcherInv, DispatcherType
<1>2. Held' = Held
  BY DEF SendFails, Held, DeadLettered, Deliveries, Taken
<1>3. new \in Dispatch /\ Pending(new) = Pending(d) /\ ~ At(t, "check")
  BY <1>1, DispatchMoves, PendingIs DEF At
<1>4. new.step \in {"send", "dead_letter"}
  BY <1>1 DEF Retry, At, Dispatch
<1>5. NothingLost /\ dispatches' \in [Task -> Dispatch \cup {None}] /\ MarksFirst'
  <2> HIDE DEF new
  <2> QED
    BY <1>1, <1>2, <1>3, <1>4, TaskLosesNothing
<1>6. DispatcherType'
  BY <1>1, <1>5 DEF SendFails, DispatcherType, DrainAt
<1> QED
  BY <1>5, <1>6 DEF DispatcherInv

(* Appending holds what was there and the new entry. *)
LEMMA AppendHolds ==
    ASSUME NEW q \in Seq(Delivery), NEW x \in Delivery, NEW r, r = Append(q, x)
    PROVE  r \in Seq(Delivery) /\ ToSet(q) \cup {x} \subseteq ToSet(r)
<1>1. /\ r \in Seq(Delivery) /\ Len(q) \in Nat /\ Len(r) = Len(q) + 1
      /\ r[Len(q) + 1] = x /\ \A i \in 1 .. Len(q) : r[i] = q[i]
  BY AppendProperties
<1>2. DOMAIN q = 1 .. Len(q) /\ DOMAIN r = 1 .. Len(q) + 1
  BY <1>1
<1>3. \A i \in 1 .. Len(q) : i \in DOMAIN r
  BY <1>1, <1>2
<1>4. Len(q) + 1 \in DOMAIN r
  BY <1>1, <1>2
<1> QED
  BY <1>1, <1>2, <1>3, <1>4 DEF ToSet

LEMMA TailHolds ==
    ASSUME NEW q \in Seq(Delivery), q # << >>
    PROVE  /\ Tail(q) \in Seq(Delivery) /\ Head(q) \in Delivery
           /\ ToSet(q) \subseteq ToSet(Tail(q)) \cup {Head(q)}
<1>1. /\ Head(q) \in Delivery /\ Tail(q) \in Seq(Delivery)
      /\ Len(Tail(q)) = Len(q) - 1 /\ \A i \in 1 .. Len(Tail(q)) : Tail(q)[i] = q[i + 1]
  BY HeadTailProperties
<1>2. Head(q) = q[1] /\ Len(q) \in Nat /\ DOMAIN q = 1 .. Len(q)
  OBVIOUS
<1>3. DOMAIN Tail(q) = 1 .. Len(q) - 1
  BY <1>1
<1>4. ASSUME NEW i \in 1 .. Len(q) PROVE q[i] \in ToSet(Tail(q)) \cup {Head(q)}
  <2>1. CASE i = 1
    BY <2>1, <1>2
  <2>2. CASE i # 1
    <3>1. i - 1 \in 1 .. Len(q) - 1 /\ (i - 1) + 1 = i
      BY <2>2, <1>2
    <3>2. i - 1 \in DOMAIN Tail(q) /\ Tail(q)[i - 1] = q[i]
      BY <3>1, <1>1, <1>3
    <3> QED
      BY <3>2 DEF ToSet
  <2> QED
    BY <2>1, <2>2
<1> QED
  BY <1>1, <1>2, <1>4 DEF ToSet

(* A push keeps every entry of the queue but the oldest of a full one,      *)
(* which is lost.                                                           *)
LEMMA PushBackHolds ==
    ASSUME DispatcherType, NEW x \in Delivery, PushBack(x)
    PROVE  /\ dlq' \in Seq(Delivery) /\ lost' \subseteq Delivery /\ lost \subseteq lost'
           /\ ToSet(dlq) \cup {x} \subseteq ToSet(dlq') \cup lost'
           /\ persisted' = persisted
<1>1. dlq \in Seq(Delivery) /\ MaxDlqDepth \in Nat \ {0} /\ lost \subseteq Delivery
  BY DispatcherAssumption DEF DispatcherType
<1>2. CASE Len(dlq) >= MaxDlqDepth
  <2>1. dlq' = Append(Tail(dlq), x) /\ lost' = lost \cup {Head(dlq)} /\ persisted' = persisted
    BY <1>2 DEF PushBack
  <2>2. dlq # << >>
    BY <1>1, <1>2
  <2>3. /\ Tail(dlq) \in Seq(Delivery) /\ Head(dlq) \in Delivery
        /\ ToSet(dlq) \subseteq ToSet(Tail(dlq)) \cup {Head(dlq)}
    BY <1>1, <2>2, TailHolds
  <2>4. dlq' \in Seq(Delivery) /\ ToSet(Tail(dlq)) \cup {x} \subseteq ToSet(dlq')
    BY <2>1, <2>3, AppendHolds
  <2> QED
    BY <1>1, <2>1, <2>3, <2>4
<1>3. CASE ~ (Len(dlq) >= MaxDlqDepth)
  <2>1. dlq' = Append(dlq, x) /\ lost' = lost /\ persisted' = persisted
    BY <1>3 DEF PushBack
  <2>2. dlq' \in Seq(Delivery) /\ ToSet(dlq) \cup {x} \subseteq ToSet(dlq')
    BY <1>1, <2>1, AppendHolds
  <2> QED
    BY <1>1, <2>1, <2>2
<1> QED
  BY <1>2, <1>3

(* A write keeps every entry of the cache but the one it replaces. *)
LEMMA PersistHolds ==
    ASSUME DispatcherType, NEW x \in Delivery, Persist(x)
    PROVE  /\ persisted' \subseteq Entry /\ lost' \subseteq Delivery /\ lost \subseteq lost'
           /\ Deliveries(persisted) \cup {x} \subseteq Deliveries(persisted') \cup lost'
           /\ dlq' = dlq
<1> DEFINE old == EntriesOf(x.url)
           p0 == [side |-> side, delivery |-> x]
<1>1. /\ persisted' = (persisted \ old) \cup {p0}
      /\ lost' = lost \cup (Deliveries(old) \ {x}) /\ dlq' = dlq
  BY DEF Persist
<1>2. old \subseteq persisted
  BY DEF EntriesOf
<1>3. p0 \in Entry /\ p0.delivery = x
  BY DEF Entry, DispatcherType
<1>4. Deliveries(old) \subseteq Delivery
  BY <1>2, QueuesAreDeliveries
<1>5. x \in Deliveries(persisted')
  <2> HIDE DEF p0, old
  <2> QED
    BY <1>1, <1>3 DEF Deliveries
<1>6. ASSUME NEW p \in persisted PROVE p.delivery \in Deliveries(persisted') \cup lost'
  <2>1. CASE p \in old
    <3>1. p.delivery \in Deliveries(old)
      BY <2>1 DEF Deliveries
    <3> QED
      BY <3>1, <1>1, <1>5
  <2>2. CASE p \notin old
    BY <2>2, <1>1 DEF Deliveries
  <2> QED
    BY <2>1, <2>2
<1>7. Deliveries(persisted) \subseteq Deliveries(persisted') \cup lost'
  BY <1>6 DEF Deliveries
<1>8. persisted' \subseteq Entry /\ lost' \subseteq Delivery /\ lost \subseteq lost'
  <2> HIDE DEF old, p0
  <2> QED
    BY <1>1, <1>3, <1>4 DEF DispatcherType
<1> QED
  BY <1>1, <1>5, <1>7, <1>8

LEMMA DeadLetterLosesNothing ==
    ASSUME DispatcherInv, NEW t \in Task, DeadLetter(t)
    PROVE  NothingLost /\ DispatcherInv'
<1> DEFINE d == dispatches[t]
           new == NextUrl(d)
           x == DeliveryOf(d)
<1>1. DispatcherType /\ Become(t, new) /\ At(t, "dead_letter") /\ d \in Dispatch
  BY DEF DeadLetter, At, DispatcherInv, DispatcherType
<1>2. x \in Delivery
  BY <1>1, DispatchFields DEF DeliveryOf, Delivery
<1>3. UNCHANGED <<cache, side, dedup, drain, received>>
  BY DEF DeadLetter
<1>4. IF cached THEN Persist(x) ELSE PushBack(x)
  BY DEF DeadLetter
<1> HIDE DEF x
<1>5. /\ dlq' \in Seq(Delivery) /\ persisted' \subseteq Entry
      /\ lost' \subseteq Delivery /\ lost \subseteq lost'
      /\ DeadLettered \cup {x} \subseteq DeadLettered' \cup lost'
  <2>1. CASE cached
    BY <1>1, <1>2, <1>4, <2>1, PersistHolds DEF DeadLettered, DispatcherType
  <2>2. CASE ~ cached
    <3>1. /\ dlq' \in Seq(Delivery) /\ lost' \subseteq Delivery /\ lost \subseteq lost'
          /\ ToSet(dlq) \cup {x} \subseteq ToSet(dlq') \cup lost'
          /\ persisted' = persisted
      BY <1>1, <1>2, <1>4, <2>2, PushBackHolds
    <3>2. Deliveries(persisted') = Deliveries(persisted)
      BY <3>1
    <3> QED
      BY <1>1, <3>1, <3>2 DEF DeadLettered, DispatcherType
  <2> QED
    BY <2>1, <2>2
<1>6. Held \subseteq Held' /\ x \in Held'
  <2>1. Taken' = Taken
    BY <1>3 DEF Taken
  <2> QED
    BY <1>3, <1>5, <2>1 DEF Held
<1>7. /\ new \in Dispatch \cup {None} /\ (new # None => new.step = "send")
      /\ Pending(d) \subseteq Pending(new) \cup {x} /\ ~ At(t, "check")
  BY <1>1, DispatchMoves, PendingIs DEF At, x
<1>8. NothingLost /\ dispatches' \in [Task -> Dispatch \cup {None}] /\ MarksFirst'
  <2> HIDE DEF new
  <2> QED
    BY <1>1, <1>6, <1>7, TaskLosesNothing
<1>9. DispatcherType'
  BY <1>1, <1>3, <1>5, <1>8 DEF DispatcherType, DrainAt
<1> QED
  BY <1>8, <1>9 DEF DispatcherInv

LEMMA TaskStepKeeps ==
    ASSUME DispatcherInv, MarkedIsHeld, NEW t \in Task, TaskStep(t)
    PROVE  NothingLost /\ DispatcherInv' /\ MarkedIsHeld'
<1>1. CASE CheckDelivered(t)
  <2>1. dedup' = dedup
    BY <1>1 DEF CheckDelivered
  <2> QED
    BY <1>1, <2>1, CheckLosesNothing, MarkedStays
<1>2. CASE MarkDelivered(t)
  BY <1>2, MarkLosesNothing
<1>3. CASE SendOk(t)
  <2>1. dedup' = dedup
    BY <1>3 DEF SendOk
  <2> QED
    BY <1>3, <2>1, SendOkLosesNothing, MarkedStays
<1>4. CASE SendFails(t)
  <2>1. dedup' = dedup
    BY <1>4 DEF SendFails
  <2> QED
    BY <1>4, <2>1, SendFailsLosesNothing, MarkedStays
<1>5. CASE DeadLetter(t)
  <2>1. dedup' = dedup
    BY <1>5 DEF DeadLetter
  <2> QED
    BY <1>5, <2>1, DeadLetterLosesNothing, MarkedStays
<1> QED
  BY <1>1, <1>2, <1>3, <1>4, <1>5 DEF TaskStep

(* A drain moves no task: what it takes out of the queue it holds. *)
LEMMA IdleTasksKeep ==
    ASSUME DispatcherInv, UNCHANGED dispatches, Held \subseteq Held'
    PROVE  NothingLost /\ MarksFirst'
<1>1. InFlight' = InFlight
  BY DEF InFlight, Pending
<1>2. Marking' = Marking
  BY DEF Marking, Pending, At
<1>3. MarksFirst'
  BY DEF DispatcherInv, MarksFirst, At
<1> QED
  BY <1>1, <1>2, <1>3 DEF NothingLost

(* The fields of a drain under way. *)
LEMMA DrainFields ==
    ASSUME DispatcherType, drain # None
    PROVE  /\ drain \in DrainCall /\ drain.taken \subseteq Delivery /\ Taken = drain.taken
           /\ drain.url \in 1 .. UrlCount + 1 /\ drain.step \in {"get", "delete"}
  BY DEF DispatcherType, DrainCall, Taken

LEMMA DrainHolds ==
    ASSUME DispatcherType, Drain \/ DrainRead \/ DrainReply \/ DrainDropped
    PROVE  Held \subseteq Held' /\ DispatcherType'
<1>0. UrlCount \in Nat /\ (\A c \in DrainCall : c # None)
  BY DispatcherAssumption
<1>1. CASE Drain /\ cached
  <2>1. /\ drain = None /\ drain' = [url |-> 1, step |-> "get", taken |-> {}]
        /\ UNCHANGED <<cache, side, dedup, dlq, persisted, dispatches, received, lost>>
    BY <1>1 DEF Drain
  <2>2. 1 \in 1 .. UrlCount + 1
    BY <1>0
  <2>3. drain' \in DrainCall
    BY <2>1, <2>2 DEF DrainCall
  <2> QED
    BY <2>1, <2>3 DEF Held, Taken, DeadLettered, Deliveries, DispatcherType, DrainAt
<1>2. CASE Drain /\ ~ cached
  <2>1. /\ drain = None /\ dlq' = << >>
        /\ drain' = [url |-> UrlCount + 1, step |-> "get", taken |-> ToSet(dlq)]
        /\ UNCHANGED <<cache, side, dedup, persisted, dispatches, received, lost>>
    BY <1>2 DEF Drain
  <2>2. UrlCount + 1 \in 1 .. UrlCount + 1 /\ ToSet(dlq) \subseteq Delivery
    BY <1>0, QueuesAreDeliveries
  <2>3. drain' \in DrainCall
    <3> DEFINE u == UrlCount + 1
    <3>1. u \in 1 .. UrlCount + 1 /\ drain' = [url |-> u, step |-> "get", taken |-> ToSet(dlq)]
      BY <2>1, <2>2
    <3> HIDE DEF u
    <3> QED
      BY <3>1, <2>2 DEF DrainCall
  <2>4. Taken' = ToSet(dlq) /\ Taken = {}
    <3>1. drain'.taken = ToSet(dlq) /\ drain' # None
      BY <1>0, <2>1, <2>3
    <3> QED
      BY <2>1, <3>1 DEF Taken
  <2>5. << >> \in Seq(Delivery) /\ Deliveries(persisted') = Deliveries(persisted)
    BY <2>1
  <2>6. Held \subseteq Held'
    BY <2>1, <2>4, <2>5 DEF Held, DeadLettered
  <2> QED
    BY <2>1, <2>3, <2>5, <2>6 DEF DispatcherType, DrainAt
<1>3. CASE DrainRead
  <2> DEFINE more == Deliveries(EntriesOf(drain.url))
  <2>1. /\ drain # None
        /\ drain' = [drain EXCEPT !.step = "delete", !.taken = drain.taken \cup more]
        /\ UNCHANGED <<cache, side, dedup, dlq, persisted, dispatches, received, lost>>
    <3>1. drain # None
      BY <1>3 DEF DrainRead, DrainAt
    <3> QED
      BY <1>3, <3>1, DrainFields DEF DrainRead, DrainCall
  <2>2. more \subseteq Delivery
    BY QueuesAreDeliveries DEF EntriesOf
  <2> HIDE DEF more
  <2>3. drain' \in DrainCall /\ drain'.taken = drain.taken \cup more
    BY <2>1, <2>2, DrainFields DEF DrainCall
  <2>4. Taken \subseteq Taken'
    BY <1>0, <2>1, <2>3 DEF Taken
  <2>5. DeadLettered' = DeadLettered
    BY <2>1 DEF DeadLettered, Deliveries
  <2>6. drain'.url = drain.url /\ drain.url \in Url
    BY <1>3, <2>1, DrainFields DEF DrainRead, DrainCall
  <2> QED
    BY <2>1, <2>3, <2>4, <2>5, <2>6 DEF Held, DispatcherType, DrainAt
<1>4. CASE DrainReply
  <2>1. /\ drain # None /\ drain' = None /\ received' = received \cup drain.taken
        /\ UNCHANGED <<cache, side, dedup, dlq, persisted, dispatches, lost>>
    BY <1>4 DEF DrainReply, DrainAt
  <2> QED
    BY <2>1, DrainFields DEF Held, Taken, DeadLettered, Deliveries, DispatcherType, DrainAt
<1>5. CASE DrainDropped
  <2>1. /\ drain # None /\ drain' = None /\ lost' = lost \cup drain.taken
        /\ UNCHANGED <<cache, side, dedup, dlq, persisted, dispatches, received>>
    BY <1>5 DEF DrainDropped
  <2> QED
    BY <2>1, DrainFields DEF Held, Taken, DeadLettered, Deliveries, DispatcherType, DrainAt
<1> QED
  BY <1>1, <1>2, <1>3, <1>4, <1>5

(* Of the entries that leave the cache, those the drain has not read are    *)
(* lost.                                                                    *)
LEMMA RemovalHolds ==
    ASSUME DispatcherType, NEW gone \in SUBSET persisted, NEW held,
           persisted' = persisted \ gone, lost' = lost \cup (Deliveries(gone) \ held),
           held \subseteq Taken', Taken \subseteq Taken', UNCHANGED <<dlq, received>>
    PROVE  /\ Held \subseteq Held' /\ persisted' \subseteq Entry /\ lost' \subseteq Delivery
<1>1. ASSUME NEW p \in persisted PROVE p.delivery \in Deliveries(persisted') \cup lost' \cup Taken'
  <2>1. CASE p \in gone
    <3>1. p.delivery \in Deliveries(gone)
      BY <2>1 DEF Deliveries
    <3> QED
      BY <3>1
  <2>2. CASE p \notin gone
    BY <2>2 DEF Deliveries
  <2> QED
    BY <2>1, <2>2
<1>2. Deliveries(persisted) \subseteq Deliveries(persisted') \cup lost' \cup Taken'
  BY <1>1 DEF Deliveries
<1>3. Held \subseteq Held'
  BY <1>2 DEF Held, DeadLettered
<1>4. Deliveries(gone) \subseteq Delivery
  BY QueuesAreDeliveries
<1> QED
  BY <1>3, <1>4 DEF DispatcherType

LEMMA DrainDeleteHolds ==
    ASSUME DispatcherType, DrainDelete
    PROVE  Held \subseteq Held' /\ DispatcherType'
<1>1. /\ drain # None /\ drain.step = "delete"
      /\ UNCHANGED <<cache, side, dedup, dlq, dispatches, received>>
  BY DEF DrainDelete, DrainAt
<1> DEFINE gone == EntriesOf(drain.url)
<1>2. /\ persisted' = persisted \ gone /\ lost' = lost \cup (Deliveries(gone) \ drain.taken)
      /\ drain' = [drain EXCEPT !.step = "get", !.url = drain.url + 1]
  BY <1>1, DrainFields DEF DrainDelete, DrainCall
<1>3. gone \in SUBSET persisted
  BY DEF EntriesOf
<1> HIDE DEF gone
<1>4. drain' \in DrainCall /\ drain'.taken = drain.taken
  <2>1. drain.url + 1 \in 1 .. UrlCount + 1
    <3>1. drain.url \in 1 .. UrlCount /\ UrlCount \in Nat
      BY <1>1, DispatcherAssumption DEF DispatcherType, DrainAt, Url
    <3> QED
      BY <3>1
  <2> DEFINE u == drain.url + 1
  <2>2. u \in 1 .. UrlCount + 1 /\ drain' = [drain EXCEPT !.step = "get", !.url = u]
    BY <1>2, <2>1
  <2> HIDE DEF u
  <2> QED
    BY <1>1, <2>2, DrainFields DEF DrainCall
<1>5. Taken' = drain.taken /\ Taken = drain.taken
  <2>1. drain' # None
    BY <1>4, DispatcherAssumption
  <2> QED
    BY <1>1, <1>4, <2>1 DEF Taken
<1>6. Held \subseteq Held' /\ persisted' \subseteq Entry /\ lost' \subseteq Delivery
  BY <1>1, <1>2, <1>3, <1>5, RemovalHolds
<1>7. drain'.step = "get"
  BY <1>1, <1>2, DrainFields DEF DrainCall
<1> QED
  BY <1>1, <1>4, <1>6, <1>7 DEF DispatcherType, DrainAt

LEMMA DisturbanceHolds ==
    ASSUME DispatcherType, Failover \/ CacheLoses
    PROVE  Held \subseteq Held' /\ DispatcherType'
<1>1. UNCHANGED <<cache, dlq, dispatches, drain, received>> /\ Taken' = Taken
  BY DEF Failover, CacheLoses, Taken
<1>2. CASE Failover
  BY <1>2 DEF Failover, Held, DeadLettered, Deliveries, Taken, DispatcherType, DrainAt
<1>3. CASE CacheLoses /\ persisted' = persisted /\ lost' = lost
  <2>1. dedup' \subseteq Mark /\ side' = side
    BY <1>3 DEF CacheLoses, DispatcherType
  <2> QED
    BY <1>1, <1>3, <2>1 DEF Held, DeadLettered, Deliveries, DispatcherType, DrainAt
<1>4. ASSUME NEW p \in persisted, CacheLoses, persisted' = persisted \ {p},
             lost' = lost \cup {p.delivery}, dedup' = dedup
      PROVE  Held \subseteq Held' /\ DispatcherType'
  <2>1. Deliveries({p}) = {p.delivery} /\ {p} \in SUBSET persisted /\ side' = side
    BY <1>4 DEF Deliveries, CacheLoses
  <2>2. lost' = lost \cup (Deliveries({p}) \ {})
    BY <1>4, <2>1
  <2>3. Held \subseteq Held' /\ persisted' \subseteq Entry /\ lost' \subseteq Delivery
    <3> DEFINE gone == {p}
               held == {}
    <3>1. /\ gone \in SUBSET persisted /\ persisted' = persisted \ gone
          /\ lost' = lost \cup (Deliveries(gone) \ held) /\ held \subseteq Taken'
      BY <1>4, <2>1, <2>2
    <3> HIDE DEF gone, held
    <3> QED
      BY <1>1, <3>1, RemovalHolds
  <2> QED
    BY <1>1, <1>4, <2>1, <2>3 DEF DispatcherType, DrainAt
<1> QED
  BY <1>2, <1>3, <1>4 DEF CacheLoses

LEMMA IdleStepKeeps ==
    ASSUME DispatcherInv, MarkedIsHeld,
           \/ Drain \/ DrainRead \/ DrainDelete \/ DrainReply \/ DrainDropped
           \/ Failover \/ CacheLoses
    PROVE  NothingLost /\ DispatcherInv' /\ MarkedIsHeld'
<1>1. dispatches' = dispatches /\ dedup' \subseteq dedup
  BY DEF Drain, DrainRead, DrainDelete, DrainReply, DrainDropped, Failover, CacheLoses
<1>2. DispatcherType
  BY DEF DispatcherInv
<1>3. Held \subseteq Held' /\ DispatcherType'
  BY <1>2, DrainHolds, DrainDeleteHolds, DisturbanceHolds
<1>4. NothingLost /\ MarksFirst'
  BY <1>1, <1>3, IdleTasksKeep
<1> QED
  BY <1>1, <1>3, <1>4, MarkedStays DEF DispatcherInv

(* The end of the process loses what its tasks and its drain owed, its      *)
(* memory, and what a shutdown discards.                                    *)
LEMMA RestartKeeps ==
    ASSUME DispatcherInv, MarkedIsHeld, NEW shutdown \in BOOLEAN, Restart(shutdown)
    PROVE  NothingLost /\ DispatcherInv' /\ MarkedIsHeld'
<1>0. DispatcherType
  BY DEF DispatcherInv
<1>1. PICK kept \in SUBSET persisted :
         /\ persisted' = kept
         /\ lost' = lost \cup InFlight \cup Taken \cup ToSet(dlq) \cup Deliveries(persisted \ kept)
  BY DEF Restart
<1>2. /\ dispatches' = [t \in Task |-> None] /\ dlq' = << >> /\ drain' = None
      /\ dedup' \subseteq dedup /\ UNCHANGED <<cache, side, received>>
  BY DEF Restart
<1>3. Deliveries(persisted) \subseteq Deliveries(persisted') \cup lost'
  <2> SUFFICES ASSUME NEW p \in persisted
               PROVE  p.delivery \in Deliveries(persisted') \cup lost'
    BY DEF Deliveries
  <2>1. CASE p \in kept
    BY <1>1, <2>1 DEF Deliveries
  <2>2. CASE p \notin kept
    <3>1. p.delivery \in Deliveries(persisted \ kept)
      BY <2>2 DEF Deliveries
    <3> QED
      BY <1>1, <3>1
  <2> QED
    BY <2>1, <2>2
<1>4. InFlight \cup Held \subseteq Held'
  BY <1>1, <1>2, <1>3 DEF Held, DeadLettered
<1>5. NothingLost
  BY <1>4, MarkingInFlight DEF NothingLost
<1>6. MarksFirst'
  BY <1>2 DEF MarksFirst, At
<1>7. lost' \subseteq Delivery
  <2>1. persisted \ kept \in SUBSET persisted
    OBVIOUS
  <2>2. Deliveries(persisted \ kept) \subseteq Delivery
    BY <1>0, <2>1, QueuesAreDeliveries
  <2> QED
    BY <1>0, <1>1, <2>2, QueuesAreDeliveries DEF DispatcherType
<1>8. << >> \in Seq(Delivery)
  OBVIOUS
<1>9. DispatcherType'
  BY <1>0, <1>1, <1>2, <1>7, <1>8 DEF DispatcherType, DrainAt
<1> QED
  BY <1>2, <1>5, <1>6, <1>9, MarkedStays DEF DispatcherInv

(* A new task owes its event to every URL. *)
LEMMA SpawnKeeps ==
    ASSUME DispatcherInv, MarkedIsHeld, NEW e \in ContractEvent, Spawn(e)
    PROVE  /\ NothingLost /\ DispatcherInv' /\ MarkedIsHeld'
           /\ \A u \in Url : [event |-> e, url |-> u] \in InFlight'
<1> DEFINE new == IF UrlCount = 0 THEN None
                  ELSE [event |-> e, step |-> IF cached THEN "check" ELSE "send",
                        url |-> 1, attempt |-> 0]
<1>1. PICK t \in Task : dispatches[t] = None /\ Become(t, new)
  <2>1. \E t \in Task : dispatches[t] = None
    BY DEF Spawn
  <2> DEFINE c == CHOOSE u \in Task : dispatches[u] = None
  <2>2. c \in Task /\ dispatches[c] = None
    BY <2>1, Zenon
  <2>3. Become(c, new)
    BY DEF Spawn
  <2> HIDE DEF c, new
  <2> QED
    BY <2>2, <2>3
<1>2. DispatcherType /\ Held' = Held
  BY DEF Spawn, DispatcherInv, Held, DeadLettered, Deliveries, Taken
<1>3. /\ new \in Dispatch \cup {None} /\ (new # None => new.url = 1 /\ new.event = e)
      /\ UrlCount # 0 => new \in Dispatch
  <2>1. UrlCount \in Nat /\ MaxRetries \in Nat
    BY DispatcherAssumption
  <2>2. UrlCount # 0 => 1 \in Url /\ 0 \in 0 .. MaxRetries
    BY <2>1 DEF Url
  <2> QED
    BY <2>2 DEF Dispatch
<1>4. ASSUME NEW u \in Url PROVE [event |-> e, url |-> u] \in Pending(new)
  <2>1. UrlCount # 0 /\ u \in 1 .. UrlCount
    BY DispatcherAssumption DEF Url
  <2>2. new # None
    BY <1>3, <2>1, DispatcherAssumption
  <2> HIDE DEF new
  <2> QED
    BY <1>3, <2>1, <2>2 DEF Pending
<1>5. Pending(dispatches[t]) = {}
  BY <1>1 DEF Pending
<1> HIDE DEF new
<1>6. NothingLost
  <2>1. InFlight \subseteq InFlight'
    BY <1>1, <1>2, <1>5, OthersKeep
  <2>2. Marking \subseteq Marking'
    BY <1>1, <1>2, <1>5, OthersKeep
  <2> QED
    BY <1>2, <2>1, <2>2 DEF NothingLost
<1>7. \A u \in Url : [event |-> e, url |-> u] \in InFlight'
  BY <1>1, <1>2, <1>4, OthersKeep
<1>8. DispatcherType'
  BY <1>1, <1>2, <1>3 DEF Spawn, Become, DispatcherType, DrainAt
<1>9. MarksFirst'
  BY <1>1, <1>2, <1>3 DEF DispatcherInv, DispatcherType, MarksFirst, Become, At
<1>10. dedup' = dedup
  BY DEF Spawn
<1> QED
  BY <1>6, <1>7, <1>8, <1>9, <1>10, MarkedStays DEF DispatcherInv

-----------------------------------------------------------------------------
PipelineInv ==
    /\ TypeOK
    /\ MarksFirst
    /\ MarkedIsHeld
    /\ NothingForgotten

LEMMA ForgottenStays ==
    ASSUME NothingForgotten, NothingLost, UNCHANGED accepted
    PROVE  NothingForgotten'
  BY DEF NothingForgotten, NothingLost, Held

LEMMA TypesFrom ==
    ASSUME IngestorInv', DispatcherInv', NEW r \in 0 .. MaxInputs, inputs' = r,
           accepted' \subseteq ContractEvent
    PROVE  TypeOK'
<1>1. IngestorType'
  BY DEF IngestorInv, IngestorType, Finalized, LogsTyped, SequencesTyped
<1> QED
  BY <1>1 DEF TypeOK, DispatcherInv

LEMMA PipelineInitially == Init => PipelineInv
<1> SUFFICES ASSUME Init PROVE PipelineInv
  OBVIOUS
<1>1. DispatcherType
  <2>1. << >> \in Seq(Delivery)
    OBVIOUS
  <2> QED
    BY <2>1 DEF Init, DispatcherInit, DispatcherType, DrainAt, Side
<1>2. IngestorType
  BY IngestorInitially DEF IngestorInv, IngestorType, Finalized, LogsTyped, SequencesTyped
<1>3. TypeOK
  BY <1>1, <1>2, PipelineAssumption DEF TypeOK, Init
<1>4. MarksFirst /\ MarkedIsHeld /\ NothingForgotten
  BY DEF Init, DispatcherInit, MarksFirst, At, MarkedIsHeld, NothingForgotten
<1> QED
  BY <1>3, <1>4 DEF PipelineInv

LEMMA PipelineStep == PipelineInv /\ IngestorInv /\ [Next]_vars => PipelineInv'
<1> SUFFICES ASSUME PipelineInv, IngestorInv, [Next]_vars PROVE PipelineInv'
  OBVIOUS
<1>0. /\ DispatcherInv /\ MarkedIsHeld /\ NothingForgotten /\ IngestorInv'
      /\ inputs \in 0 .. MaxInputs /\ accepted \subseteq ContractEvent
  BY StepKeeps DEF PipelineInv, TypeOK, DispatcherInv
<1>1. ASSUME NothingLost, DispatcherInv', MarkedIsHeld', inputs' \in 0 .. MaxInputs,
             UNCHANGED accepted
      PROVE  PipelineInv'
  BY <1>0, <1>1, TypesFrom, ForgottenStays DEF PipelineInv, DispatcherInv
<1>2. ASSUME UNCHANGED dispatcher
      PROVE  NothingLost /\ DispatcherInv' /\ MarkedIsHeld'
  <2>1. Held' = Held /\ dedup' = dedup /\ dispatches' = dispatches
    BY <1>2 DEF dispatcher, Held, DeadLettered, Deliveries, Taken
  <2>2. NothingLost /\ MarksFirst'
    BY <1>0, <2>1, IdleTasksKeep
  <2>3. DispatcherType'
    BY <1>0, <1>2 DEF dispatcher, DispatcherInv, DispatcherType, DrainAt
  <2> QED
    BY <1>0, <2>1, <2>2, <2>3, MarkedStays DEF DispatcherInv
<1>10. Input => inputs' \in 0 .. MaxInputs
  BY <1>0, PipelineAssumption DEF Input
<1>3. ASSUME NEW e \in ContractEvent, Receive(e) PROVE PipelineInv'
  <2>1. CASE ~ Accepted(e)
    BY <1>0, <1>1, <1>2, <1>3, <2>1 DEF Receive
  <2>2. CASE Accepted(e)
    <3>1. Spawn(e) /\ accepted' = accepted \cup {e} /\ inputs' \in 0 .. MaxInputs
      BY <1>3, <2>2, <1>10 DEF Receive
    <3>2. /\ NothingLost /\ DispatcherInv' /\ MarkedIsHeld'
          /\ \A u \in Url : [event |-> e, url |-> u] \in InFlight'
      BY <1>0, <3>1, SpawnKeeps
    <3>3. NothingForgotten'
      <4> SUFFICES ASSUME NEW f \in accepted', NEW u \in Url
                   PROVE  [event |-> f, url |-> u] \in InFlight' \cup Held'
        BY DEF NothingForgotten, Held
      <4>1. CASE f = e
        BY <3>2, <4>1
      <4>2. CASE f \in accepted
        BY <1>0, <3>2, <4>2 DEF NothingForgotten, NothingLost, Held
      <4> QED
        BY <3>1, <4>1, <4>2
    <3> QED
      BY <1>0, <3>1, <3>2, <3>3, TypesFrom DEF PipelineInv, DispatcherInv
  <2> QED
    BY <2>1, <2>2
<1>4. ASSUME NEW t \in Task, Work(t) PROVE PipelineInv'
  BY <1>0, <1>1, <1>4, TaskStepKeeps DEF Work
<1>9. ASSUME NEW e \in ContractEvent, Replay(e) PROVE PipelineInv'
  <2>1. Spawn(e) /\ accepted' = accepted /\ inputs' \in 0 .. MaxInputs
    BY <1>9, <1>10 DEF Replay
  <2>2. NothingLost /\ DispatcherInv' /\ MarkedIsHeld'
    BY <1>0, <2>1, SpawnKeeps
  <2> QED
    BY <1>1, <2>1, <2>2
<1>5. CASE StartDrain
  BY <1>0, <1>1, <1>5, <1>10, IdleStepKeeps DEF StartDrain
<1>6. CASE ContinueDrain
  BY <1>0, <1>1, <1>6, IdleStepKeeps DEF ContinueDrain
<1>11. CASE Disturb
  BY <1>0, <1>1, <1>10, <1>11, IdleStepKeeps DEF Disturb
<1>7. CASE End
  <2>1. PICK shutdown \in BOOLEAN : Restart(shutdown)
    BY <1>7 DEF End
  <2>2. NothingLost /\ DispatcherInv' /\ MarkedIsHeld'
    BY <1>0, <2>1, RestartKeeps
  <2> QED
    BY <1>1, <1>7, <1>10, <2>2 DEF End
<1>8. CASE UNCHANGED vars
  BY <1>0, <1>1, <1>2, <1>8 DEF vars
<1> QED
  BY <1>3, <1>4, <1>5, <1>6, <1>7, <1>8, <1>9, <1>11 DEF Next

LEMMA PipelineInvariant == Spec => []PipelineInv
<1> QED
  BY PipelineInitially, PipelineStep, IngestorInvariant, PTL DEF Spec

(* Ingestor, store, tasks, drain and both dead-letter queues keep their     *)
(* types through every interleaving and restart.                            *)
THEOREM PipelineTypeCorrect == Spec => []TypeOK
<1>1. PipelineInv => TypeOK
  BY DEF PipelineInv
<1> QED
  BY <1>1, PipelineInvariant, PTL

(* Every delivery of an accepted event is under way, dead-lettered, in a    *)
(* drain, received or lost in one of the known ways, for any number of      *)
(* tasks, URLs and retries and any depth of the queue, whatever the cache   *)
(* forgets and however dispatches overlap: a task that finds the dedup mark *)
(* may go because another task past the check, or what that task left       *)
(* behind, holds its deliveries.                                            *)
THEOREM NothingIsForgotten == Spec => []NothingForgotten
<1>1. PipelineInv => NothingForgotten
  BY DEF PipelineInv
<1> QED
  BY <1>1, PipelineInvariant, PTL
=============================================================================
