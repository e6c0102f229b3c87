-------------------------- MODULE MCEventPipeline --------------------------
(* Events of one aggregate.  EventsPerLedger is 2, so the one of ledger 1   *)
(* with index 3 has the sequence of the second of ledger 2, and is beyond   *)
(* the first.  The last one has no hashes.                                  *)
EXTENDS EventPipeline

CONSTANTS a1, tx1, tx2

On(tx, ledger, index, named) ==
    [tx |-> tx, aggregate |-> a1, ledger |-> ledger, index |-> index, named |-> named]

Events == {On(tx1, 1, 3, TRUE), On(tx2, 2, 0, TRUE), On(tx2, 2, 1, TRUE), On(tx2, 3, 0, FALSE)}
=============================================================================
