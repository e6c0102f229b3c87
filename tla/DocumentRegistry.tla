------------------------- MODULE DocumentRegistry -------------------------
(***************************************************************************)
(* What the ProofStell contract promises about documents, with no rate     *)
(* limits, events, governance or clock: a hash is registered at most once, *)
(* its issuer and owner never change, only its issuer can revoke it, a     *)
(* revocation is final, and a batch takes effect as a whole or not at all. *)
(***************************************************************************)
CONSTANTS Address, Hash, None

VARIABLE registry

(* What stands under a hash that `issuer' registered. *)
Entry(issuer, status) == [issuer : {issuer}, owner : Address, status : {status}]

Init == registry = [h \in Hash |-> None]

(* One issuer registers a set of new hashes in one step. *)
Register(issuer, S) ==
    /\ \A h \in S : registry[h] = None
    /\ \E new \in [S -> Entry(issuer, "Active")] :
          registry' = [h \in Hash |-> IF h \in S THEN new[h] ELSE registry[h]]

(* One issuer revokes a set of its own active documents in one step. *)
Revoke(issuer, S) ==
    /\ \A h \in S : registry[h] \in Entry(issuer, "Active")
    /\ registry' = [h \in Hash |->
                      IF h \in S THEN [registry[h] EXCEPT !.status = "Revoked"]
                                 ELSE registry[h]]

Next == \E issuer \in Address, S \in SUBSET Hash :
            Register(issuer, S) \/ Revoke(issuer, S)

Spec == Init /\ [][Next]_registry
=============================================================================
