---------------------- MODULE MCProofStellContract ----------------------
(***************************************************************************)
(* Instances of ProofStellContract for TLC.                                *)
(***************************************************************************)
EXTENDS ProofStellContract, TLC

Limits(rate, burst) ==
    [per_address_per_second |-> rate, per_address_burst |-> burst,
     per_issuer_per_second |-> rate, per_issuer_burst |-> burst]

Symmetry == Permutations(Hash)

(* Never exhausted by the calls of an instance. *)
Generous == Limits(1, 6)

(* The two scopes differ, so that either one can be the one that rejects. *)
AddressTight == [per_address_per_second |-> 1, per_address_burst |-> 1,
                 per_issuer_per_second |-> 2, per_issuer_burst |-> 2]
IssuerTight == [per_address_per_second |-> 2, per_address_burst |-> 3,
                per_issuer_per_second |-> 1, per_issuer_burst |-> 1]

OnlyGenerous == {Generous}
TightConfigs == {AddressTight, IssuerTight}
=============================================================================
