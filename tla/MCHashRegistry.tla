--------------------------- MODULE MCHashRegistry ---------------------------
EXTENDS HashRegistry
CONSTANTS c1, c2
const_Client == {c1, c2}
const_HexLength == [SHA256 |-> 2, SHA512 |-> 4]
(* One client submits any string, the other two of the four hashes. *)
const_Input == (c1 :> StringUpTo(4)) @@ (c2 :> {<<"0", "a">>, <<"a", "a">>})
=============================================================================
