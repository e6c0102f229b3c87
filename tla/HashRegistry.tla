---------------------------- MODULE HashRegistry ----------------------------
(***************************************************************************)
(* Clients that submit strings concurrently: each string is validated by   *)
(* CanonicalHash::new and, if it is canonical, registered.  register scans *)
(* the DashMap and inserts afterwards; whether the scan meets a hash is    *)
(* decided when it visits the shard of that hash, which is one step here.  *)
(***************************************************************************)
EXTENDS HashValidator

CONSTANTS
    Client,
    Input,              \* Input[c]: the strings that client c submits
    NoString

ASSUME InputAssumption ==
    /\ DOMAIN Input = Client
    /\ \A c \in Client : Input[c] \subseteq Seq(Char) /\ NoString \notin Input[c]

VARIABLES
    inner,              \* the keys of the DashMap
    pc, input, outcome,
    registeredBefore    \* history: input[c] has been there since c's call

vars == <<inner, pc, input, outcome, registeredBefore>>

Init ==
    /\ inner = {}
    /\ pc = [c \in Client |-> "idle"]
    /\ input = [c \in Client |-> NoString]
    /\ outcome = [c \in Client |-> "Ok"]
    /\ registeredBefore = [c \in Client |-> FALSE]

contains(s) == s \in inner

(* Client c goes on to step `to' with the given outcome. *)
Goto(c, from, to, result) ==
    /\ pc[c] = from
    /\ pc' = [pc EXCEPT ![c] = to]
    /\ outcome' = [outcome EXCEPT ![c] = result]

Submit(c, s) ==
    /\ Goto(c, "idle", IF CanonicalHash(s) = "Ok" THEN "scan" ELSE "done", CanonicalHash(s))
    /\ input' = [input EXCEPT ![c] = s]
    /\ registeredBefore' = [registeredBefore EXCEPT ![c] = s \in inner]
    /\ UNCHANGED inner

ScanUpToFirst(c) ==
    LET seen == \E first \in inner : first = input[c] /\ Cardinality(inner) = 1
    IN /\ IF seen THEN Goto(c, "scan", "done", "AlreadyRegistered")
                  ELSE Goto(c, "scan", "insert", "Ok")
       /\ UNCHANGED <<inner, input, registeredBefore>>

Scan(c) ==
    LET seen == \E existing \in inner : existing = input[c]
    IN /\ IF seen THEN Goto(c, "scan", "done", "AlreadyRegistered")
                  ELSE Goto(c, "scan", "insert", "Ok")
       /\ UNCHANGED <<inner, input, registeredBefore>>

Insert(c) ==
    /\ Goto(c, "insert", "done", "Ok")
    /\ inner' = inner \cup {input[c]}
    /\ UNCHANGED <<input, registeredBefore>>

Return(c) ==
    /\ Goto(c, "done", "idle", "Ok")
    /\ input' = [input EXCEPT ![c] = NoString]
    /\ registeredBefore' = [registeredBefore EXCEPT ![c] = FALSE]
    /\ UNCHANGED inner

Clear ==
    /\ inner # {}
    /\ inner' = {}
    /\ registeredBefore' = [c \in Client |-> FALSE]
    /\ UNCHANGED <<pc, input, outcome>>

Next ==
    \/ \E c \in Client :
          \/ \E s \in Input[c] : Submit(c, s)
          \/ Scan(c) \/ Insert(c) \/ Return(c)
    \/ Clear

Spec == Init /\ [][Next]_vars

-----------------------------------------------------------------------------
(* Properties *)

(* "routing every contract path through this function" keeps the policy     *)
(* from diverging: whatever string is submitted, CanonicalHash::new, the    *)
(* contract's policy, the conversion to bytes (which validates a normalized *)
(* copy of what it converts) and the memo accept the canonical strings and  *)
(* no other, convert them without loss, and never panic.  Of the two other  *)
(* public validators, the constant-time one accepts the same strings, and   *)
(* panics in one case, the empty string in a build with debug assertions;   *)
(* the legacy one accepts a string exactly when the strict ones accept its  *)
(* normalized copy.                                                         *)
ValidatorsAgree ==
    \A c \in Client : input[c] # NoString =>
        LET s == input[c]
            accepted == is_canonical(s, "SHA256")
            outcomes == {CanonicalHash(s), validate_for_contract(s),
                         hex_to_bytes32_outcome(s), to_stellar_memo_hash(s)}
            constantTime == validate_sha256_constant_time(s)
        IN /\ accepted => outcomes = {"Ok"} /\ from_bytes(hex_to_bytes32(s)) = s
           /\ ~ accepted => "Ok" \notin outcomes
           /\ "panic" \notin outcomes
           /\ constantTime = "Ok" <=> accepted
           /\ constantTime = "panic" <=> s = <<>> /\ DebugAssertions
           /\ validate_sha256(s) = "Ok" <=> CanonicalHash(normalize(s)) = "Ok"
           /\ validate_sha256(s) # "panic"

(* "Returns AlreadyRegistered if it already exists": a hash that was there  *)
(* when the call began, and was not cleared since, is never registered a    *)
(* second time; two calls can both succeed only by overlapping.             *)
SecondOnlyByOverlap ==
    \A c \in Client :
        pc[c] = "done" /\ outcome[c] = "Ok" => ~ registeredBefore[c]
=============================================================================
