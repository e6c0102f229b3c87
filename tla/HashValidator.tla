---------------------------- MODULE HashValidator ----------------------------
(***************************************************************************)
(* The validators of src/hash_validator.rs.  A string is a sequence of     *)
(* characters, of which a handful stand for their kind: two lower-case hex *)
(* digits, an upper-case one, white space and anything else.  Lengths are  *)
(* scaled down by HexLength.  A validator returns "Ok", the name of a      *)
(* ValidationError, or "panic".                                            *)
(***************************************************************************)
EXTENDS Integers, Sequences, FiniteSets, SequencesExt

CONSTANTS
    HexLength,          \* HashAlgorithm::hex_length, for SHA256 and SHA512
    DebugAssertions     \* whether the build has debug assertions

ASSUME HashAssumption ==
    /\ DOMAIN HexLength = {"SHA256", "SHA512"}
    /\ \A a \in DOMAIN HexLength : HexLength[a] \in Nat \ {0} /\ HexLength[a] % 2 = 0
    /\ HexLength["SHA256"] < HexLength["SHA512"]
    /\ DebugAssertions \in BOOLEAN

LowerHex == {"0", "a"}
Char == LowerHex \cup {"A", " ", "g"}

(* The strings of up to n characters. *)
StringUpTo(n) == UNION {[1 .. k -> Char] : k \in 0 .. n}

AllHex(s) == \A i \in DOMAIN s : s[i] \in LowerHex

is_canonical_shape_with_len(s, len) == Len(s) = len /\ AllHex(s)
is_canonical_shape(s) == is_canonical_shape_with_len(s, HexLength["SHA256"])
is_canonical(s, algorithm) == is_canonical_shape_with_len(s, HexLength[algorithm])

(* trim and to_lowercase *)
Lower(ch) == IF ch = "A" THEN "a" ELSE ch

normalize(s) ==
    LET solid == {i \in DOMAIN s : s[i] # " "}
        trimmed == IF solid = {} THEN <<>> ELSE SubSeq(s, Min(solid), Max(solid))
    IN [i \in DOMAIN trimmed |-> Lower(trimmed[i])]

(* The legacy validators judge the normalized string. *)
validate_with_length(s, len) ==
    LET normalized == normalize(s)
    IN CASE normalized = <<>> -> "EmptyHash"
         [] Len(normalized) = len -> IF AllHex(normalized) THEN "Ok" ELSE "InvalidCharacter"
         [] OTHER -> "WrongLength"

validate_sha256(s) == validate_with_length(s, HexLength["SHA256"])

(* all_valid: 0xFF for the empty string, then the bits of is_hex and-ed.    *)
AllValid(s) ==
    LET mask[n \in 0 .. Len(s)] ==
            IF n = 0 THEN 255 ELSE IF s[n] \in LowerHex THEN mask[n - 1] % 2 ELSE 0
    IN mask[Len(s)]

(* Choice::from of the subtle crate asserts that its argument is 0 or 1, in *)
(* a build with debug assertions.                                           *)
ChoicePanics(mask) == DebugAssertions /\ mask \notin {0, 1}

validate_with_length_constant_time(s, len) ==
    CASE ChoicePanics(AllValid(s)) -> "panic"
      [] s = <<>> /\ ~ ChoicePanics(AllValid(s)) -> "EmptyHash"
      [] s # <<>> /\ Len(s) # len -> "WrongLength"
      [] s # <<>> /\ Len(s) = len -> IF AllValid(s) = 0 THEN "InvalidCharacter" ELSE "Ok"

validate_sha256_constant_time(s) == validate_with_length_constant_time(s, HexLength["SHA256"])

(* CanonicalHash::new *)
CanonicalHashUnguarded(s) == validate_sha256_constant_time(s)

CanonicalHash(s) ==
    CASE s = <<>> -> "EmptyHash"
      [] s # <<>> /\ ~ is_canonical_shape(s) ->
            IF AllHex(s) THEN "WrongLength" ELSE "NotCanonical"
      [] is_canonical_shape(s) -> validate_sha256_constant_time(s)

validate_for_contract(s) ==
    CASE s = <<>> -> "EmptyHash"
      [] s # <<>> /\ ~ is_canonical_shape(s) ->
            (CASE Len(s) = HexLength["SHA512"] -> "UnsupportedAlgorithm"
               [] Len(s) = HexLength["SHA256"] -> "NotCanonical"
               [] OTHER -> "WrongLength")
      [] is_canonical_shape(s) -> validate_sha256_constant_time(s)

Nibble(ch) == IF ch = "0" THEN 0 ELSE 10
Digit(n) == IF n = 0 THEN "0" ELSE "a"

(* hex_to_bytes32 validates the normalized string and converts the raw one, *)
(* pair by pair until one is not hex.  A pair past the 32nd would be        *)
(* written out of bounds, and a last character without a pair read so.      *)
HexPrefix(s) == Max({k \in 0 .. Len(s) : AllHex(SubSeq(s, 1, k))})

hex_to_bytes32_outcome(s) ==
    LET legacy == validate_sha256(s)
    IN CASE legacy # "Ok" -> legacy
         [] legacy = "Ok" /\ HexPrefix(s) < Len(s) ->
               IF HexPrefix(s) >= HexLength["SHA256"] + 2 THEN "panic" ELSE "InvalidCharacter"
         [] legacy = "Ok" /\ HexPrefix(s) = Len(s) ->
               IF Len(s) = HexLength["SHA256"] THEN "Ok" ELSE "panic"

hex_to_bytes32(s) ==
    [i \in 1 .. HexLength["SHA256"] \div 2 |-> 16 * Nibble(s[2 * i - 1]) + Nibble(s[2 * i])]

(* CanonicalHash::from_bytes *)
from_bytes(bytes) ==
    [i \in 1 .. 2 * Len(bytes) |->
        LET byte == bytes[(i + 1) \div 2]
        IN Digit(IF i % 2 = 1 THEN byte \div 16 ELSE byte % 16)]

(* to_stellar_memo_hash: detect_algorithm goes by the length alone.         *)
to_stellar_memo_hash(s) ==
    IF Len(s) = HexLength["SHA256"] THEN hex_to_bytes32_outcome(s) ELSE "InvalidStellarMemoFormat"

=============================================================================
