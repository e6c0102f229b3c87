------------------------- MODULE HashRegistry_proofs -------------------------
(***************************************************************************)
(* Theorems about src/hash_validator.rs, for any number of clients and     *)
(* strings of any length: the validators accept the same strings, by what  *)
(* each computes (the mask of the constant-time loop, the trimmed copy,    *)
(* the prefix that is converted), and what register promises although its  *)
(* scan and its insertion are not one step.                                *)
(***************************************************************************)
EXTENDS HashRegistry, SequenceTheorems, WellFoundedInduction, TLAPS

-----------------------------------------------------------------------------
(* Numbers *)

LEMMA LeastExists ==
    ASSUME NEW S \in SUBSET Nat, S # {}
    PROVE  \E k \in S : \A j \in S : k <= j
<1> DEFINE R == OpToRel(<, Nat)
<1>1. IsWellFoundedOn(R, Nat)
  BY NatLessThanWellFounded
<1>2. \A i, j \in Nat : <<i, j>> \notin R => j <= i
  <2>1. \A i, j \in Nat : <<i, j>> \notin R => ~ (i < j)
    BY Zenon DEF OpToRel
  <2> HIDE DEF R
  <2> QED
    BY <2>1, SMT
<1> HIDE DEF R
<1>3. PICK k \in S : \A j \in S : <<j, k>> \notin R
  BY <1>1, WFMin
<1> QED
  BY <1>2, <1>3, Zenon

LEMMA GreatestExists ==
    ASSUME NEW n \in Nat, NEW S \in SUBSET (0 .. n), S # {}
    PROVE  \E k \in S : \A j \in S : j <= k
<1> DEFINE T == {i \in 0 .. n : n - i \in S}
<1>1. T \in SUBSET Nat
  OBVIOUS
<1>2. T # {}
  <2>1. PICK j \in S : TRUE
    OBVIOUS
  <2>2. n - j \in 0 .. n /\ n - (n - j) = j
    BY <2>1
  <2> QED
    BY <2>1, <2>2
<1>3. PICK k \in T : \A j \in T : k <= j
  <2> HIDE DEF T
  <2> QED
    BY <1>1, <1>2, LeastExists
<1>4. n - k \in S /\ k \in 0 .. n
  BY <1>3
<1>5. ASSUME NEW j \in S PROVE j <= n - k
  <2>1. j \in 0 .. n
    OBVIOUS
  <2>2. n - j \in 0 .. n /\ n - (n - j) = j
    BY <2>1
  <2>3. n - j \in T
    BY <2>2
  <2>4. k <= n - j
    <3> HIDE DEF T
    <3> QED
      BY <1>3, <2>3
  <2> QED
    BY <1>4, <2>1, <2>4
<1> QED
  BY <1>4, <1>5

LEMMA MinMax ==
    ASSUME NEW n \in Nat, NEW S \in SUBSET (0 .. n), S # {}
    PROVE  /\ Min(S) \in S /\ \A j \in S : Min(S) <= j
           /\ Max(S) \in S /\ \A j \in S : Max(S) >= j
<1>1. \E k \in S : \A j \in S : k <= j
  <2>1. S \in SUBSET Nat
    OBVIOUS
  <2> QED
    BY <2>1, LeastExists
<1>2. \E k \in S : \A j \in S : k >= j
  <2>1. PICK k \in S : \A j \in S : j <= k
    BY GreatestExists
  <2>2. \A j \in S : k >= j
    BY <2>1
  <2> QED
    BY <2>2
<1>3. Min(S) \in S /\ \A j \in S : Min(S) <= j
  BY <1>1, Zenon DEF Min
<1>4. Max(S) \in S /\ \A j \in S : Max(S) >= j
  BY <1>2, Zenon DEF Max
<1> QED
  BY <1>3, <1>4

LEMMA CountingUp ==
    ASSUME NEW n \in Nat, NEW P, 0 \in P, \A i \in 1 .. n : i - 1 \in P => i \in P
    PROVE  n \in P
<1> DEFINE T == {i \in 0 .. n : i \notin P}
<1>1. T \in SUBSET Nat
  OBVIOUS
<1>2. T = {}
  <2> SUFFICES ASSUME T # {} PROVE FALSE
    OBVIOUS
  <2>1. PICK m \in T : \A k \in T : m <= k
    <3> HIDE DEF T
    <3> QED
      BY <1>1, LeastExists
  <2>2. m \in 0 .. n /\ m \notin P
    OBVIOUS
  <2>3. m \in 1 .. n /\ m - 1 \in 0 .. n
    BY <2>2
  <2>4. m - 1 \notin T
    <3> HIDE DEF T
    <3> QED
      BY <2>1, <2>3
  <2> QED
    BY <2>2, <2>3, <2>4
<1> QED
  BY <1>2

-----------------------------------------------------------------------------
(* The mask of the constant-time validator *)

(* The masks g of the loop over s. *)
MaskOf(g, s) ==
    g = [n \in 0 .. Len(s) |->
            IF n = 0 THEN 255 ELSE IF s[n] \in LowerHex THEN g[n - 1] % 2 ELSE 0]

LEMMA MaskExists ==
    ASSUME NEW s \in Seq(Char)
    PROVE  \E g : MaskOf(g, s)
<1> DEFINE g == [n \in 0 .. Len(s) |->
                   IF n = 0 THEN 255 ELSE IF \A i \in 1 .. n : s[i] \in LowerHex THEN 1 ELSE 0]
           h == [n \in 0 .. Len(s) |->
                   IF n = 0 THEN 255 ELSE IF s[n] \in LowerHex THEN g[n - 1] % 2 ELSE 0]
<1>0. Len(s) \in Nat
  OBVIOUS
<1>1. ASSUME NEW n \in 0 .. Len(s) PROVE g[n] = h[n]
  <2>1. CASE n = 0
    BY <2>1
  <2>2. CASE n # 0
    <3>1. n - 1 \in 0 .. Len(s)
      BY <1>0, <2>2
    <3>2. (\A i \in 1 .. n : s[i] \in LowerHex)
             <=> s[n] \in LowerHex /\ \A i \in 1 .. n - 1 : s[i] \in LowerHex
      <4>1. 1 .. n = (1 .. n - 1) \cup {n}
        BY <1>0, <2>2
      <4> QED
        BY <4>1, Zenon
    <3>3. g[n - 1] = IF n - 1 = 0 THEN 255
                     ELSE IF \A i \in 1 .. n - 1 : s[i] \in LowerHex THEN 1 ELSE 0
      BY <3>1, Zenon
    <3>4. g[n - 1] % 2 = IF \A i \in 1 .. n - 1 : s[i] \in LowerHex THEN 1 ELSE 0
      <4>1. n - 1 = 0 => \A i \in 1 .. n - 1 : s[i] \in LowerHex
        BY <1>0, <2>2
      <4>2. 255 % 2 = 1 /\ 1 % 2 = 1 /\ 0 % 2 = 0
        OBVIOUS
      <4> HIDE DEF g
      <4> QED
        BY <3>3, <4>1, <4>2
    <3>5. g[n] = IF \A i \in 1 .. n : s[i] \in LowerHex THEN 1 ELSE 0
      BY <2>2, Zenon
    <3>6. h[n] = IF s[n] \in LowerHex THEN g[n - 1] % 2 ELSE 0
      BY <2>2
    <3> HIDE DEF g, h
    <3> QED
      BY <3>2, <3>4, <3>5, <3>6
  <2> QED
    BY <2>1, <2>2
<1>2. g = h
  BY <1>1
<1>3. MaskOf(g, s)
  BY <1>2 DEF MaskOf
<1> QED
  BY <1>3, Zenon

(* 255 for the empty string, then 1 as long as all characters are hex.      *)
LEMMA MaskIs ==
    ASSUME NEW s \in Seq(Char)
    PROVE  AllValid(s) = IF s = <<>> THEN 255 ELSE IF AllHex(s) THEN 1 ELSE 0
<1> DEFINE g == CHOOSE g : MaskOf(g, s)
<1>0. Len(s) \in Nat /\ DOMAIN s = 1 .. Len(s) /\ (s = <<>> <=> Len(s) = 0)
  OBVIOUS
<1>1. AllValid(s) = g[Len(s)]
  BY Zenon DEF AllValid, MaskOf
<1>2. MaskOf(g, s)
  BY MaskExists, Zenon
<1> HIDE DEF g
<1>3. \A n \in 0 .. Len(s) :
        g[n] = IF n = 0 THEN 255 ELSE IF s[n] \in LowerHex THEN g[n - 1] % 2 ELSE 0
  BY <1>2 DEF MaskOf
<1> DEFINE W(n) == IF n = 0 THEN 255 ELSE IF \A i \in 1 .. n : s[i] \in LowerHex THEN 1 ELSE 0
           P == {n \in 0 .. Len(s) : g[n] = W(n)}
<1>4. 0 \in P
  BY <1>0, <1>3
<1>5. ASSUME NEW n \in 1 .. Len(s), n - 1 \in P PROVE n \in P
  <2>1. n \in 0 .. Len(s) /\ n - 1 \in 0 .. Len(s) /\ n # 0
    BY <1>0
  <2>2. g[n] = IF s[n] \in LowerHex THEN g[n - 1] % 2 ELSE 0
    BY <1>3, <2>1
  <2>3. (\A i \in 1 .. n : s[i] \in LowerHex)
           <=> s[n] \in LowerHex /\ \A i \in 1 .. n - 1 : s[i] \in LowerHex
    <3>1. 1 .. n = (1 .. n - 1) \cup {n}
      BY <1>0
    <3> QED
      BY <3>1, Zenon
  <2>4. g[n - 1] = IF n - 1 = 0 THEN 255
                   ELSE IF \A i \in 1 .. n - 1 : s[i] \in LowerHex THEN 1 ELSE 0
    BY <1>5, Zenon
  <2>5. g[n - 1] % 2 = IF \A i \in 1 .. n - 1 : s[i] \in LowerHex THEN 1 ELSE 0
    <3>1. n - 1 = 0 => \A i \in 1 .. n - 1 : s[i] \in LowerHex
      BY <1>0
    <3>2. 255 % 2 = 1 /\ 1 % 2 = 1 /\ 0 % 2 = 0
      OBVIOUS
    <3> QED
      BY <2>4, <3>1, <3>2
  <2>6. g[n] = IF \A i \in 1 .. n : s[i] \in LowerHex THEN 1 ELSE 0
    BY <2>2, <2>3, <2>5, Zenon
  <2> QED
    BY <2>1, <2>6, Zenon
<1>6. Len(s) \in P
  <2> HIDE DEF P
  <2> QED
    BY <1>0, <1>4, <1>5, CountingUp
<1>7. g[Len(s)] = W(Len(s))
  BY <1>6
<1> QED
  BY <1>0, <1>1, <1>7, Zenon DEF AllHex

-----------------------------------------------------------------------------
(* Strings *)

LEMMA FunctionIsSeq ==
    ASSUME NEW S, NEW n \in Nat, NEW f \in [1 .. n -> S]
    PROVE  f \in Seq(S) /\ Len(f) = n
<1>1. f \in Seq(S)
  BY SeqDef
<1>2. Len(f) \in Nat /\ DOMAIN f = 1 .. Len(f) /\ DOMAIN f = 1 .. n
  BY <1>1, LenProperties
<1>3. 1 .. Len(f) = 1 .. n
  BY <1>2
<1>4. Len(f) = n
  BY <1>2, <1>3
<1> QED
  BY <1>1, <1>4

(* Positions of a string of l characters. *)
LEMMA Positions ==
    ASSUME NEW l \in Nat
    PROVE  /\ 1 .. l \subseteq 0 .. l
           /\ \A m, n, i \in 1 .. l : m <= i /\ n >= i => n \in m .. l /\ i <= n
           /\ \A m \in 1 .. l : m <= 1 => m = 1
           /\ \A n \in 1 .. l : l <= n => n = l
           /\ \A n \in 1 .. l : n - 1 + 1 = n /\ n \in 1 .. n /\ 1 \in 1 .. n /\ 1 \in 1 .. l
           /\ \A m \in 1 .. l : \A n \in m .. l : n \in 1 .. l
  OBVIOUS

LEMMA HexNumbers ==
    /\ HexLength["SHA256"] \in Nat /\ HexLength["SHA256"] > 0 /\ HexLength["SHA256"] % 2 = 0
    /\ HexLength["SHA512"] \in Nat /\ HexLength["SHA256"] < HexLength["SHA512"]
  BY HashAssumption

(* A part of a string. *)
LEMMA PartOf ==
    ASSUME NEW s \in Seq(Char), NEW m \in 1 .. Len(s), NEW n \in m .. Len(s)
    PROVE  /\ SubSeq(s, m, n) \in Seq(Char)
           /\ Len(SubSeq(s, m, n)) = n - m + 1
           /\ DOMAIN SubSeq(s, m, n) = 1 .. n - m + 1
           /\ \A i \in 1 .. n - m + 1 : SubSeq(s, m, n)[i] = s[m + i - 1]
<1>1. m \in Int /\ n \in Int /\ m <= n /\ \A i \in m .. n : s[i] \in Char
  BY LenProperties
<1>2. /\ SubSeq(s, m, n) \in Seq(Char)
      /\ Len(SubSeq(s, m, n)) = n - m + 1
      /\ \A i \in 1 .. n - m + 1 : SubSeq(s, m, n)[i] = s[m + i - 1]
  BY <1>1, SubSeqProperties
<1>3. DOMAIN SubSeq(s, m, n) = 1 .. Len(SubSeq(s, m, n))
  BY <1>2, LenProperties
<1> QED
  BY <1>2, <1>3

(* What is left of a string with something in it. *)
LEMMA Trimmed ==
    ASSUME NEW s \in Seq(Char), NEW i \in 1 .. Len(s), s[i] # " "
    PROVE  \E m \in 1 .. Len(s) : \E n \in m .. Len(s) :
              /\ m <= i /\ i <= n
              /\ \A j \in 1 .. Len(s) : s[j] # " " => m <= j /\ j <= n
              /\ normalize(s) = [j \in 1 .. n - m + 1 |-> Lower(s[m + j - 1])]
<1> DEFINE solid == {j \in DOMAIN s : s[j] # " "}
           m == Min(solid)
           n == Max(solid)
<1>1. Len(s) \in Nat /\ DOMAIN s = 1 .. Len(s)
  BY LenProperties
<1>2. solid \in SUBSET (0 .. Len(s)) /\ i \in solid
  <2>1. solid \subseteq DOMAIN s /\ i \in solid
    BY <1>1
  <2>2. 1 .. Len(s) \subseteq 0 .. Len(s)
    BY <1>1, Positions, Zenon
  <2> QED
    BY <1>1, <2>1, <2>2, Zenon
<1>3. /\ m \in solid /\ \A j \in solid : m <= j
      /\ n \in solid /\ \A j \in solid : n >= j
  <2> HIDE DEF solid
  <2> QED
    BY <1>1, <1>2, MinMax
<1>4. normalize(s) = [j \in DOMAIN SubSeq(s, m, n) |-> Lower(SubSeq(s, m, n)[j])]
  BY <1>2 DEF normalize
<1>5. \A j \in 1 .. Len(s) : s[j] # " " => j \in solid
  BY <1>1
<1>6. m \in 1 .. Len(s) /\ n \in 1 .. Len(s)
  BY <1>1, <1>3
<1> HIDE DEF solid, m, n
<1>7. n \in m .. Len(s) /\ m <= i /\ i <= n
  <2>1. m <= i /\ n >= i
    BY <1>2, <1>3, Zenon
  <2> QED
    BY <1>1, <1>6, <2>1, Positions, Zenon
<1>8. \A j \in 1 .. Len(s) : s[j] # " " => m <= j /\ j <= n
  BY <1>3, <1>5, <1>6
<1>9. normalize(s) = [j \in 1 .. n - m + 1 |-> Lower(s[m + j - 1])]
  BY <1>4, <1>6, <1>7, PartOf
<1> QED
  BY <1>6, <1>7, <1>8, <1>9

LEMMA LowerHexIsSolid ==
    ASSUME NEW ch \in LowerHex
    PROVE  ch \in Char /\ ch # " " /\ Lower(ch) = ch
  BY DEF LowerHex, Char, Lower

(* A string of lower-case hex digits is normal. *)
LEMMA HexIsNormal ==
    ASSUME NEW s \in Seq(Char), AllHex(s)
    PROVE  normalize(s) = s
<1>1. Len(s) \in Nat /\ DOMAIN s = 1 .. Len(s) /\ s \in [1 .. Len(s) -> Char]
  BY LenProperties
<1>2. \A i \in 1 .. Len(s) : s[i] # " " /\ Lower(s[i]) = s[i]
  BY <1>1, LowerHexIsSolid DEF AllHex
<1>3. CASE Len(s) = 0
  <2>1. s = <<>> /\ {i \in DOMAIN s : s[i] # " "} = {}
    BY <1>1, <1>3
  <2>2. normalize(s) = [i \in DOMAIN <<>> |-> Lower(<<>>[i])]
    BY <2>1 DEF normalize
  <2> QED
    BY <2>1, <2>2
<1>4. CASE Len(s) # 0
  <2>1. 1 \in 1 .. Len(s) /\ Len(s) \in 1 .. Len(s)
    BY <1>1, <1>4
  <2>2. PICK m \in 1 .. Len(s), n \in 1 .. Len(s) :
          /\ \A j \in 1 .. Len(s) : s[j] # " " => m <= j /\ j <= n
          /\ normalize(s) = [j \in 1 .. n - m + 1 |-> Lower(s[m + j - 1])]
    <3>1. PICK m \in 1 .. Len(s) : \E n \in m .. Len(s) :
             /\ \A j \in 1 .. Len(s) : s[j] # " " => m <= j /\ j <= n
             /\ normalize(s) = [j \in 1 .. n - m + 1 |-> Lower(s[m + j - 1])]
      BY <1>2, <2>1, Trimmed
    <3>2. PICK n \in m .. Len(s) :
             /\ \A j \in 1 .. Len(s) : s[j] # " " => m <= j /\ j <= n
             /\ normalize(s) = [j \in 1 .. n - m + 1 |-> Lower(s[m + j - 1])]
      BY <3>1
    <3>3. n \in 1 .. Len(s)
      BY <1>1
    <3> QED
      BY <3>2, <3>3
  <2>3. m <= 1 /\ Len(s) <= n
    BY <1>2, <2>1, <2>2
  <2>4. m = 1 /\ n = Len(s)
    BY <1>1, <2>2, <2>3, Positions, Zenon
  <2>5. n - m + 1 = Len(s) /\ \A j \in 1 .. Len(s) : m + j - 1 = j
    BY <1>1, <2>4
  <2>6. normalize(s) = [j \in 1 .. Len(s) |-> s[j]]
    BY <1>2, <2>2, <2>5
  <2> QED
    BY <1>1, <2>6
<1> QED
  BY <1>3, <1>4

(* The hex digits that a string begins with survive trimming. *)
LEMMA PrefixSurvives ==
    ASSUME NEW s \in Seq(Char), NEW k \in 1 .. Len(s), AllHex(SubSeq(s, 1, k))
    PROVE  Len(normalize(s)) >= k
<1>0. Len(s) \in Nat
  BY LenProperties
<1>1. Len(s) \in Nat /\ 1 \in 1 .. Len(s) /\ 1 \in 1 .. k /\ k \in 1 .. k
  BY <1>0, Positions, Zenon
<1>2. \A i \in 1 .. k : s[i] # " "
  <2>1. k \in 1 .. Len(s) /\ k - 1 + 1 = k
    OBVIOUS
  <2>2. DOMAIN SubSeq(s, 1, k) = 1 .. k /\ \A i \in 1 .. k : SubSeq(s, 1, k)[i] = s[i]
    BY <1>1, <2>1, PartOf
  <2> QED
    BY <2>2, LowerHexIsSolid DEF AllHex
<1>3. s[k] # " " /\ s[1] # " "
  BY <1>1, <1>2
<1>4. PICK m \in 1 .. Len(s) : \E n \in m .. Len(s) :
         /\ \A j \in 1 .. Len(s) : s[j] # " " => m <= j /\ j <= n
         /\ normalize(s) = [j \in 1 .. n - m + 1 |-> Lower(s[m + j - 1])]
  BY <1>1, <1>3, Trimmed
<1>5. PICK n \in m .. Len(s) :
         /\ \A j \in 1 .. Len(s) : s[j] # " " => m <= j /\ j <= n
         /\ normalize(s) = [j \in 1 .. n - m + 1 |-> Lower(s[m + j - 1])]
  BY <1>4
<1>6. m = 1 /\ k <= n /\ n - m + 1 = n /\ n \in 1 .. Len(s)
  <2>1. m <= 1 /\ k <= n
    BY <1>1, <1>3, <1>5, Zenon
  <2>2. m = 1 /\ n \in 1 .. Len(s)
    BY <1>1, <1>4, <1>5, <2>1, Positions, Zenon
  <2>3. n - 1 + 1 = n
    BY <1>1, <2>2, Positions, Zenon
  <2> QED
    BY <2>1, <2>2, <2>3
<1>7. normalize(s) \in [1 .. n -> Char]
  <2>1. \A j \in 1 .. n : m + j - 1 \in 1 .. Len(s)
    BY <1>1, <1>6
  <2>2. \A j \in 1 .. n : Lower(s[m + j - 1]) \in Char
    BY <2>1, LenProperties DEF Lower, Char, LowerHex
  <2> QED
    BY <1>5, <1>6, <2>2
<1>8. Len(normalize(s)) = n
  BY <1>6, <1>7, FunctionIsSeq
<1> QED
  BY <1>6, <1>8

LEMMA PrefixIs ==
    ASSUME NEW s \in Seq(Char)
    PROVE  /\ HexPrefix(s) \in 0 .. Len(s)
           /\ AllHex(SubSeq(s, 1, HexPrefix(s)))
           /\ AllHex(s) => HexPrefix(s) = Len(s)
           /\ HexPrefix(s) = Len(s) => AllHex(s)
<1> DEFINE K == {k \in 0 .. Len(s) : AllHex(SubSeq(s, 1, k))}
<1>1. Len(s) \in Nat /\ DOMAIN s = 1 .. Len(s) /\ s \in [1 .. Len(s) -> Char]
  BY LenProperties
<1>2. K \in SUBSET (0 .. Len(s))
  OBVIOUS
<1>3. 0 \in K
  <2>1. \A i \in 1 .. 0 : s[i] \in Char
    OBVIOUS
  <2>2. SubSeq(s, 1, 0) \in Seq(Char) /\ Len(SubSeq(s, 1, 0)) = 0
    BY <2>1, SubSeqProperties
  <2>3. DOMAIN SubSeq(s, 1, 0) = 1 .. 0
    BY <2>2, LenProperties
  <2> QED
    BY <1>1, <2>3 DEF AllHex
<1>4. Max(K) \in K /\ \A j \in K : Max(K) >= j
  <2> HIDE DEF K
  <2> QED
    BY <1>1, <1>2, <1>3, MinMax
<1>5. HexPrefix(s) = Max(K)
  BY DEF HexPrefix
<1>6. AllHex(SubSeq(s, 1, Len(s))) <=> AllHex(s)
  <2>1. CASE Len(s) = 0
    BY <1>1, <1>3, <2>1 DEF AllHex
  <2>2. CASE Len(s) # 0
    <3>1. 1 \in 1 .. Len(s) /\ Len(s) \in 1 .. Len(s) /\ Len(s) - 1 + 1 = Len(s)
          /\ \A i \in 1 .. Len(s) : 1 + i - 1 = i
      BY <1>1, <2>2
    <3>2. DOMAIN SubSeq(s, 1, Len(s)) = 1 .. Len(s)
          /\ \A i \in 1 .. Len(s) : SubSeq(s, 1, Len(s))[i] = s[i]
      BY <3>1, PartOf
    <3> QED
      BY <1>1, <3>2 DEF AllHex
  <2> QED
    BY <2>1, <2>2
<1>7. AllHex(s) => Len(s) \in K
  BY <1>1, <1>6
<1>8. Max(K) \in 0 .. Len(s) /\ AllHex(SubSeq(s, 1, Max(K)))
  BY <1>4
<1> HIDE DEF K
<1>9. AllHex(s) => Max(K) = Len(s)
  BY <1>1, <1>4, <1>7, <1>8
<1> QED
  BY <1>5, <1>6, <1>8, <1>9

-----------------------------------------------------------------------------
(* The validators *)

LEMMA CanonicalIs ==
    ASSUME NEW s
    PROVE  /\ is_canonical(s, "SHA256") <=> Len(s) = HexLength["SHA256"] /\ AllHex(s)
           /\ is_canonical_shape(s) <=> is_canonical(s, "SHA256")
  BY DEF is_canonical, is_canonical_shape, is_canonical_shape_with_len

LEMMA CanonicalIsNotEmpty ==
    ASSUME NEW s \in Seq(Char), is_canonical(s, "SHA256")
    PROVE  s # <<>>
<1>1. Len(s) > 0
  BY CanonicalIs, HexNumbers
<1> QED
  BY <1>1

(* The constant-time path accepts canonical strings, without an assertion. *)
LEMMA ConstantTimeAccepts ==
    ASSUME NEW s \in Seq(Char), is_canonical(s, "SHA256")
    PROVE  validate_sha256_constant_time(s) = "Ok"
<1>1. s # <<>> /\ AllHex(s) /\ Len(s) = HexLength["SHA256"]
  BY CanonicalIs, CanonicalIsNotEmpty
<1>2. AllValid(s) = 1
  BY <1>1, MaskIs, Zenon
<1>3. ~ ChoicePanics(AllValid(s)) /\ AllValid(s) # 0
  BY <1>2 DEF ChoicePanics
<1> QED
  BY <1>1, <1>3 DEF validate_sha256_constant_time, validate_with_length_constant_time

LEMMA NewAccepts ==
    ASSUME NEW s \in Seq(Char)
    PROVE  /\ CanonicalHash(s) = "Ok" <=> is_canonical(s, "SHA256")
           /\ CanonicalHash(s) # "panic"
<1>1. CASE is_canonical(s, "SHA256")
  BY <1>1, CanonicalIs, CanonicalIsNotEmpty, ConstantTimeAccepts DEF CanonicalHash
<1>2. CASE ~ is_canonical(s, "SHA256")
  BY <1>2, CanonicalIs DEF CanonicalHash
<1> QED
  BY <1>1, <1>2

LEMMA ContractAccepts ==
    ASSUME NEW s \in Seq(Char)
    PROVE  /\ validate_for_contract(s) = "Ok" <=> is_canonical(s, "SHA256")
           /\ validate_for_contract(s) # "panic"
<1>1. CASE is_canonical(s, "SHA256")
  BY <1>1, CanonicalIs, CanonicalIsNotEmpty, ConstantTimeAccepts DEF validate_for_contract
<1>2. CASE ~ is_canonical(s, "SHA256")
  <2>1. CASE s = <<>>
    BY <1>2, <2>1, CanonicalIs DEF validate_for_contract
  <2>2. CASE s # <<>>
    <3>1. validate_for_contract(s) =
            CASE Len(s) = HexLength["SHA512"] -> "UnsupportedAlgorithm"
              [] Len(s) = HexLength["SHA256"] -> "NotCanonical"
              [] OTHER -> "WrongLength"
      BY <1>2, <2>2, CanonicalIs DEF validate_for_contract
    <3> QED
      BY <1>2, <3>1, HexNumbers
  <2> QED
    BY <2>1, <2>2
<1> QED
  BY <1>1, <1>2

(* The legacy validator, of the normalized string. *)
LEMMA LegacyIs ==
    ASSUME NEW s
    PROVE  /\ validate_with_length(s, HexLength["SHA256"]) = "Ok" =>
                 Len(normalize(s)) = HexLength["SHA256"] /\ AllHex(normalize(s))
           /\ Len(normalize(s)) = HexLength["SHA256"] /\ AllHex(normalize(s)) =>
                 validate_with_length(s, HexLength["SHA256"]) = "Ok"
           /\ validate_with_length(s, HexLength["SHA256"]) # "panic"
<1>1. normalize(s) = <<>> => Len(normalize(s)) # HexLength["SHA256"]
  <2>1. Len(<<>>) = 0
    OBVIOUS
  <2> QED
    BY <2>1, HexNumbers
<1>2. validate_with_length(s, HexLength["SHA256"]) =
        CASE normalize(s) = <<>> -> "EmptyHash"
          [] Len(normalize(s)) = HexLength["SHA256"] ->
                IF AllHex(normalize(s)) THEN "Ok" ELSE "InvalidCharacter"
          [] OTHER -> "WrongLength"
  BY DEF validate_with_length
<1>3. CASE normalize(s) = <<>>
  BY <1>1, <1>2, <1>3
<1>4. CASE normalize(s) # <<>> /\ Len(normalize(s)) = HexLength["SHA256"]
  BY <1>2, <1>4
<1>5. CASE normalize(s) # <<>> /\ Len(normalize(s)) # HexLength["SHA256"]
  BY <1>2, <1>5
<1> QED
  BY <1>3, <1>4, <1>5

(* The conversion reads no pair that is not there and writes none out of    *)
(* bounds: hex digits that the normalized copy lost would be needed.        *)
LEMMA ConversionAccepts ==
    ASSUME NEW s \in Seq(Char)
    PROVE  /\ hex_to_bytes32_outcome(s) = "Ok" <=> is_canonical(s, "SHA256")
           /\ hex_to_bytes32_outcome(s) # "panic"
<1> DEFINE legacy == validate_with_length(s, HexLength["SHA256"])
<1>0. Len(s) \in Nat /\ HexPrefix(s) \in 0 .. Len(s)
  BY PrefixIs, LenProperties
<1>1. CASE legacy # "Ok"
  <2>1. hex_to_bytes32_outcome(s) = legacy
    BY <1>1 DEF hex_to_bytes32_outcome, validate_sha256
  <2>2. ~ is_canonical(s, "SHA256")
    BY <1>1, CanonicalIs, HexIsNormal, LegacyIs
  <2> QED
    BY <1>1, <2>1, <2>2, LegacyIs
<1>2. CASE legacy = "Ok" /\ HexPrefix(s) < Len(s)
  <2>1. hex_to_bytes32_outcome(s) =
          IF HexPrefix(s) >= HexLength["SHA256"] + 2 THEN "panic" ELSE "InvalidCharacter"
    BY <1>0, <1>2 DEF hex_to_bytes32_outcome, validate_sha256
  <2>2. HexPrefix(s) # Len(s)
    BY <1>0, <1>2
  <2>3. ~ is_canonical(s, "SHA256")
    BY <2>2, CanonicalIs, PrefixIs
  <2>4. HexPrefix(s) <= HexLength["SHA256"]
    <3>1. CASE HexPrefix(s) = 0
      BY <3>1, HexNumbers
    <3>2. CASE HexPrefix(s) # 0
      <4>1. HexPrefix(s) \in 1 .. Len(s)
        BY <1>0, <3>2
      <4>2. Len(normalize(s)) >= HexPrefix(s)
        BY <4>1, PrefixIs, PrefixSurvives
      <4>3. Len(normalize(s)) = HexLength["SHA256"]
        BY <1>2, LegacyIs
      <4> QED
        BY <1>0, <4>1, <4>2, <4>3, HexNumbers
    <3> QED
      BY <3>1, <3>2
  <2>5. ~ (HexPrefix(s) >= HexLength["SHA256"] + 2)
    BY <1>0, <2>4, HexNumbers
  <2> QED
    BY <2>1, <2>3, <2>5
<1>3. CASE legacy = "Ok" /\ HexPrefix(s) = Len(s)
  <2>1. AllHex(s)
    BY <1>3, PrefixIs
  <2>2. Len(s) = HexLength["SHA256"]
    BY <1>3, <2>1, HexIsNormal, LegacyIs
  <2>3. ~ (HexPrefix(s) < Len(s))
    BY <1>0, <1>3
  <2>4. hex_to_bytes32_outcome(s) = IF Len(s) = HexLength["SHA256"] THEN "Ok" ELSE "panic"
    BY <1>3, <2>3 DEF hex_to_bytes32_outcome, validate_sha256
  <2> QED
    BY <2>1, <2>2, <2>4, CanonicalIs
<1>4. HexPrefix(s) < Len(s) \/ HexPrefix(s) = Len(s)
  BY <1>0
<1> QED
  BY <1>1, <1>2, <1>3, <1>4

LEMMA MemoAccepts ==
    ASSUME NEW s \in Seq(Char)
    PROVE  /\ to_stellar_memo_hash(s) = "Ok" <=> is_canonical(s, "SHA256")
           /\ to_stellar_memo_hash(s) # "panic"
<1>1. CASE Len(s) = HexLength["SHA256"]
  BY <1>1, ConversionAccepts DEF to_stellar_memo_hash
<1>2. CASE Len(s) # HexLength["SHA256"]
  BY <1>2, CanonicalIs DEF to_stellar_memo_hash
<1> QED
  BY <1>1, <1>2

LEMMA NormalIsString ==
    ASSUME NEW s \in Seq(Char)
    PROVE  normalize(s) \in Seq(Char)
<1>0. Len(s) \in Nat /\ DOMAIN s = 1 .. Len(s)
  BY LenProperties
<1>1. CASE \E i \in 1 .. Len(s) : s[i] # " "
  <2>1. PICK i \in 1 .. Len(s) : s[i] # " "
    BY <1>1
  <2>2. PICK m \in 1 .. Len(s) : \E n \in m .. Len(s) :
           normalize(s) = [j \in 1 .. n - m + 1 |-> Lower(s[m + j - 1])]
    BY <2>1, Trimmed
  <2>3. PICK n \in m .. Len(s) :
           normalize(s) = [j \in 1 .. n - m + 1 |-> Lower(s[m + j - 1])]
    BY <2>2
  <2>4. n - m + 1 \in Nat /\ \A j \in 1 .. n - m + 1 : m + j - 1 \in 1 .. Len(s)
    BY <1>0, <2>2, <2>3
  <2>5. \A j \in 1 .. n - m + 1 : Lower(s[m + j - 1]) \in Char
    BY <2>4, LenProperties DEF Lower, Char, LowerHex
  <2> DEFINE k == n - m + 1
  <2>6. k \in Nat /\ normalize(s) \in [1 .. k -> Char]
    BY <2>3, <2>4, <2>5
  <2> HIDE DEF k
  <2> QED
    BY <2>6, FunctionIsSeq
<1>2. CASE ~ \E i \in 1 .. Len(s) : s[i] # " "
  <2>1. {i \in DOMAIN s : s[i] # " "} = {}
    BY <1>0, <1>2
  <2>2. normalize(s) = [i \in DOMAIN <<>> |-> Lower(<<>>[i])]
    BY <2>1 DEF normalize
  <2> QED
    BY <2>2
<1> QED
  BY <1>1, <1>2

(* The legacy validator judges the normalized copy as the strict ones do. *)
LEMMA LegacyAccepts ==
    ASSUME NEW s \in Seq(Char)
    PROVE  /\ validate_sha256(s) = "Ok" <=> CanonicalHash(normalize(s)) = "Ok"
           /\ validate_sha256(s) # "panic"
<1>1. PICK t \in Seq(Char) : t = normalize(s)
  BY NormalIsString
<1>2. CanonicalHash(t) = "Ok" <=> Len(t) = HexLength["SHA256"] /\ AllHex(t)
  BY NewAccepts, CanonicalIs
<1> QED
  BY <1>1, <1>2, LegacyIs DEF validate_sha256

(* The constant-time validator, called directly. *)
LEMMA ConstantTimeIs ==
    ASSUME NEW s \in Seq(Char)
    PROVE  /\ validate_sha256_constant_time(s) = "Ok" <=> is_canonical(s, "SHA256")
           /\ validate_sha256_constant_time(s) = "panic" <=> s = <<>> /\ DebugAssertions
<1> DEFINE len == HexLength["SHA256"]
           r == validate_sha256_constant_time(s)
<1>1. r = CASE ChoicePanics(AllValid(s)) -> "panic"
            [] s = <<>> /\ ~ ChoicePanics(AllValid(s)) -> "EmptyHash"
            [] s # <<>> /\ Len(s) # len -> "WrongLength"
            [] s # <<>> /\ Len(s) = len -> IF AllValid(s) = 0 THEN "InvalidCharacter" ELSE "Ok"
  BY DEF validate_sha256_constant_time, validate_with_length_constant_time
<1> HIDE DEF r, len
<1>2. CASE s = <<>>
  <2>1. AllValid(s) = 255 /\ ~ is_canonical(s, "SHA256")
    BY <1>2, MaskIs, CanonicalIsNotEmpty
  <2>2. ChoicePanics(AllValid(s)) <=> DebugAssertions
    BY <2>1, HashAssumption DEF ChoicePanics
  <2> QED
    BY <1>1, <1>2, <2>1, <2>2 DEF r
<1>3. CASE s # <<>>
  <2>1. AllValid(s) = IF AllHex(s) THEN 1 ELSE 0
    BY <1>3, MaskIs, Zenon
  <2>2. ~ ChoicePanics(AllValid(s))
    BY <2>1 DEF ChoicePanics
  <2>3. is_canonical(s, "SHA256") <=> Len(s) = len /\ AllHex(s)
    BY CanonicalIs DEF len
  <2>4. CASE Len(s) # len
    BY <1>1, <1>3, <2>2, <2>3, <2>4 DEF r
  <2>5. CASE Len(s) = len
    BY <1>1, <1>3, <2>1, <2>2, <2>3, <2>5 DEF r
  <2> QED
    BY <2>4, <2>5
<1> QED
  BY <1>2, <1>3

LEMMA Halves ==
    ASSUME NEW l \in Nat, l % 2 = 0
    PROVE  /\ l \div 2 \in Nat /\ 2 * (l \div 2) = l
           /\ \A i \in 1 .. l :
                 /\ (i + 1) \div 2 \in 1 .. l \div 2
                 /\ i % 2 = 1 => 2 * ((i + 1) \div 2) - 1 = i
                 /\ i % 2 # 1 => 2 * ((i + 1) \div 2) = i
  OBVIOUS

(* The two digits of a byte. *)
LEMMA DigitsOf ==
    ASSUME NEW high \in LowerHex, NEW low \in LowerHex
    PROVE  /\ Digit((16 * Nibble(high) + Nibble(low)) \div 16) = high
           /\ Digit((16 * Nibble(high) + Nibble(low)) % 16) = low
<1>1. Nibble("0") = 0 /\ Nibble("a") = 10
  BY DEF Nibble
<1>2. /\ (16 * 0 + 0) \div 16 = 0 /\ (16 * 0 + 0) % 16 = 0
      /\ (16 * 0 + 10) \div 16 = 0 /\ (16 * 0 + 10) % 16 = 10
      /\ (16 * 10 + 0) \div 16 = 10 /\ (16 * 10 + 0) % 16 = 0
      /\ (16 * 10 + 10) \div 16 = 10 /\ (16 * 10 + 10) % 16 = 10
  OBVIOUS
<1>3. Digit(0) = "0" /\ Digit(10) = "a"
  BY DEF Digit
<1>4. (high = "0" \/ high = "a") /\ (low = "0" \/ low = "a")
  BY DEF LowerHex
<1> QED
  BY <1>1, <1>2, <1>3, <1>4

(* Bytes keep a canonical string. *)
LEMMA RoundTrip ==
    ASSUME NEW s \in Seq(Char), is_canonical(s, "SHA256")
    PROVE  from_bytes(hex_to_bytes32(s)) = s
<1> DEFINE b == hex_to_bytes32(s)
<1>1. PICK l \in Nat : l = HexLength["SHA256"] /\ l % 2 = 0
  BY HexNumbers
<1>2. Len(s) = l /\ DOMAIN s = 1 .. l /\ s \in [1 .. l -> Char] /\ \A i \in 1 .. l : s[i] \in LowerHex
  BY <1>1, CanonicalIs, LenProperties DEF AllHex
<1>3. PICK h \in Nat : h = l \div 2 /\ 2 * h = l
  BY <1>1, Halves
<1>4. b = [i \in 1 .. h |-> 16 * Nibble(s[2 * i - 1]) + Nibble(s[2 * i])]
  BY <1>1, <1>3 DEF hex_to_bytes32
<1>5. \A ch : Nibble(ch) \in Int
  BY DEF Nibble
<1>6. b \in [1 .. h -> Int]
  BY <1>4, <1>5
<1> HIDE DEF b
<1>7. Len(b) = h
  BY <1>6, FunctionIsSeq
<1>8. from_bytes(b) = [i \in 1 .. l |->
                         Digit(IF i % 2 = 1 THEN b[(i + 1) \div 2] \div 16
                               ELSE b[(i + 1) \div 2] % 16)]
  BY <1>3, <1>7 DEF from_bytes
<1>9. ASSUME NEW i \in 1 .. l
      PROVE  Digit(IF i % 2 = 1 THEN b[(i + 1) \div 2] \div 16 ELSE b[(i + 1) \div 2] % 16) = s[i]
  <2>1. PICK k \in 1 .. h : k = (i + 1) \div 2
    BY <1>1, <1>3, Halves
  <2>2. (i % 2 = 1 => 2 * k - 1 = i) /\ (i % 2 # 1 => 2 * k = i)
    BY <1>1, <2>1, Halves
  <2>3. 2 * k - 1 \in 1 .. l /\ 2 * k \in 1 .. l
    BY <1>3
  <2>4. b[k] = 16 * Nibble(s[2 * k - 1]) + Nibble(s[2 * k])
    BY <1>4
  <2>5. Digit(b[k] \div 16) = s[2 * k - 1] /\ Digit(b[k] % 16) = s[2 * k]
    BY <1>2, <2>3, <2>4, DigitsOf
  <2> QED
    BY <2>1, <2>2, <2>5
<1>10. from_bytes(b) = [i \in 1 .. l |-> s[i]]
  BY <1>8, <1>9
<1> QED
  BY <1>2, <1>10 DEF b

-----------------------------------------------------------------------------
(* The registry *)

RegistryType ==
    /\ pc \in [Client -> {"idle", "scan", "insert", "done"}]
    /\ DOMAIN input = Client
    /\ DOMAIN outcome = Client
    /\ DOMAIN registeredBefore = Client

(* A hash that was there before the call is still there, so the scan finds  *)
(* it: a client that goes on to insert, or has inserted, had none before.   *)
NewUntilInserted(c) ==
    /\ registeredBefore[c] => input[c] \in inner
    /\ pc[c] = "insert" => ~ registeredBefore[c]
    /\ pc[c] = "done" /\ outcome[c] = "Ok" => ~ registeredBefore[c]

RegistryInv == RegistryType /\ \A c \in Client : NewUntilInserted(c)

-----------------------------------------------------------------------------
LEMMA RegistryInitially == Init => RegistryInv
  BY DEF Init, RegistryInv, RegistryType, NewUntilInserted

(* Only a scan that finds nothing, or a clear, leads on from here, and a    *)
(* client is disturbed by others only through the map.                      *)
LEMMA RegistryStep == RegistryInv /\ [Next]_vars => RegistryInv'
<1> SUFFICES ASSUME RegistryInv, [Next]_vars PROVE RegistryInv'
  OBVIOUS
<1> USE DEF RegistryInv
<1>1. ASSUME NEW c \in Client, NEW s \in Input[c], Submit(c, s) PROVE RegistryInv'
  <2>1. RegistryType'
    BY <1>1 DEF RegistryType, Submit, Goto
  <2>2. ASSUME NEW d \in Client PROVE NewUntilInserted(d)'
    <3>1. CASE d = c
      BY <1>1, <3>1 DEF RegistryType, NewUntilInserted, Submit, Goto
    <3>2. CASE d # c
      BY <1>1, <3>2 DEF RegistryType, NewUntilInserted, Submit, Goto
    <3> QED
      BY <3>1, <3>2
  <2> QED
    BY <2>1, <2>2
<1>2. ASSUME NEW c \in Client, Scan(c) PROVE RegistryInv'
  BY <1>2 DEF RegistryType, NewUntilInserted, Scan, Goto
<1>3. ASSUME NEW c \in Client, Insert(c) PROVE RegistryInv'
  BY <1>3 DEF RegistryType, NewUntilInserted, Insert, Goto
<1>4. ASSUME NEW c \in Client, Return(c) PROVE RegistryInv'
  BY <1>4 DEF RegistryType, NewUntilInserted, Return, Goto
<1>5. CASE Clear
  BY <1>5 DEF RegistryType, NewUntilInserted, Clear
<1>6. CASE UNCHANGED vars
  BY <1>6 DEF RegistryType, NewUntilInserted, vars
<1> QED
  BY <1>1, <1>2, <1>3, <1>4, <1>5, <1>6 DEF Next

(* register of src/hash_validator.rs succeeds for a hash that was already   *)
(* registered only if the two calls overlap, or clear came in between.      *)
THEOREM RegisteredOnce == Spec => []SecondOnlyByOverlap
<1>1. RegistryInv => SecondOnlyByOverlap
  BY DEF RegistryInv, NewUntilInserted, SecondOnlyByOverlap
<1> QED
  BY <1>1, RegistryInitially, RegistryStep, PTL DEF Spec


-----------------------------------------------------------------------------
(* What is submitted are strings. *)

InputsAreStrings ==
    /\ DOMAIN input = Client
    /\ \A c \in Client : input[c] # NoString => input[c] \in Seq(Char)

LEMMA InputsInvariant == Spec => []InputsAreStrings
<1>1. Init => InputsAreStrings
  BY DEF Init, InputsAreStrings
<1>2. InputsAreStrings /\ [Next]_vars => InputsAreStrings'
  <2> SUFFICES ASSUME InputsAreStrings, [Next]_vars PROVE InputsAreStrings'
    OBVIOUS
  <2>1. ASSUME NEW c \in Client, NEW s \in Input[c], Submit(c, s) PROVE InputsAreStrings'
    <3>1. s \in Seq(Char)
      BY InputAssumption
    <3> QED
      BY <2>1, <3>1 DEF InputsAreStrings, Submit
  <2>2. ASSUME NEW c \in Client, Scan(c) \/ Insert(c) PROVE InputsAreStrings'
    BY <2>2 DEF InputsAreStrings, Scan, Insert
  <2>3. ASSUME NEW c \in Client, Return(c) PROVE InputsAreStrings'
    BY <2>3 DEF InputsAreStrings, Return
  <2>4. CASE Clear \/ UNCHANGED vars
    BY <2>4 DEF InputsAreStrings, Clear, vars
  <2> QED
    BY <2>1, <2>2, <2>3, <2>4 DEF Next
<1> QED
  BY <1>1, <1>2, PTL DEF Spec

(* CanonicalHash::new, validate_for_contract, hex_to_bytes32 and            *)
(* to_stellar_memo_hash of src/hash_validator.rs accept the same strings,   *)
(* of any length: those that are canonical.  They never panic, and the      *)
(* conversion loses nothing.  Called directly, the constant-time validator  *)
(* accepts the same strings and panics only on the empty one, in a debug    *)
(* build; the legacy one accepts what is canonical once normalized.         *)
THEOREM AllValidatorsAgree == Spec => []ValidatorsAgree
<1>1. InputsAreStrings => ValidatorsAgree
  <2> SUFFICES ASSUME InputsAreStrings, NEW c \in Client, input[c] # NoString, NEW s, s = input[c]
               PROVE  LET accepted == is_canonical(s, "SHA256")
                          outcomes == {CanonicalHash(s), validate_for_contract(s),
                                       hex_to_bytes32_outcome(s), to_stellar_memo_hash(s)}
                          constantTime == validate_sha256_constant_time(s)
                      IN /\ accepted => outcomes = {"Ok"} /\ from_bytes(hex_to_bytes32(s)) = s
                         /\ ~ accepted => "Ok" \notin outcomes
                         /\ "panic" \notin outcomes
                         /\ constantTime = "Ok" <=> accepted
                         /\ constantTime = "panic" <=> s = <<>> /\ DebugAssertions
                         /\ validate_sha256(s) = "Ok" <=> CanonicalHash(normalize(s)) = "Ok"
                         /\ validate_sha256(s) # "panic"
    BY Zenon DEF ValidatorsAgree
  <2>1. s \in Seq(Char)
    BY DEF InputsAreStrings
  <2>2. /\ CanonicalHash(s) = "Ok" <=> is_canonical(s, "SHA256")
        /\ validate_for_contract(s) = "Ok" <=> is_canonical(s, "SHA256")
        /\ hex_to_bytes32_outcome(s) = "Ok" <=> is_canonical(s, "SHA256")
        /\ to_stellar_memo_hash(s) = "Ok" <=> is_canonical(s, "SHA256")
    BY <2>1, NewAccepts, ContractAccepts, ConversionAccepts, MemoAccepts
  <2>3. /\ CanonicalHash(s) # "panic" /\ validate_for_contract(s) # "panic"
        /\ hex_to_bytes32_outcome(s) # "panic" /\ to_stellar_memo_hash(s) # "panic"
    BY <2>1, NewAccepts, ContractAccepts, ConversionAccepts, MemoAccepts
  <2>4. is_canonical(s, "SHA256") => from_bytes(hex_to_bytes32(s)) = s
    BY <2>1, RoundTrip
  <2>5. /\ validate_sha256_constant_time(s) = "Ok" <=> is_canonical(s, "SHA256")
        /\ validate_sha256_constant_time(s) = "panic" <=> s = <<>> /\ DebugAssertions
        /\ validate_sha256(s) = "Ok" <=> CanonicalHash(normalize(s)) = "Ok"
        /\ validate_sha256(s) # "panic"
    BY <2>1, ConstantTimeIs, LegacyAccepts
  <2> QED
    BY <2>2, <2>3, <2>4, <2>5
<1> QED
  BY <1>1, InputsInvariant, PTL
=============================================================================
