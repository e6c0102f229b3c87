------------------------- MODULE CacheBackend_proofs -------------------------
(***************************************************************************)
(* Theorems about the cache, for any number of tasks, every set of keys    *)
(* and values, every bound, batch size and time to live.                   *)
(*                                                                         *)
(* The loops of the code (retain, the batches) are recursive functions;    *)
(* that such a function exists and what its rounds keep is shown by        *)
(* descent on the first round that would fail (LeastExists).               *)
(*                                                                         *)
(* The inductive invariant CacheInv has four parts that steps disturb      *)
(* separately: the in-memory cache, the view of Redis, the calls with      *)
(* their permits, and the ages of what was written.                        *)
(***************************************************************************)
EXTENDS CacheBackend, SequenceTheorems, FiniteSetTheorems, WellFoundedInduction, TLAPS

-----------------------------------------------------------------------------
(* Loops *)

(* A non-empty set of naturals has a least element. *)
LEMMA LeastExists ==
    ASSUME NEW S \in SUBSET Nat, S # {}
    PROVE  \E k \in S : \A j \in S : k <= j
<1> DEFINE R == OpToRel(<, Nat)
<1>1. IsWellFoundedOn(R, Nat)
  BY NatLessThanWellFounded
<1>2. \A i, j \in Nat : <<i, j>> \notin R => j <= i
  <2>1. \A i, j \in Nat : <<i, j>> \notin R => ~ (i < j)
    BY Zenon DEF OpToRel
  <2> HIDE DEF R
  <2> QED
    BY <2>1, SMT
<1> HIDE DEF R
<1>3. PICK k \in S : \A j \in S : <<j, k>> \notin R
  BY <1>1, WFMin
<1> QED
  BY <1>2, <1>3, Zenon

LEMMA CountingUp ==
    ASSUME NEW n \in Nat, NEW P, 0 \in P, \A i \in 1 .. n : i - 1 \in P => i \in P
    PROVE  n \in P
<1> DEFINE T == {i \in 0 .. n : i \notin P}
<1>1. T \in SUBSET Nat
  OBVIOUS
<1>2. T = {}
  <2> SUFFICES ASSUME T # {} PROVE FALSE
    OBVIOUS
  <2>1. PICK m \in T : \A k \in T : m <= k
    <3> HIDE DEF T
    <3> QED
      BY <1>1, LeastExists
  <2>2. m \in 0 .. n /\ m \notin P
    OBVIOUS
  <2>3. m \in 1 .. n /\ m - 1 \in 0 .. n
    BY <2>2
  <2>4. m - 1 \notin T
    <3> HIDE DEF T
    <3> QED
      BY <2>1, <2>3
  <2> QED
    BY <2>2, <2>3, <2>4
<1> QED
  BY <1>2

(* The states g of a loop, for rounds op that keep a set S of states. *)
LoopOf(g, S, op, c, s) ==
    /\ g \in [0 .. Len(s) -> S]
    /\ \A i \in 0 .. Len(s) : g[i] = IF i = 0 THEN c ELSE op[s[i]][g[i - 1]]

LEMMA LoopExists ==
    ASSUME NEW S, NEW E, NEW op \in [E -> [S -> S]], NEW c \in S, NEW s \in Seq(E)
    PROVE  \E g : LoopOf(g, S, op, c, s)
<1> DEFINE Def(g, m) == \A i \in 0 .. m : g[i] = IF i = 0 THEN c ELSE op[s[i]][g[i - 1]]
           T == {m \in 0 .. Len(s) : ~ \E g \in [0 .. m -> S] : Def(g, m)}
<1>0. T \in SUBSET Nat /\ Len(s) \in Nat
  OBVIOUS
<1>1. T = {}
  <2> SUFFICES ASSUME T # {} PROVE FALSE
    OBVIOUS
  <2>1. PICK m \in T : \A k \in T : m <= k
    <3> HIDE DEF T
    <3> QED
      BY <1>0, LeastExists
  <2>2. CASE m = 0
    <3> DEFINE g == [i \in 0 .. 0 |-> c]
    <3>1. g \in [0 .. 0 -> S] /\ Def(g, 0)
      OBVIOUS
    <3> QED
      BY <2>1, <2>2, <3>1
  <2>3. CASE m # 0
    <3>1. m - 1 \in 0 .. Len(s) /\ m - 1 \notin T /\ m \in 1 .. Len(s)
      <4>1. m \in 0 .. Len(s)
        OBVIOUS
      <4> HIDE DEF T
      <4> QED
        BY <1>0, <2>1, <2>3, <4>1
    <3>2. PICK g \in [0 .. m - 1 -> S] : Def(g, m - 1)
      BY <3>1
    <3> DEFINE h == [i \in 0 .. m |-> IF i = m THEN op[s[m]][g[m - 1]] ELSE g[i]]
    <3>3. op[s[m]][g[m - 1]] \in S
      <4>1. s[m] \in E /\ g[m - 1] \in S
        BY <3>1, <3>2
      <4> QED
        BY <4>1
    <3>4. h \in [0 .. m -> S]
      BY <3>1, <3>2, <3>3
    <3>5. ASSUME NEW i \in 0 .. m PROVE h[i] = IF i = 0 THEN c ELSE op[s[i]][h[i - 1]]
      BY <3>1, <3>2
    <3> QED
      BY <2>1, <3>4, <3>5
  <2> QED
    BY <2>2, <2>3
<1>2. PICK g \in [0 .. Len(s) -> S] : Def(g, Len(s))
  BY <1>0, <1>1
<1> QED
  BY <1>2 DEF LoopOf

-----------------------------------------------------------------------------
(* retain *)
Kept(q, x, k) == IF x = k THEN q ELSE Append(q, x)

LEMMA WithoutLoop ==
    ASSUME NEW s \in Seq(Key), NEW k
    PROVE  \E f : /\ f[0] = << >>
                  /\ \A i \in 1 .. Len(s) : f[i] = Kept(f[i - 1], s[i], k)
                  /\ Without(s, k) = f[Len(s)]
<1> DEFINE op == [x \in Key |-> [q \in Seq(Key) |-> Kept(q, x, k)]]
           Is(g) == g = [i \in 0 .. Len(s) |->
                            IF i = 0 THEN << >> ELSE Kept(g[i - 1], s[i], k)]
<1>0. << >> \in Seq(Key) /\ Len(s) \in Nat
  OBVIOUS
<1>1. op \in [Key -> [Seq(Key) -> Seq(Key)]]
  BY DEF Kept
<1>2. PICK g \in [0 .. Len(s) -> Seq(Key)] :
         \A i \in 0 .. Len(s) : g[i] = IF i = 0 THEN << >> ELSE op[s[i]][g[i - 1]]
  <2>1. PICK S : S = Seq(Key)
    OBVIOUS
  <2>2. PICK F \in [Key -> [S -> S]] : F = op
    BY <1>1, <2>1
  <2>3. PICK c \in S : c = << >>
    BY <1>0, <2>1
  <2> HIDE DEF op
  <2>4. PICK h : LoopOf(h, S, F, c, s)
    BY LoopExists
  <2> QED
    BY <2>1, <2>2, <2>3, <2>4, Zenon DEF LoopOf
<1>4. Is(g)
  <2>1. ASSUME NEW i \in 0 .. Len(s)
        PROVE  g[i] = IF i = 0 THEN << >> ELSE Kept(g[i - 1], s[i], k)
    <3>1. CASE i = 0
      BY <1>2, <3>1
    <3>2. CASE i # 0
      <4>0. i \in 1 .. Len(s) /\ i - 1 \in 0 .. Len(s)
        BY <1>0, <3>2
      <4>1. s[i] \in Key /\ g[i - 1] \in Seq(Key)
        BY <4>0
      <4>2. op[s[i]][g[i - 1]] = Kept(g[i - 1], s[i], k)
        BY <4>1
      <4> QED
        BY <1>2, <3>2, <4>2
    <3> QED
      BY <3>1, <3>2
  <2> QED
    BY <2>1
<1> DEFINE f == CHOOSE h : Is(h)
<1>5. Is(f)
  BY <1>4, Zenon
<1>6. Without(s, k) = f[Len(s)]
  BY Zenon DEF Without, Each, Kept
<1> HIDE DEF f
<1>7. /\ f[0] = << >>
      /\ \A i \in 1 .. Len(s) : f[i] = Kept(f[i - 1], s[i], k)
  BY <1>0, <1>5
<1> QED
  BY <1>6, <1>7

LEMMA AppendFresh ==
    ASSUME NEW q \in Seq(Key), IsInjective(q), NEW x \in Key
    PROVE  /\ Append(q, x) \in Seq(Key)
           /\ ToSet(Append(q, x)) = ToSet(q) \cup {x}
           /\ x \notin ToSet(q) => IsInjective(Append(q, x))
<1> DEFINE r == Append(q, x)
<1>1. /\ r \in Seq(Key) /\ Len(r) = Len(q) + 1 /\ Len(q) \in Nat
      /\ r[Len(q) + 1] = x /\ \A i \in 1 .. Len(q) : r[i] = q[i]
  BY AppendProperties
<1> HIDE DEF r
<1>2. DOMAIN q = 1 .. Len(q) /\ DOMAIN r = 1 .. Len(q) + 1
  BY <1>1
<1>3. ToSet(r) = ToSet(q) \cup {x}
  <2>1. ASSUME NEW y \in ToSet(r) PROVE y \in ToSet(q) \cup {x}
    <3>1. PICK i \in 1 .. Len(q) + 1 : y = r[i]
      BY <1>2 DEF ToSet
    <3>2. i \in 1 .. Len(q) \/ i = Len(q) + 1
      BY <1>1
    <3> QED
      BY <1>1, <1>2, <3>1, <3>2 DEF ToSet
  <2>2. x \in ToSet(r)
    BY <1>1, <1>2 DEF ToSet
  <2>3. ASSUME NEW i \in 1 .. Len(q) PROVE q[i] \in ToSet(r)
    <3>1. i \in DOMAIN r /\ r[i] = q[i]
      BY <1>1, <1>2
    <3> QED
      BY <3>1 DEF ToSet
  <2> QED
    BY <1>2, <2>1, <2>2, <2>3 DEF ToSet
<1>4. ASSUME x \notin ToSet(q), NEW a \in DOMAIN r, NEW b \in DOMAIN r, r[a] = r[b] PROVE a = b
  <2>1. \A i \in 1 .. Len(q) : q[i] # x
    BY <1>2, <1>4 DEF ToSet
  <2>2. \A i, j \in 1 .. Len(q) : q[i] = q[j] => i = j
    BY <1>2 DEF IsInjective
  <2>3. /\ a \in 1 .. Len(q) \/ a = Len(q) + 1
        /\ b \in 1 .. Len(q) \/ b = Len(q) + 1
    BY <1>1, <1>2
  <2> QED
    BY <1>1, <1>4, <2>1, <2>2, <2>3
<1>5. x \notin ToSet(q) => IsInjective(r)
  BY <1>4 DEF IsInjective
<1> QED
  BY <1>1, <1>3, <1>5 DEF r

(* The queue keeps its order and loses one key. *)
LEMMA WithoutIs ==
    ASSUME NEW s \in Seq(Key), IsInjective(s), NEW k
    PROVE  /\ Without(s, k) \in Seq(Key)
           /\ IsInjective(Without(s, k))
           /\ ToSet(Without(s, k)) = ToSet(s) \ {k}
<1>1. PICK f : /\ f[0] = << >>
               /\ \A i \in 1 .. Len(s) : f[i] = Kept(f[i - 1], s[i], k)
               /\ Without(s, k) = f[Len(s)]
  BY WithoutLoop
<1> DEFINE Good(i) == /\ f[i] \in Seq(Key) /\ IsInjective(f[i])
                      /\ ToSet(f[i]) = {s[j] : j \in 1 .. i} \ {k}
           P == {i \in 0 .. Len(s) : Good(i)}
<1>2. Len(s) \in Nat /\ DOMAIN s = 1 .. Len(s) /\ \A i \in 1 .. Len(s) : s[i] \in Key
  OBVIOUS
<1>3. 0 \in P
  <2>1. f[0] \in Seq(Key) /\ IsInjective(f[0])
    BY <1>1 DEF IsInjective
  <2>2. ToSet(f[0]) = {}
    BY <1>1 DEF ToSet
  <2> QED
    BY <1>2, <2>1, <2>2
<1>4. ASSUME NEW i \in 1 .. Len(s), i - 1 \in P PROVE i \in P
  <2> DEFINE q == f[i - 1]
             x == s[i]
  <2>1. /\ q \in Seq(Key) /\ IsInjective(q) /\ x \in Key
        /\ ToSet(q) = {s[j] : j \in 1 .. i - 1} \ {k}
    BY <1>2, <1>4
  <2>2. f[i] = Kept(q, x, k)
    BY <1>1
  <2>3. {s[j] : j \in 1 .. i} = {s[j] : j \in 1 .. i - 1} \cup {x}
    <3>1. 1 .. i = (1 .. i - 1) \cup {i}
      BY <1>2
    <3> QED
      BY <3>1
  <2>4. x \notin {s[j] : j \in 1 .. i - 1}
    <3>1. \A j \in 1 .. i - 1 : j \in 1 .. Len(s) /\ j # i
      BY <1>2
    <3> QED
      BY <1>2, <3>1 DEF IsInjective
  <2>5. CASE x = k
    <3>1. f[i] = q
      BY <2>2, <2>5 DEF Kept
    <3> HIDE DEF q, x
    <3> QED
      BY <2>1, <2>3, <2>5, <3>1
  <2>6. CASE x # k
    <3>1. f[i] = Append(q, x)
      BY <2>2, <2>6 DEF Kept
    <3>2. PICK r \in Seq(Key) : r = q
      BY <2>1
    <3>3. PICK y \in Key : y = x
      BY <2>1
    <3>4. y \notin ToSet(r) /\ IsInjective(r)
      BY <2>1, <2>4, <3>2, <3>3
    <3>5. /\ Append(r, y) \in Seq(Key) /\ IsInjective(Append(r, y))
          /\ ToSet(Append(r, y)) = ToSet(r) \cup {y}
      BY <3>4, AppendFresh
    <3> HIDE DEF q, x
    <3>6. f[i] \in Seq(Key) /\ IsInjective(f[i]) /\ ToSet(f[i]) = ToSet(q) \cup {x}
      BY <3>1, <3>2, <3>3, <3>5
    <3>7. {s[j] : j \in 1 .. i} \ {k} = ToSet(q) \cup {x}
      <4> DEFINE A == {s[j] : j \in 1 .. i}
                 B == {s[j] : j \in 1 .. i - 1}
      <4>1. A = B \cup {x} /\ ToSet(q) = B \ {k}
        BY <2>1, <2>3
      <4> HIDE DEF A, B
      <4>2. A \ {k} = ToSet(q) \cup {x}
        BY <2>6, <4>1
      <4> QED
        BY <4>2 DEF A
    <3>8. Good(i)
      BY <3>6, <3>7
    <3> HIDE DEF Good
    <3> QED
      BY <3>8
  <2> QED
    BY <2>5, <2>6
<1>5. Len(s) \in P
  <2> HIDE DEF P
  <2> QED
    BY <1>2, <1>3, <1>4, CountingUp
<1>6. ToSet(s) = {s[j] : j \in 1 .. Len(s)}
  BY <1>2 DEF ToSet
<1> QED
  BY <1>1, <1>5, <1>6

LEMMA PushFront ==
    ASSUME NEW q \in Seq(Key), IsInjective(q), NEW x \in Key, x \notin ToSet(q)
    PROVE  /\ <<x>> \o q \in Seq(Key)
           /\ ToSet(<<x>> \o q) = ToSet(q) \cup {x}
           /\ IsInjective(<<x>> \o q)
<1> DEFINE r == <<x>> \o q
<1>1. /\ r \in Seq(Key) /\ Len(r) = Len(q) + 1 /\ Len(q) \in Nat
      /\ r[1] = x /\ \A i \in 1 .. Len(q) : r[i + 1] = q[i]
  OBVIOUS
<1> HIDE DEF r
<1>2. DOMAIN q = 1 .. Len(q) /\ DOMAIN r = 1 .. Len(q) + 1
  BY <1>1
<1>3. ASSUME NEW i \in DOMAIN r PROVE i = 1 \/ (i - 1 \in 1 .. Len(q) /\ r[i] = q[i - 1])
  <2>1. i = 1 \/ i - 1 \in 1 .. Len(q)
    BY <1>1, <1>2
  <2>2. ASSUME i - 1 \in 1 .. Len(q) PROVE r[i] = q[i - 1]
    <3>1. PICK j \in 1 .. Len(q) : j = i - 1
      BY <2>2
    <3>2. r[j + 1] = q[j] /\ j + 1 = i
      BY <1>1, <1>2, <3>1
    <3> QED
      BY <3>1, <3>2
  <2> QED
    BY <2>1, <2>2
<1>4. ToSet(r) = ToSet(q) \cup {x}
  <2>1. ASSUME NEW y \in ToSet(r) PROVE y \in ToSet(q) \cup {x}
    <3>1. PICK i \in DOMAIN r : y = r[i]
      BY DEF ToSet
    <3> QED
      BY <1>1, <1>2, <1>3, <3>1 DEF ToSet
  <2>2. x \in ToSet(r)
    BY <1>1, <1>2 DEF ToSet
  <2>3. ASSUME NEW i \in 1 .. Len(q) PROVE q[i] \in ToSet(r)
    <3>1. i + 1 \in DOMAIN r /\ r[i + 1] = q[i]
      BY <1>1, <1>2
    <3> QED
      BY <3>1 DEF ToSet
  <2> QED
    BY <1>2, <2>1, <2>2, <2>3 DEF ToSet
<1>5. ASSUME NEW a \in DOMAIN r, NEW b \in DOMAIN r, r[a] = r[b] PROVE a = b
  <2>1. \A i \in 1 .. Len(q) : q[i] # x
    BY <1>2 DEF ToSet
  <2>2. \A i, j \in 1 .. Len(q) : q[i] = q[j] => i = j
    BY <1>2 DEF IsInjective
  <2>3. a \in Nat /\ b \in Nat
    BY <1>2
  <2>4. CASE a = 1
    BY <1>1, <1>3, <1>5, <2>1, <2>4
  <2>5. CASE b = 1
    BY <1>1, <1>3, <1>5, <2>1, <2>5
  <2>6. CASE a # 1 /\ b # 1
    <3>1. a - 1 \in 1 .. Len(q) /\ b - 1 \in 1 .. Len(q) /\ q[a - 1] = q[b - 1]
      BY <1>3, <1>5, <2>6
    <3>2. a - 1 = b - 1
      BY <2>2, <3>1
    <3> QED
      BY <2>3, <3>2
  <2> QED
    BY <2>4, <2>5, <2>6
<1>6. IsInjective(r)
  BY <1>5 DEF IsInjective
<1> QED
  BY <1>1, <1>4, <1>6 DEF r

(* pop_back, n times: front and back of the queue share no key. *)
LEMMA PopBack ==
    ASSUME NEW q \in Seq(Key), NEW n \in 0 .. Len(q)
    PROVE  /\ SubSeq(q, 1, Len(q) - n) \in Seq(Key)
           /\ ToSet(SubSeq(q, Len(q) - n + 1, Len(q))) \subseteq Key
           /\ IsInjective(q) =>
                 /\ IsInjective(SubSeq(q, 1, Len(q) - n))
                 /\ ToSet(SubSeq(q, 1, Len(q) - n)) =
                       ToSet(q) \ ToSet(SubSeq(q, Len(q) - n + 1, Len(q)))
           /\ n = Len(q) => ToSet(SubSeq(q, Len(q) - n + 1, Len(q))) = ToSet(q)
           /\ n = 0 => /\ SubSeq(q, 1, Len(q) - n) = q
                       /\ ToSet(SubSeq(q, Len(q) - n + 1, Len(q))) = {}
<1> DEFINE m == Len(q) - n
           a == SubSeq(q, 1, m)
           b == SubSeq(q, m + 1, Len(q))
<1>1. Len(q) \in Nat /\ m \in 0 .. Len(q) /\ DOMAIN q = 1 .. Len(q)
  OBVIOUS
<1>2. (n = 0 => m = Len(q)) /\ (n = Len(q) => m = 0)
  OBVIOUS
<1> HIDE DEF m
<1>3. /\ a \in Seq(Key) /\ DOMAIN a = 1 .. m /\ \A i \in 1 .. m : a[i] = q[i]
  <2>1. 1 .. m \subseteq 1 .. Len(q)
    BY <1>1
  <2>2. a = [i \in 1 .. m |-> q[i]]
    BY <1>1
  <2> QED
    BY <1>1, <2>1, <2>2
<1>4. ToSet(b) = {q[i] : i \in m + 1 .. Len(q)}
  <2>1. b = [i \in 1 .. Len(q) - m |-> q[m + i]]
    BY <1>1
  <2>2. DOMAIN b = 1 .. Len(q) - m /\ \A i \in DOMAIN b : b[i] = q[m + i]
    BY <2>1
  <2> HIDE DEF b
  <2>3. ASSUME NEW i \in DOMAIN b PROVE b[i] \in {q[j] : j \in m + 1 .. Len(q)}
    <3>1. m + i \in m + 1 .. Len(q)
      BY <1>1, <2>2
    <3> QED
      BY <2>2, <3>1
  <2>4. ASSUME NEW j \in m + 1 .. Len(q) PROVE q[j] \in ToSet(b)
    <3>1. PICK i \in 1 .. Len(q) - m : j = m + i
      <4>1. j - m \in 1 .. Len(q) - m /\ j = m + (j - m)
        BY <1>1
      <4> QED
        BY <4>1
    <3>2. i \in DOMAIN b /\ b[i] = q[j]
      BY <2>2, <3>1
    <3> QED
      BY <3>2 DEF ToSet
  <2> QED
    BY <2>3, <2>4 DEF ToSet
<1>5. ToSet(a) = {q[i] : i \in 1 .. m}
  BY <1>3 DEF ToSet
<1>6. ToSet(q) = {q[i] : i \in 1 .. Len(q)}
  BY <1>1 DEF ToSet
<1>7. ToSet(b) \subseteq Key
  BY <1>1, <1>4
<1>8. ASSUME IsInjective(q)
      PROVE  IsInjective(a) /\ ToSet(a) = ToSet(q) \ ToSet(b)
  <2>1. \A i, j \in 1 .. Len(q) : q[i] = q[j] => i = j
    BY <1>1, <1>8 DEF IsInjective
  <2>2. IsInjective(a)
    BY <1>1, <1>3, <2>1 DEF IsInjective
  <2>3. 1 .. Len(q) = (1 .. m) \cup (m + 1 .. Len(q)) /\ (1 .. m) \cap (m + 1 .. Len(q)) = {}
    BY <1>1
  <2>4. ToSet(a) = ToSet(q) \ ToSet(b)
    BY <1>4, <1>5, <1>6, <2>1, <2>3
  <2> QED
    BY <2>2, <2>4
<1>9. m = 0 => ToSet(b) = ToSet(q)
  BY <1>4, <1>6
<1>10. m = Len(q) => a = q /\ ToSet(b) = {}
  <2>1. ASSUME m = Len(q) PROVE a = q
    <3>1. q = [i \in 1 .. m |-> q[i]]
      BY <1>1, <2>1
    <3>2. a = [i \in 1 .. m |-> q[i]]
      BY <1>1
    <3> QED
      BY <3>1, <3>2
  <2>2. ASSUME m = Len(q) PROVE ToSet(b) = {}
    <3>1. m + 1 .. Len(q) = {}
      BY <1>1, <2>2
    <3> QED
      BY <1>4, <3>1
  <2> QED
    BY <2>1, <2>2
<1> QED
  BY <1>2, <1>3, <1>7, <1>8, <1>9, <1>10 DEF m

-----------------------------------------------------------------------------
(* The operations on a cache *)

(* The queue holds the stored keys, each once. *)
Tracks(c) ==
    /\ c \in Cache
    /\ IsInjective(c.lru_queue)
    /\ ToSet(c.lru_queue) = Stored(c)

(* An operation that only removes entries. *)
Shrinks(c, d) == \A j \in Key : d.store[j] # None => d.store[j] = c.store[j]

LEMMA CacheFields ==
    ASSUME NEW c \in Cache
    PROVE  /\ c.store \in [Key -> Entry \cup {None}]
           /\ c.lru_queue \in Seq(Key)
           /\ Len(c.lru_queue) \in Nat
<1>1. c.store \in [Key -> Entry \cup {None}] /\ c.lru_queue \in Seq(Key)
  BY DEF Cache
<1> QED
  BY <1>1

LEMMA DropIs ==
    ASSUME NEW c, Tracks(c), NEW k \in Key
    PROVE  /\ Tracks(Drop(c, k))
           /\ Stored(Drop(c, k)) = Stored(c) \ {k}
           /\ Shrinks(c, Drop(c, k))
<1>1. c \in Cache /\ IsInjective(c.lru_queue) /\ ToSet(c.lru_queue) = Stored(c)
  BY DEF Tracks
<1>2. c.store \in [Key -> Entry \cup {None}]
  BY <1>1, CacheFields
<1>3. PICK q \in Seq(Key) : q = c.lru_queue
  BY <1>1, CacheFields
<1>4. /\ Without(q, k) \in Seq(Key) /\ IsInjective(Without(q, k))
      /\ ToSet(Without(q, k)) = ToSet(q) \ {k}
  BY <1>1, <1>3, WithoutIs
<1> DEFINE d == Drop(c, k)
<1>5. d.store = [c.store EXCEPT ![k] = None] /\ d.lru_queue = Without(q, k)
  BY <1>3 DEF Drop
<1>6. d \in Cache
  BY <1>2, <1>3, <1>4 DEF Drop, Cache
<1> HIDE DEF d
<1>7. Stored(d) = Stored(c) \ {k}
  BY <1>2, <1>5 DEF Stored
<1>8. Shrinks(c, d)
  BY <1>2, <1>5 DEF Shrinks
<1>9. Tracks(d)
  BY <1>1, <1>3, <1>4, <1>5, <1>6, <1>7 DEF Tracks
<1> QED
  BY <1>7, <1>8, <1>9 DEF d

(* A used key moves to the front of the queue. *)
LEMMA UsedIs ==
    ASSUME NEW c \in Cache, IsInjective(c.lru_queue), NEW k \in Key
    PROVE  /\ Used(c, k) \in Cache
           /\ Used(c, k).store = c.store
           /\ Stored(Used(c, k)) = Stored(c)
           /\ IsInjective(Used(c, k).lru_queue)
           /\ ToSet(Used(c, k).lru_queue) = ToSet(c.lru_queue) \cup {k}
<1>1. PICK q \in Seq(Key) : q = c.lru_queue
  BY CacheFields
<1>2. PICK r \in Seq(Key) : /\ r = Without(q, k) /\ IsInjective(r) /\ k \notin ToSet(r)
                            /\ ToSet(r) = ToSet(q) \ {k}
  BY <1>1, WithoutIs
<1>3. /\ <<k>> \o r \in Seq(Key) /\ IsInjective(<<k>> \o r)
      /\ ToSet(<<k>> \o r) = ToSet(r) \cup {k}
  BY <1>2, PushFront
<1> DEFINE d == Used(c, k)
           l == <<k>> \o r
<1>4. d = [c EXCEPT !.lru_queue = l]
  BY <1>1, <1>2 DEF Used, Cache
<1> HIDE DEF l
<1>5. d \in Cache /\ d.store = c.store /\ d.lru_queue = l
  BY <1>3, <1>4 DEF Cache, l
<1> HIDE DEF d
<1>6. Stored(d) = Stored(c)
  BY <1>5 DEF Stored
<1> QED
  BY <1>1, <1>2, <1>3, <1>5, <1>6 DEF d, l

LEMMA LookupIs ==
    ASSUME NEW c, Tracks(c), NEW k \in Key
    PROVE  /\ Tracks(Lookup(c, k))
           /\ Shrinks(c, Lookup(c, k))
           /\ Stored(Lookup(c, k)) = IF Expired(c, k) THEN Stored(c) \ {k} ELSE Stored(c)
<1>1. c \in Cache /\ IsInjective(c.lru_queue) /\ ToSet(c.lru_queue) = Stored(c)
  BY DEF Tracks
<1>2. CASE Valid(c, k)
  <2>1. Lookup(c, k) = Used(c, k) /\ ~ Expired(c, k)
    BY <1>2 DEF Lookup, Expired
  <2>2. k \in Stored(c)
    BY <1>2 DEF Valid, Stored
  <2>3. /\ Used(c, k) \in Cache /\ Used(c, k).store = c.store
        /\ Stored(Used(c, k)) = Stored(c) /\ IsInjective(Used(c, k).lru_queue)
        /\ ToSet(Used(c, k).lru_queue) = ToSet(c.lru_queue) \cup {k}
    BY <1>1, UsedIs
  <2>4. Tracks(Used(c, k)) /\ Shrinks(c, Used(c, k))
    BY <1>1, <2>2, <2>3 DEF Tracks, Shrinks
  <2> QED
    BY <2>1, <2>3, <2>4
<1>3. CASE Expired(c, k)
  <2>1. Lookup(c, k) = Drop(c, k)
    BY <1>3 DEF Lookup, Expired
  <2> QED
    BY <1>3, <2>1, DropIs
<1>4. CASE ~ Valid(c, k) /\ ~ Expired(c, k)
  <2>1. Lookup(c, k) = c
    BY <1>4 DEF Lookup
  <2> QED
    BY <1>4, <2>1 DEF Shrinks
<1> QED
  BY <1>2, <1>3, <1>4

Entries == {r \in Request : r.op = "set"}

LEMMA EntryFields ==
    ASSUME NEW e \in Entries
    PROVE  /\ e.key \in Key /\ e.value \in Value /\ e.left \in 1 .. MaxTtl
           /\ [value |-> e.value, left |-> e.left] \in Entry
           /\ [value |-> e.value, left |-> e.left] # None
<1>0. MaxTtl \in Nat /\ Ttl \subseteq 1 .. MaxTtl
  BY CacheAssumption
<1>1. e.key \in Key /\ e.value \in Value /\ e.left \in 1 .. MaxTtl
  BY <1>0 DEF Entries, Request
<1>2. [value |-> e.value, left |-> e.left] \in Entry
  BY <1>0, <1>1 DEF Entry
<1> QED
  BY <1>1, <1>2, CacheAssumption

LEMMA InsertIs ==
    ASSUME NEW c, Tracks(c), NEW e \in Entries
    PROVE  /\ Tracks(Insert(c, e))
           /\ Insert(c, e).store =
                [c.store EXCEPT ![e.key] = [value |-> e.value, left |-> e.left]]
           /\ Stored(Insert(c, e)) = Stored(c) \cup {e.key}
<1> DEFINE x == [value |-> e.value, left |-> e.left]
           k == e.key
           d == [c EXCEPT !.store[k] = x]
<1>1. c \in Cache /\ IsInjective(c.lru_queue) /\ ToSet(c.lru_queue) = Stored(c)
  BY DEF Tracks
<1>2. k \in Key /\ x \in Entry /\ x # None
  BY EntryFields
<1>3. Insert(c, e) = Used(d, k)
  BY DEF Insert
<1> HIDE DEF x, k
<1>4. c.store \in [Key -> Entry \cup {None}]
  BY <1>1, CacheFields
<1>5. d \in Cache /\ d.store = [c.store EXCEPT ![k] = x] /\ d.lru_queue = c.lru_queue
  BY <1>1, <1>2, <1>4 DEF Cache
<1> HIDE DEF d
<1>6. Stored(d) = Stored(c) \cup {k}
  BY <1>2, <1>4, <1>5 DEF Stored
<1>7. /\ Used(d, k) \in Cache /\ Used(d, k).store = d.store
      /\ Stored(Used(d, k)) = Stored(d) /\ IsInjective(Used(d, k).lru_queue)
      /\ ToSet(Used(d, k).lru_queue) = ToSet(d.lru_queue) \cup {k}
  BY <1>1, <1>2, <1>5, UsedIs
<1>8. Tracks(Used(d, k))
  BY <1>1, <1>5, <1>6, <1>7 DEF Tracks
<1> QED
  BY <1>3, <1>5, <1>6, <1>7, <1>8 DEF x, k

LEMMA PopIs ==
    ASSUME NEW c, Tracks(c), NEW n \in 0 .. Len(c.lru_queue)
    PROVE  /\ Tracks(Pop(c, n))
           /\ Stored(Pop(c, n)) = Stored(c) \ ToSet(Popped(c, n))
           /\ Shrinks(c, Pop(c, n))
           /\ n = Len(c.lru_queue) => Stored(Pop(c, n)) = {}
           /\ n = 0 => ToSet(Popped(c, n)) = {}
<1>1. c \in Cache /\ IsInjective(c.lru_queue) /\ ToSet(c.lru_queue) = Stored(c)
  BY DEF Tracks
<1>2. c.store \in [Key -> Entry \cup {None}]
  BY <1>1, CacheFields
<1>3. PICK q \in Seq(Key) : q = c.lru_queue
  BY <1>1, CacheFields
<1> DEFINE a == SubSeq(q, 1, Len(q) - n)
           b == ToSet(SubSeq(q, Len(q) - n + 1, Len(q)))
           d == Pop(c, n)
<1>4. /\ a \in Seq(Key) /\ IsInjective(a) /\ ToSet(a) = ToSet(q) \ b
      /\ n = Len(q) => b = ToSet(q)
      /\ n = 0 => b = {}
  BY <1>1, <1>3, PopBack
<1>5. ToSet(Popped(c, n)) = b
  BY <1>3 DEF Popped
<1>6. /\ d = [store |-> [k \in Key |-> IF k \in b THEN None ELSE c.store[k]],
              lru_queue |-> a]
  BY <1>3, <1>5 DEF Pop
<1> HIDE DEF a, b
<1>7. /\ d.store = [k \in Key |-> IF k \in b THEN None ELSE c.store[k]]
      /\ d.lru_queue = a /\ d \in Cache
  BY <1>2, <1>4, <1>6 DEF Cache
<1> HIDE DEF d
<1>8. Stored(d) = Stored(c) \ b
  BY <1>7 DEF Stored
<1>9. Shrinks(c, d)
  BY <1>7 DEF Shrinks
<1>10. Tracks(d)
  BY <1>1, <1>3, <1>4, <1>7, <1>8 DEF Tracks
<1> QED
  BY <1>1, <1>3, <1>4, <1>5, <1>8, <1>9, <1>10 DEF d

LEMMA StoredFinite ==
    ASSUME NEW c, Tracks(c)
    PROVE  IsFiniteSet(Stored(c)) /\ Cardinality(Stored(c)) \in Nat
<1>1. PICK q \in Seq(Key) : q = c.lru_queue
  BY CacheFields DEF Tracks
<1>2. IsFiniteSet(1 .. Len(q))
  BY FS_Interval
<1>3. Stored(c) = {q[i] : i \in 1 .. Len(q)}
  BY <1>1 DEF Tracks, ToSet
<1>4. IsFiniteSet({q[i] : i \in 1 .. Len(q)})
  <2> DEFINE S == 1 .. Len(q)
             T == {q[i] : i \in S}
             f == [i \in S |-> q[i]]
  <2>1. f \in Surjection(S, T)
    BY DEF Surjection
  <2> HIDE DEF S, T, f
  <2>2. IsFiniteSet(T)
    BY <1>2, <2>1, FS_Surjection DEF S
  <2> QED
    BY <2>2 DEF S, T
<1> QED
  BY <1>3, <1>4, FS_CardinalityType

(* The loop that evicts ends with the cache within its bound. *)
LEMMA EvictIs ==
    ASSUME NEW c, Tracks(c), max_size \in Nat
    PROVE  /\ Tracks(Evict(c))
           /\ Stored(Evict(c)) = Stored(c) \ ToSet(Popped(c, Evicted(c)))
           /\ Shrinks(c, Evict(c))
           /\ max_size > 0 => Cardinality(Stored(Evict(c))) <= max_size
<1> DEFINE l == Len(c.lru_queue)
           Fits(n) == n = l \/ Cardinality(Stored(Pop(c, n))) <= max_size
           Needed(n) == /\ Fits(n)
                        /\ \A i \in 0 .. n - 1 : Cardinality(Stored(Pop(c, i))) > max_size
<1>0. l \in Nat
  BY CacheFields DEF Tracks
<1>1. ASSUME NEW n \in 0 .. l
      PROVE  Cardinality(Stored(Pop(c, n))) \in Nat
  BY <1>1, PopIs, StoredFinite
<1>2. ASSUME max_size # 0
      PROVE  Evicted(c) \in 0 .. l /\ Fits(Evicted(c))
  <2> DEFINE T == {n \in 0 .. l : Fits(n)}
  <2>1. T \in SUBSET Nat /\ l \in T
    BY <1>0
  <2>2. PICK n \in T : \A k \in T : n <= k
    <3> HIDE DEF T
    <3> QED
      BY <2>1, LeastExists
  <2>3. n \in 0 .. l /\ Needed(n)
    <3>1. n \in 0 .. l /\ Fits(n)
      OBVIOUS
    <3>2. ASSUME NEW i \in 0 .. n - 1 PROVE Cardinality(Stored(Pop(c, i))) > max_size
      <4>1. i \in 0 .. l /\ ~ (n <= i)
        BY <1>0, <3>1
      <4>2. i \notin T
        <5> HIDE DEF T
        <5> QED
          BY <2>2, <4>1
      <4>3. ~ (Cardinality(Stored(Pop(c, i))) <= max_size)
        BY <4>1, <4>2
      <4> QED
        BY <1>1, <4>1, <4>3
    <3> QED
      BY <3>1, <3>2
  <2>4. Evicted(c) = CHOOSE m \in 0 .. l : Needed(m)
    BY <1>2 DEF Evicted
  <2> HIDE DEF Needed
  <2>5. Evicted(c) \in 0 .. l /\ Needed(Evicted(c))
    BY <2>3, <2>4, Zenon
  <2> QED
    BY <2>5 DEF Needed
<1>3. Evicted(c) \in 0 .. l
  <2>1. CASE max_size = 0
    BY <1>0, <2>1 DEF Evicted
  <2> QED
    BY <1>2, <2>1
<1>4. PICK n \in 0 .. l : n = Evicted(c)
  BY <1>3
<1>5. /\ Tracks(Pop(c, n)) /\ Shrinks(c, Pop(c, n))
      /\ Stored(Pop(c, n)) = Stored(c) \ ToSet(Popped(c, n))
      /\ n = l => Stored(Pop(c, n)) = {}
  BY PopIs
<1>6. max_size > 0 => Cardinality(Stored(Pop(c, n))) <= max_size
  <2> SUFFICES ASSUME max_size > 0 PROVE Cardinality(Stored(Pop(c, n))) <= max_size
    OBVIOUS
  <2>1. CASE n = l
    <3>1. Cardinality(Stored(Pop(c, n))) = 0
      BY <1>5, <2>1, FS_EmptySet
    <3> QED
      BY <3>1
  <2>2. CASE n # l
    BY <1>2, <1>4, <2>2
  <2> QED
    BY <2>1, <2>2
<1> HIDE DEF l
<1> QED
  BY <1>4, <1>5, <1>6 DEF Evict

(* Every entry of a map was in the old map, or is one of the entries es. *)
As(e) == [value |-> e.value, left |-> e.left]
WritesOnly(s, new, es) ==
    \A k \in Key :
        new[k] # None => new[k] = s[k] \/ \E e \in es : k = e.key /\ new[k] = As(e)

(* A batch of reads moves keys to the front and drops the expired ones. *)
LEMMA EachLookup ==
    ASSUME NEW c, Tracks(c), NEW s \in Seq(Key)
    PROVE  /\ Tracks(Each(Lookup, c, s))
           /\ Shrinks(c, Each(Lookup, c, s))
<1> DEFINE S == {d \in Cache : Tracks(d) /\ Shrinks(c, d)}
           op == [x \in Key |-> [d \in S |-> Lookup(d, x)]]
           Is(g) == g = [i \in 0 .. Len(s) |->
                            IF i = 0 THEN c ELSE Lookup(g[i - 1], s[i])]
<1>0. c \in S /\ Len(s) \in Nat
  BY DEF Tracks, Shrinks
<1>1. ASSUME NEW d \in S, NEW x \in Key PROVE Lookup(d, x) \in S
  <2>1. Tracks(Lookup(d, x)) /\ Shrinks(d, Lookup(d, x))
    BY LookupIs
  <2> QED
    BY <2>1 DEF Tracks, Shrinks
<1> HIDE DEF S
<1>2. op \in [Key -> [S -> S]]
  BY <1>1
<1>3. PICK g : LoopOf(g, S, op, c, s)
  <2>1. PICK F \in [Key -> [S -> S]] : F = op
    BY <1>2
  <2> HIDE DEF op
  <2>2. PICK h : LoopOf(h, S, F, c, s)
    BY <1>0, LoopExists
  <2> QED
    BY <2>1, <2>2
<1>4. Is(g)
  <2>1. ASSUME NEW i \in 0 .. Len(s)
        PROVE  g[i] = IF i = 0 THEN c ELSE Lookup(g[i - 1], s[i])
    <3>1. CASE i = 0
      BY <1>3, <3>1 DEF LoopOf
    <3>2. CASE i # 0
      <4>1. i \in 1 .. Len(s) /\ i - 1 \in 0 .. Len(s)
        BY <1>0, <3>2
      <4>2. s[i] \in Key /\ g[i - 1] \in S
        BY <1>3, <4>1 DEF LoopOf
      <4>3. op[s[i]][g[i - 1]] = Lookup(g[i - 1], s[i])
        BY <4>2
      <4> HIDE DEF op
      <4> QED
        BY <1>3, <3>2, <4>3 DEF LoopOf
    <3> QED
      BY <3>1, <3>2
  <2> QED
    BY <1>3, <2>1 DEF LoopOf
<1> DEFINE f == CHOOSE h : Is(h)
<1>5. Is(f)
  BY <1>4, Zenon
<1>6. Each(Lookup, c, s) = f[Len(s)]
  BY Zenon DEF Each
<1> HIDE DEF f
<1>7. f[0] = c /\ \A i \in 1 .. Len(s) : f[i] = Lookup(f[i - 1], s[i])
  BY <1>0, <1>5
<1> DEFINE P == {i \in 0 .. Len(s) : f[i] \in S}
<1>8. 0 \in P
  BY <1>0, <1>7
<1>9. ASSUME NEW i \in 1 .. Len(s), i - 1 \in P PROVE i \in P
  BY <1>1, <1>7, <1>9
<1>10. Len(s) \in P
  <2> HIDE DEF P
  <2> QED
    BY <1>0, <1>8, <1>9, CountingUp
<1> QED
  BY <1>6, <1>10 DEF S

(* A batch of writes stores entries of the batch only, and tracks them. *)
LEMMA EachInsert ==
    ASSUME NEW c, Tracks(c), NEW s \in Seq(Entries)
    PROVE  /\ Tracks(Each(Insert, c, s))
           /\ WritesOnly(c.store, Each(Insert, c, s).store, ToSet(s))
<1>a. PICK E : E = ToSet(s)
  OBVIOUS
<1>b. E \subseteq Entries /\ Len(s) \in Nat /\ \A i \in 1 .. Len(s) : s[i] \in E
  BY <1>a DEF ToSet
<1>c. s \in Seq(E)
  <2>1. s \in [1 .. Len(s) -> E] /\ Len(s) \in Nat
    BY <1>b
  <2> QED
    BY <2>1
<1> DEFINE S == {d \in Cache : Tracks(d) /\ WritesOnly(c.store, d.store, E)}
           op == [x \in E |-> [d \in S |-> Insert(d, x)]]
           Is(g) == g = [i \in 0 .. Len(s) |->
                            IF i = 0 THEN c ELSE Insert(g[i - 1], s[i])]
<1>0. c \in S /\ Len(s) \in Nat
  BY DEF Tracks, WritesOnly
<1>1. ASSUME NEW d \in S, NEW x \in E PROVE Insert(d, x) \in S
  <2>1. PICK e \in Entries : e = x
    BY <1>b
  <2>2. /\ Tracks(Insert(d, e))
        /\ Insert(d, e).store = [d.store EXCEPT ![e.key] = As(e)]
    BY InsertIs DEF As
  <2>3. d.store \in [Key -> Entry \cup {None}] /\ e.key \in Key
    BY CacheFields, EntryFields
  <2>4. WritesOnly(d.store, Insert(d, e).store, {e})
    BY <2>2, <2>3 DEF WritesOnly
  <2>5. WritesOnly(c.store, Insert(d, e).store, E)
    BY <2>1, <2>4 DEF WritesOnly
  <2> QED
    BY <2>1, <2>2, <2>5 DEF Tracks
<1> HIDE DEF S
<1>2. op \in [E -> [S -> S]]
  BY <1>1
<1>3. PICK g : LoopOf(g, S, op, c, s)
  <2>1. PICK F \in [E -> [S -> S]] : F = op
    BY <1>2
  <2> HIDE DEF op
  <2>2. PICK h : LoopOf(h, S, F, c, s)
    BY <1>0, <1>c, LoopExists
  <2> QED
    BY <2>1, <2>2
<1>4. Is(g)
  <2>1. ASSUME NEW i \in 0 .. Len(s)
        PROVE  g[i] = IF i = 0 THEN c ELSE Insert(g[i - 1], s[i])
    <3>1. CASE i = 0
      BY <1>3, <3>1 DEF LoopOf
    <3>2. CASE i # 0
      <4>1. i \in 1 .. Len(s) /\ i - 1 \in 0 .. Len(s)
        BY <1>0, <3>2
      <4>2. s[i] \in E /\ g[i - 1] \in S
        BY <1>3, <1>b, <4>1 DEF LoopOf
      <4>3. op[s[i]][g[i - 1]] = Insert(g[i - 1], s[i])
        BY <4>2
      <4> HIDE DEF op
      <4> QED
        BY <1>3, <3>2, <4>3 DEF LoopOf
    <3> QED
      BY <3>1, <3>2
  <2> QED
    BY <1>3, <2>1 DEF LoopOf
<1> DEFINE f == CHOOSE h : Is(h)
<1>5. Is(f)
  BY <1>4, Zenon
<1>6. Each(Insert, c, s) = f[Len(s)]
  BY Zenon DEF Each
<1> HIDE DEF f
<1>7. f[0] = c /\ \A i \in 1 .. Len(s) : f[i] = Insert(f[i - 1], s[i])
  BY <1>0, <1>5
<1> DEFINE P == {i \in 0 .. Len(s) : f[i] \in S}
<1>8. 0 \in P
  BY <1>0, <1>7
<1>9. ASSUME NEW i \in 1 .. Len(s), i - 1 \in P PROVE i \in P
  BY <1>1, <1>7, <1>9, <1>b
<1>10. Len(s) \in P
  <2> HIDE DEF P
  <2> QED
    BY <1>0, <1>8, <1>9, CountingUp
<1> QED
  BY <1>6, <1>10, <1>a DEF S

-----------------------------------------------------------------------------
(* The in-memory cache *)

Bounded(c, u) == max_size > 0 => Cardinality(Stored(c) \ u) <= max_size

MemoryInv ==
    /\ max_size \in Nat
    /\ lock \in Task \cup {None}
    /\ mirror \subseteq Key
    /\ batched \in BOOLEAN
    /\ unevicted \subseteq Key
    /\ Tracks(cache)
    /\ Bounded(cache, unevicted)
    /\ MirrorExact

LEMMA MemoryUnchanged ==
    MemoryInv /\ UNCHANGED memoryVars => MemoryInv'
  BY DEF MemoryInv, memoryVars, Tracks, Bounded, MirrorExact, Stored, Cache, Entry

(* Nothing but the lock changes hands. *)
LEMMA OnlyLockMoves ==
    ASSUME MemoryInv, lock' \in Task \cup {None},
           UNCHANGED <<max_size, cache, mirror, batched, unevicted>>
    PROVE  MemoryInv'
  BY DEF MemoryInv, Tracks, Bounded, MirrorExact, Stored, Cache, Entry

LEMMA FewerFit ==
    ASSUME max_size \in Nat, NEW c, Tracks(c), NEW u, Bounded(c, u), NEW d, NEW v,
           Stored(d) \ v \subseteq Stored(c) \ u
    PROVE  Bounded(d, v)
<1>1. IsFiniteSet(Stored(c))
  BY StoredFinite
<1>2. PICK S : S = Stored(c) \ u
  OBVIOUS
<1>3. IsFiniteSet(S)
  <2>1. PICK W : W = Stored(c)
    OBVIOUS
  <2>2. S \in SUBSET W
    BY <1>2, <2>1
  <2> QED
    BY <1>1, <2>1, <2>2, FS_Subset
<1>4. PICK T \in SUBSET S : T = Stored(d) \ v
  BY <1>2
<1>5. Cardinality(T) <= Cardinality(S) /\ Cardinality(S) \in Nat /\ Cardinality(T) \in Nat
  BY <1>3, <1>4, FS_Subset, FS_CardinalityType
<1> QED
  BY <1>2, <1>4, <1>5 DEF Bounded

LEMMA ShrinksStored ==
    ASSUME NEW c, NEW d, Shrinks(c, d)
    PROVE  Stored(d) \subseteq Stored(c) /\ WritesOnly(c.store, d.store, {})
  BY DEF Shrinks, Stored, WritesOnly

LEMMA GetKeeps ==
    ASSUME MemoryInv, NEW k \in Key, get_raw_with_expiry(k), max_size' = max_size,
           lock' \in Task \cup {None}
    PROVE  MemoryInv' /\ WritesOnly(cache.store, cache'.store, {})
<1>1. cache' = Lookup(cache, k) /\ batched' = batched /\ unevicted' = unevicted
  BY DEF get_raw_with_expiry
<1>2. /\ Tracks(cache') /\ Shrinks(cache, cache')
      /\ Stored(cache') = IF Expired(cache, k) THEN Stored(cache) \ {k} ELSE Stored(cache)
  <2>1. /\ Tracks(Lookup(cache, k)) /\ Shrinks(cache, Lookup(cache, k))
        /\ Stored(Lookup(cache, k)) =
             IF Expired(cache, k) THEN Stored(cache) \ {k} ELSE Stored(cache)
    BY LookupIs DEF MemoryInv
  <2> QED
    BY <1>1, <2>1
<1>3. Bounded(cache, unevicted)'
  <2>1. Stored(cache') \ unevicted \subseteq Stored(cache) \ unevicted
    BY <1>2
  <2>2. Bounded(cache', unevicted)
    BY <2>1, FewerFit DEF MemoryInv
  <2> QED
    BY <1>1, <2>2 DEF Bounded
<1>4. mirror' = IF Expired(cache, k) THEN mirror \ {k} ELSE mirror
  BY DEF get_raw_with_expiry
<1>5. MirrorExact'
  BY <1>1, <1>2, <1>4 DEF MemoryInv, MirrorExact
<1>6. Tracks(cache)'
  BY <1>2 DEF Tracks, Stored, Cache, Entry
<1>7. WritesOnly(cache.store, cache'.store, {})
  BY <1>2, ShrinksStored
<1> QED
  BY <1>1, <1>3, <1>4, <1>5, <1>6, <1>7 DEF MemoryInv

(* An insertion may exceed the bound by the key it inserts. *)
LEMMA SetKeeps ==
    ASSUME MemoryInv, NEW e \in Entries, set_raw(e), max_size' = max_size,
           lock' \in Task \cup {None}
    PROVE  MemoryInv' /\ WritesOnly(cache.store, cache'.store, {e})
<1>1. /\ cache' = Insert(cache, e) /\ mirror' = mirror \cup {e.key}
      /\ batched' = batched
      /\ unevicted' = IF max_size = 0 THEN unevicted ELSE unevicted \cup {e.key}
  BY DEF set_raw
<1>2. /\ Tracks(Insert(cache, e)) /\ Stored(Insert(cache, e)) = Stored(cache) \cup {e.key}
      /\ Insert(cache, e).store = [cache.store EXCEPT ![e.key] = As(e)]
  BY InsertIs DEF MemoryInv, As
<1>3. e.key \in Key
  BY EntryFields
<1>4. /\ Tracks(cache') /\ Stored(cache') = Stored(cache) \cup {e.key}
      /\ cache'.store = [cache.store EXCEPT ![e.key] = As(e)]
  BY <1>1, <1>2
<1>5. Bounded(cache, unevicted)'
  <2>1. CASE max_size = 0
    BY <2>1 DEF Bounded
  <2>2. CASE max_size # 0
    <3>1. Stored(cache') \ unevicted' \subseteq Stored(cache) \ unevicted
      BY <1>1, <1>4, <2>2
    <3>2. PICK v : v = unevicted'
      OBVIOUS
    <3>3. Bounded(cache', v)
      BY <3>1, <3>2, FewerFit DEF MemoryInv
    <3> QED
      BY <3>2, <3>3 DEF Bounded
  <2> QED
    BY <2>1, <2>2
<1>6. Tracks(cache)'
  BY <1>4 DEF Tracks, Stored, Cache, Entry
<1>7. MirrorExact'
  BY <1>1, <1>4 DEF MemoryInv, MirrorExact
<1>8. MemoryInv'
  BY <1>1, <1>3, <1>5, <1>6, <1>7 DEF MemoryInv
<1>9. cache.store \in [Key -> Entry \cup {None}]
  BY CacheFields DEF MemoryInv, Tracks
<1>10. WritesOnly(cache.store, cache'.store, {e})
  BY <1>3, <1>4, <1>9 DEF WritesOnly
<1> QED
  BY <1>8, <1>10

(* An eviction brings the cache back within its bound. *)
LEMMA EvictKeeps ==
    ASSUME MemoryInv, EvictOverLimit, max_size' = max_size, lock' \in Task \cup {None}
    PROVE  MemoryInv' /\ WritesOnly(cache.store, cache'.store, {})
<1> DEFINE gone == ToSet(Popped(cache, Evicted(cache)))
<1>1. /\ cache' = Evict(cache) /\ mirror' = mirror \ gone /\ unevicted' = {}
      /\ batched' = batched
  BY DEF EvictOverLimit
<1>2. /\ Tracks(Evict(cache)) /\ Stored(Evict(cache)) = Stored(cache) \ gone
      /\ Shrinks(cache, Evict(cache))
      /\ max_size > 0 => Cardinality(Stored(Evict(cache))) <= max_size
  BY EvictIs DEF MemoryInv
<1> HIDE DEF gone
<1>3. /\ Tracks(cache') /\ Stored(cache') = Stored(cache) \ gone
      /\ Shrinks(cache, cache')
      /\ max_size > 0 => Cardinality(Stored(cache')) <= max_size
  BY <1>1, <1>2
<1>4. Stored(cache') \ {} = Stored(cache')
  OBVIOUS
<1>5. Bounded(cache, unevicted)'
  BY <1>1, <1>3, <1>4 DEF Bounded
<1>6. Tracks(cache)'
  BY <1>3 DEF Tracks, Stored, Cache, Entry
<1>7. MirrorExact'
  BY <1>1, <1>3 DEF MemoryInv, MirrorExact
<1>8. WritesOnly(cache.store, cache'.store, {})
  BY <1>3, ShrinksStored
<1> QED
  BY <1>1, <1>5, <1>6, <1>7, <1>8 DEF MemoryInv

LEMMA DeleteKeeps ==
    ASSUME MemoryInv, NEW k \in Key, Delete(k), max_size' = max_size,
           lock' \in Task \cup {None}
    PROVE  MemoryInv' /\ WritesOnly(cache.store, cache'.store, {})
<1>1. /\ cache' = Drop(cache, k) /\ batched' = batched /\ unevicted' = unevicted
      /\ mirror' = IF cache.store[k] # None THEN mirror \ {k} ELSE mirror
  BY DEF Delete
<1>2. /\ Tracks(cache') /\ Shrinks(cache, cache') /\ Stored(cache') = Stored(cache) \ {k}
  <2>1. /\ Tracks(Drop(cache, k)) /\ Shrinks(cache, Drop(cache, k))
        /\ Stored(Drop(cache, k)) = Stored(cache) \ {k}
    BY DropIs DEF MemoryInv
  <2> QED
    BY <1>1, <2>1
<1>3. Bounded(cache, unevicted)'
  <2>1. Stored(cache') \ unevicted \subseteq Stored(cache) \ unevicted
    BY <1>2
  <2>2. Bounded(cache', unevicted)
    BY <2>1, FewerFit DEF MemoryInv
  <2> QED
    BY <1>1, <2>2 DEF Bounded
<1>4. Tracks(cache)'
  BY <1>2 DEF Tracks, Stored, Cache, Entry
<1>5. MirrorExact'
  <2>1. cache.store[k] = None => k \notin Stored(cache)
    BY DEF Stored
  <2> QED
    BY <1>1, <1>2, <2>1 DEF MemoryInv, MirrorExact
<1>6. WritesOnly(cache.store, cache'.store, {})
  BY <1>2, ShrinksStored
<1> QED
  BY <1>1, <1>3, <1>4, <1>5, <1>6 DEF MemoryInv

LEMMA BatchIsSeq ==
    ASSUME NEW S, NEW s \in Batch(S)
    PROVE  s \in Seq(S)
<1>1. PICK n \in 0 .. MaxBatch : s \in [1 .. n -> S]
  BY DEF Batch
<1>2. n \in Nat
  BY CacheAssumption
<1> QED
  BY <1>1, <1>2

LEMMA GetBatchKeeps ==
    ASSUME MemoryInv, NEW s \in Seq(Key), get_batch(s), max_size' = max_size,
           lock' \in Task \cup {None}
    PROVE  MemoryInv' /\ WritesOnly(cache.store, cache'.store, {})
<1>1. Tracks(Each(Lookup, cache, s)) /\ Shrinks(cache, Each(Lookup, cache, s))
  BY EachLookup DEF MemoryInv
<1>2. cache' = Each(Lookup, cache, s) /\ batched' = TRUE /\ UNCHANGED <<mirror, unevicted>>
  BY DEF get_batch
<1>3. Tracks(cache') /\ Shrinks(cache, cache')
  BY <1>1, <1>2
<1>4. Stored(cache') \subseteq Stored(cache) /\ WritesOnly(cache.store, cache'.store, {})
  BY <1>3, ShrinksStored
<1>5. Bounded(cache, unevicted)'
  <2>1. Stored(cache') \ unevicted \subseteq Stored(cache) \ unevicted
    BY <1>4
  <2>2. Bounded(cache', unevicted)
    BY <2>1, FewerFit DEF MemoryInv
  <2> QED
    BY <1>2, <2>2 DEF Bounded
<1>6. Tracks(cache)'
  BY <1>3 DEF Tracks, Stored, Cache, Entry
<1>7. MirrorExact'
  BY <1>2 DEF MirrorExact
<1> QED
  BY <1>2, <1>4, <1>5, <1>6, <1>7 DEF MemoryInv

LEMMA SetBatchKeeps ==
    ASSUME MemoryInv, NEW s \in Seq(Entries), set_batch(s), max_size' = max_size,
           lock' \in Task \cup {None}
    PROVE  MemoryInv' /\ WritesOnly(cache.store, cache'.store, ToSet(s))
<1>1. PICK c : c = Each(Insert, cache, s)
  OBVIOUS
<1>2. Tracks(c) /\ WritesOnly(cache.store, c.store, ToSet(s))
  BY <1>1, EachInsert DEF MemoryInv
<1>3. cache' = Evict(c) /\ batched' = TRUE /\ unevicted' = {} /\ mirror' = mirror
  BY <1>1 DEF set_batch
<1>4. /\ Tracks(Evict(c)) /\ Shrinks(c, Evict(c))
      /\ max_size > 0 => Cardinality(Stored(Evict(c))) <= max_size
  BY <1>2, EvictIs DEF MemoryInv
<1>5. /\ Tracks(cache') /\ Shrinks(c, cache')
      /\ max_size > 0 => Cardinality(Stored(cache')) <= max_size
  BY <1>3, <1>4
<1>6. Bounded(cache, unevicted)'
  <2>1. Stored(cache') \ {} = Stored(cache')
    OBVIOUS
  <2> QED
    BY <1>3, <1>5, <2>1 DEF Bounded
<1>7. Tracks(cache)'
  BY <1>5 DEF Tracks, Stored, Cache, Entry
<1>8. MirrorExact'
  BY <1>3 DEF MirrorExact
<1>9. WritesOnly(cache.store, cache'.store, ToSet(s))
  BY <1>2, <1>5 DEF Shrinks, WritesOnly
<1> QED
  BY <1>3, <1>6, <1>7, <1>8, <1>9 DEF MemoryInv

(* Time passes: entries age and stay. *)
LEMMA OlderKeeps ==
    ASSUME MemoryInv, cache' = Older(cache), UNCHANGED <<max_size, lock, mirror, batched, unevicted>>
    PROVE  /\ MemoryInv'
           /\ \A k \in Key : cache'.store[k] # None =>
                 /\ cache.store[k] # None /\ cache'.store[k].value = cache.store[k].value
                 /\ cache'.store[k].left = 0 \/ cache'.store[k].left = cache.store[k].left - 1
<1>1. cache \in Cache /\ cache.store \in [Key -> Entry \cup {None}]
  BY CacheFields DEF MemoryInv, Tracks
<1>2. ASSUME NEW e \in Entry \cup {None}
      PROVE  /\ Aged(e) \in Entry \cup {None} /\ (Aged(e) = None <=> e = None)
             /\ e # None => /\ Aged(e).value = e.value
                            /\ Aged(e).left = 0 \/ Aged(e).left = e.left - 1
  <2>1. CASE e = None \/ e.left = 0
    BY <2>1 DEF Aged
  <2>2. CASE ~ (e = None \/ e.left = 0)
    <3>1. e \in Entry /\ e.left \in Nat /\ e.left # 0
      BY <2>2 DEF Entry
    <3>2. Aged(e) \in Entry /\ Aged(e).value = e.value /\ Aged(e).left = e.left - 1
      BY <2>2, <3>1 DEF Entry, Aged
    <3> QED
      BY <3>1, <3>2, CacheAssumption
  <2> QED
    BY <2>1, <2>2
<1>3. cache' = [cache EXCEPT !.store = [k \in Key |-> Aged(cache.store[k])]]
  BY DEF Older
<1>4. /\ cache'.store = [k \in Key |-> Aged(cache.store[k])]
      /\ cache'.lru_queue = cache.lru_queue
  BY <1>1, <1>3 DEF Cache
<1>5. cache' \in Cache
  BY <1>1, <1>2, <1>3 DEF Cache
<1>6. Stored(cache') = Stored(cache)
  BY <1>1, <1>2, <1>4 DEF Stored
<1>7. Tracks(cache') /\ Bounded(cache', unevicted)
  BY <1>4, <1>5, <1>6 DEF MemoryInv, Tracks, Bounded
<1>8. Tracks(cache)' /\ Bounded(cache, unevicted)' /\ MirrorExact'
  BY <1>6, <1>7 DEF MemoryInv, Tracks, Stored, Cache, Entry, Bounded, MirrorExact
<1>9. MemoryInv'
  BY <1>8 DEF MemoryInv
<1> QED
  BY <1>1, <1>2, <1>4, <1>9

-----------------------------------------------------------------------------
(* The breaker, the health state and the bulkhead *)

LEMMA Numbers ==
    /\ FailureThreshold \in Nat \ {0} /\ HalfOpenMaxCalls \in Nat \ {0}
    /\ MaxConcurrent \in Nat \ {0}
    /\ BackoffBase \in Nat /\ BackoffMax \in Nat /\ ExponentCap \in Nat /\ HealthMax \in Nat
    /\ MaxFailures \in Nat \ {0}
  BY BackendAssumption DEF MaxFailures

LEMMA BreakerFields ==
    ASSUME NEW b \in Breaker
    PROVE  /\ b.state \in {"Closed", "Open", "HalfOpen"}
           /\ b.consecutive_failures \in 0 .. MaxFailures
           /\ b.half_open_calls \in 0 .. HalfOpenMaxCalls
           /\ b.opened_at \in 0 .. BackoffMax
  BY DEF Breaker

LEMMA IncrementTyped ==
    ASSUME NEW n \in 0 .. MaxFailures
    PROVE  Increment(n) \in 0 .. MaxFailures
  BY Numbers DEF Increment, Least

LEMMA TransitionTyped ==
    ASSUME NEW b \in Breaker, NEW new \in {"Closed", "Open", "HalfOpen"}
    PROVE  TransitionTo(b, new) \in Breaker
<1>1. 0 \in 0 .. MaxFailures /\ 0 \in 0 .. HalfOpenMaxCalls /\ 0 \in 0 .. BackoffMax
  BY Numbers
<1> QED
  BY <1>1, BreakerFields DEF TransitionTo, Breaker

LEMMA BreakerTyped ==
    ASSUME NEW b \in Breaker
    PROVE  /\ Asked(b) \in Breaker
           /\ RecordSuccess(b) \in Breaker
           /\ RecordFailure(b) \in Breaker
           /\ [b EXCEPT !.opened_at = Least(@ + 1, BackoffMax)] \in Breaker
<1>1. Asked(b) \in Breaker
  BY TransitionTyped DEF Asked
<1>2. RecordSuccess(b) \in Breaker
  <2>1. 0 \in 0 .. MaxFailures
    BY Numbers
  <2>2. CASE b.state = "Closed"
    BY <2>1, <2>2 DEF RecordSuccess, Breaker
  <2>3. CASE b.state = "HalfOpen" /\ b.half_open_calls + 1 >= HalfOpenMaxCalls
    BY <2>3, TransitionTyped DEF RecordSuccess
  <2>4. CASE b.state = "HalfOpen" /\ ~ (b.half_open_calls + 1 >= HalfOpenMaxCalls)
    <3> DEFINE n == b.half_open_calls + 1
    <3>1. n \in 0 .. HalfOpenMaxCalls
      BY <2>4, BreakerFields, Numbers
    <3>2. RecordSuccess(b) = [b EXCEPT !.half_open_calls = n]
      BY <2>4 DEF RecordSuccess, Breaker
    <3> HIDE DEF n
    <3> QED
      BY <3>1, <3>2 DEF Breaker
  <2>5. CASE b.state = "Open"
    BY <2>5 DEF RecordSuccess
  <2> QED
    BY <2>2, <2>3, <2>4, <2>5, BreakerFields
<1>3. RecordFailure(b) \in Breaker
  <2> DEFINE n == Increment(b.consecutive_failures)
             more == [b EXCEPT !.consecutive_failures = n]
  <2>1. n \in 0 .. MaxFailures
    BY BreakerFields, IncrementTyped
  <2> HIDE DEF n
  <2>2. more \in Breaker
    BY <2>1 DEF Breaker
  <2>3. RecordFailure(b) \in {more, TransitionTo(more, "Open"), TransitionTo(b, "Open")}
    BY BreakerFields DEF RecordFailure, n, Breaker
  <2> HIDE DEF more
  <2> QED
    BY <2>2, <2>3, TransitionTyped
<1>4. [b EXCEPT !.opened_at = Least(@ + 1, BackoffMax)] \in Breaker
  <2> DEFINE n == Least(b.opened_at + 1, BackoffMax)
  <2>1. n \in 0 .. BackoffMax
    BY BreakerFields, Numbers DEF Least
  <2> HIDE DEF n
  <2>2. [b EXCEPT !.opened_at = n] \in Breaker
    BY <2>1 DEF Breaker
  <2> QED
    BY <2>2 DEF n, Breaker
<1> QED
  BY <1>1, <1>2, <1>3, <1>4

LEMMA HealthTyped ==
    ASSUME NEW h \in Health
    PROVE  /\ HealthSuccess \in Health
           /\ HealthFailure(h) \in Health
           /\ [h EXCEPT !.backoff_left = IF @ = 0 THEN 0 ELSE @ - 1] \in Health
<1>0. h.backoff_left \in 0 .. HealthMax /\ h.consecutive_failures \in 0 .. ExponentCap
  BY DEF Health
<1>1. HealthSuccess \in Health
  BY Numbers DEF HealthSuccess, Health
<1>2. HealthFailure(h) \in Health
  <2> DEFINE n == Least(h.consecutive_failures + 1, ExponentCap)
             p == 2 ^ n
  <2>1. n \in 0 .. ExponentCap
    BY <1>0, Numbers DEF Least
  <2>2. HealthFailure(h) = [backoff_left |-> Least(p, HealthMax), consecutive_failures |-> n]
    BY DEF HealthFailure
  <2> HIDE DEF n
  <2>3. p \in Nat
    BY <2>1, BackendAssumption
  <2> HIDE DEF p
  <2>4. Least(p, HealthMax) \in 0 .. HealthMax
    BY <2>3, Numbers DEF Least
  <2> QED
    BY <2>1, <2>2, <2>4 DEF Health
<1>3. [h EXCEPT !.backoff_left = IF @ = 0 THEN 0 ELSE @ - 1] \in Health
  <2> DEFINE n == IF h.backoff_left = 0 THEN 0 ELSE h.backoff_left - 1
  <2>1. n \in 0 .. HealthMax
    BY <1>0, Numbers
  <2> HIDE DEF n
  <2>2. [h EXCEPT !.backoff_left = n] \in Health
    BY <2>1 DEF Health
  <2> QED
    BY <2>2 DEF n, Health
<1> QED
  BY <1>1, <1>2, <1>3

RemoteInv ==
    /\ backend \in {"Redis", "InMemory"}
    /\ redis \in [Key -> Entry \cup {None}]
    /\ connection \in {"up", "down", "hung"}
    /\ breaker \in Breaker
    /\ health \in Health

Places == {"idle", "allow", "bulkhead", "store", "stats", "evict", "sample"} \cup Permitted
Holding == {t \in Task : pc[t] \in Permitted}

(* The free permits and the calls that have yet to give theirs back make no *)
(* more than the bulkhead was made with, and the calls of an in-memory      *)
(* backend never come near Redis.                                           *)
CallsInv ==
    /\ pc \in [Task -> Places]
    /\ call \in [Task -> Request \cup {None}]
    /\ permits \in Nat
    /\ IsFiniteSet(Holding)
    /\ permits + Cardinality(Holding) <= MaxConcurrent
    /\ backend = "InMemory" =>
          \A t \in Task : pc[t] \notin {"allow", "bulkhead"} \cup Permitted

(* A step of one call that keeps, takes or gives back a permit. *)
LEMMA CallMoves ==
    ASSUME CallsInv, NEW t \in Task, NEW from \in Places, NEW to \in Places, Goto(t, from, to),
           backend' = backend, call' \in [Task -> Request \cup {None}],
           backend = "InMemory" => to \notin {"allow", "bulkhead"} \cup Permitted,
           \/ permits' = permits /\ (from \in Permitted <=> to \in Permitted)
           \/ permits > 0 /\ permits' = permits - 1 /\ from \notin Permitted /\ to \in Permitted
           \/ permits' = permits + 1 /\ from \in Permitted /\ to \notin Permitted
    PROVE  CallsInv'
<1>1. /\ pc' \in [Task -> Places] /\ pc[t] = from /\ pc'[t] = to
      /\ \A u \in Task \ {t} : pc'[u] = pc[u]
  BY DEF CallsInv, Goto
<1>2. backend' = "InMemory" =>
          \A u \in Task : pc'[u] \notin {"allow", "bulkhead"} \cup Permitted
  BY <1>1 DEF CallsInv
<1>3. PICK H : H = Holding /\ IsFiniteSet(H)
  BY DEF CallsInv
<1>4. /\ IsFiniteSet(H \cup {t}) /\ IsFiniteSet(H \ {t}) /\ Cardinality(H) \in Nat
      /\ t \notin H => Cardinality(H \cup {t}) = Cardinality(H) + 1
      /\ t \in H => Cardinality(H \ {t}) = Cardinality(H) - 1
  BY <1>3, FS_AddElement, FS_RemoveElement, FS_CardinalityType
<1>5. permits \in Nat /\ permits + Cardinality(H) <= MaxConcurrent /\ MaxConcurrent \in Nat
  BY <1>3, Numbers DEF CallsInv
<1>6. t \in H <=> from \in Permitted
  BY <1>1, <1>3 DEF Holding
<1>7. /\ to \in Permitted => Holding' = H \cup {t}
      /\ to \notin Permitted => Holding' = H \ {t}
  BY <1>1, <1>3 DEF Holding
<1>8. /\ permits' \in Nat /\ IsFiniteSet(Holding')
      /\ permits' + Cardinality(Holding') <= MaxConcurrent
  <2>1. CASE permits' = permits /\ (from \in Permitted <=> to \in Permitted)
    <3>1. Holding' = H
      BY <1>6, <1>7, <2>1
    <3> QED
      BY <1>3, <1>5, <2>1, <3>1
  <2>2. CASE permits > 0 /\ permits' = permits - 1 /\ from \notin Permitted /\ to \in Permitted
    <3>1. Holding' = H \cup {t} /\ Cardinality(H \cup {t}) = Cardinality(H) + 1
      BY <1>4, <1>6, <1>7, <2>2
    <3> QED
      BY <1>4, <1>5, <2>2, <3>1
  <2>3. CASE permits' = permits + 1 /\ from \in Permitted /\ to \notin Permitted
    <3>1. Holding' = H \ {t} /\ Cardinality(H \ {t}) = Cardinality(H) - 1
      BY <1>4, <1>6, <1>7, <2>3
    <3> QED
      BY <1>4, <1>5, <2>3, <3>1
  <2> QED
    BY <2>1, <2>2, <2>3
<1> QED
  BY <1>1, <1>2, <1>8 DEF CallsInv

LEMMA CallsUnchanged ==
    CallsInv /\ UNCHANGED <<pc, call, permits, backend>> => CallsInv'
  BY DEF CallsInv, Holding

-----------------------------------------------------------------------------
(* The ages of what was written *)

(* The time an entry has left and the time since its value was last written *)
(* make no more than the longest time to live.                              *)
Recent(s, w) == \A k \in Key : s[k] # None => s[k].left + w[k][s[k].value] <= MaxTtl

AgeInv ==
    /\ written \in [Key -> [Value -> 0 .. MaxTtl]]
    /\ Recent(cache.store, written)
    /\ Recent(redis, written)
    /\ \A k \in Key : redis[k] # None => redis[k].left > 0

Pairs(es) == {<<e.key, e.value>> : e \in es}

LEMMA WroteNothing ==
    ASSUME AgeInv, written' = written
    PROVE  Wrote(Pairs({}))
<1>1. Pairs({}) = {}
  BY DEF Pairs
<1>2. written = [k \in Key |-> [v \in Value |-> written[k][v]]]
  <2>1. \A k \in Key : written[k] = [v \in Value |-> written[k][v]]
    BY DEF AgeInv
  <2> QED
    BY <2>1 DEF AgeInv
<1> QED
  BY <1>1, <1>2 DEF Wrote

LEMMA WroteOne ==
    ASSUME NEW e, Wrote({<<e.key, e.value>>})
    PROVE  Wrote(Pairs({e}))
<1>1. Pairs({e}) = {<<e.key, e.value>>}
  BY DEF Pairs
<1> QED
  BY <1>1

LEMMA RecentKept ==
    ASSUME written \in [Key -> [Value -> 0 .. MaxTtl]], NEW es \in SUBSET Entries,
           Wrote(Pairs(es)), NEW s \in [Key -> Entry \cup {None}], NEW new,
           Recent(s, written), WritesOnly(s, new, es)
    PROVE  Recent(new, written')
<1>0. MaxTtl \in Nat /\ None \notin Entry
  BY CacheAssumption
<1> SUFFICES ASSUME NEW k \in Key, new[k] # None
             PROVE  new[k].left + written'[k][new[k].value] <= MaxTtl
  BY DEF Recent
<1>1. \A v \in Value : written'[k][v] = IF <<k, v>> \in Pairs(es) THEN 0 ELSE written[k][v]
  BY DEF Wrote
<1>2. \A v \in Value : written[k][v] \in 0 .. MaxTtl
  OBVIOUS
<1>3. CASE new[k] = s[k]
  <2>1. s[k] # None /\ s[k] \in Entry
    BY <1>3
  <2>2. s[k].left \in Nat /\ s[k].value \in Value
    BY <2>1 DEF Entry
  <2>3. s[k].left + written[k][s[k].value] <= MaxTtl
    BY <2>1 DEF Recent
  <2>4. /\ written[k][s[k].value] \in Nat
        /\ written'[k][s[k].value] \in {0, written[k][s[k].value]}
    <3>1. PICK v \in Value : v = s[k].value
      BY <2>2
    <3>2. written'[k][v] = 0 \/ written'[k][v] = written[k][v]
      BY <1>1
    <3>3. written[k][v] \in Nat
      BY <1>0, <1>2
    <3> QED
      BY <3>1, <3>2, <3>3
  <2>5. s[k].left + written'[k][s[k].value] <= MaxTtl
    BY <1>0, <2>2, <2>3, <2>4
  <2> QED
    BY <1>3, <2>5
<1>4. CASE \E e \in es : k = e.key /\ new[k] = As(e)
  <2>1. PICK e \in es : k = e.key /\ new[k] = As(e)
    BY <1>4
  <2>2. e.value \in Value /\ e.left \in 1 .. MaxTtl
    BY <2>1, EntryFields
  <2>3. new[k].value = e.value /\ new[k].left = e.left
    BY <2>1 DEF As
  <2>4. <<k, e.value>> \in Pairs(es)
    BY <2>1 DEF Pairs
  <2>5. written'[k][e.value] = 0
    BY <1>1, <2>2, <2>4
  <2> QED
    BY <1>0, <2>2, <2>3, <2>5
<1> QED
  BY <1>3, <1>4 DEF WritesOnly

(* A step that writes the entries es, to either store or to none. *)
LEMMA AgesKept ==
    ASSUME AgeInv, NEW es \in SUBSET Entries, Wrote(Pairs(es)),
           cache.store \in [Key -> Entry \cup {None}], redis \in [Key -> Entry \cup {None}],
           WritesOnly(cache.store, cache'.store, es), WritesOnly(redis, redis', es)
    PROVE  AgeInv'
<1>0. MaxTtl \in Nat
  BY CacheAssumption
<1>1. written' \in [Key -> [Value -> 0 .. MaxTtl]]
  <2>1. \A k \in Key, v \in Value : written[k][v] \in 0 .. MaxTtl /\ 0 \in 0 .. MaxTtl
    BY <1>0 DEF AgeInv
  <2> QED
    BY <2>1 DEF Wrote
<1>2. Recent(cache'.store, written')
  <2>1. PICK s \in [Key -> Entry \cup {None}] : s = cache.store
    OBVIOUS
  <2>2. PICK new : new = cache'.store
    OBVIOUS
  <2>3. Recent(new, written')
    BY <2>1, <2>2, RecentKept DEF AgeInv
  <2> QED
    BY <2>2, <2>3
<1>3. Recent(redis', written')
  <2>1. PICK s \in [Key -> Entry \cup {None}] : s = redis
    OBVIOUS
  <2>2. PICK new : new = redis'
    OBVIOUS
  <2>3. Recent(new, written')
    BY <2>1, <2>2, RecentKept DEF AgeInv
  <2> QED
    BY <2>2, <2>3
<1>4. ASSUME NEW k \in Key, redis'[k] # None PROVE redis'[k].left > 0
  <2>1. CASE redis'[k] = redis[k]
    BY <1>4, <2>1 DEF AgeInv
  <2>2. CASE \E e \in es : k = e.key /\ redis'[k] = As(e)
    <3>1. PICK e \in es : redis'[k] = As(e)
      BY <2>2
    <3>2. e.left \in 1 .. MaxTtl
      BY EntryFields
    <3> QED
      BY <1>0, <3>1, <3>2 DEF As
  <2> QED
    BY <1>4, <2>1, <2>2 DEF WritesOnly
<1> QED
  BY <1>1, <1>2, <1>3, <1>4 DEF AgeInv, Recent

LEMMA SameStore == \A s : WritesOnly(s, s, {})
  BY DEF WritesOnly

LEMMA RequestFields ==
    ASSUME NEW r \in Request
    PROVE  /\ r.op \in {"get", "set", "delete"} /\ r.key \in Key
           /\ r.op = "set" => r \in Entries
  BY DEF Request, Entries

(* A command that Redis executes. *)
LEMMA StoresIs ==
    ASSUME NEW r \in Request, redis \in [Key -> Entry \cup {None}],
           redis' = Stores(r, redis)
    PROVE  /\ redis' \in [Key -> Entry \cup {None}]
           /\ WritesOnly(redis, redis', IF r.op = "set" THEN {r} ELSE {})
<1>1. r.op \in {"get", "set", "delete"} /\ r.key \in Key
  BY RequestFields
<1>2. CASE r.op = "get"
  BY <1>2, SameStore DEF Stores
<1>3. CASE r.op = "set"
  <2>1. r \in Entries
    BY <1>3, RequestFields
  <2>2. As(r) \in Entry
    BY <2>1, EntryFields DEF As
  <2>3. redis' = [redis EXCEPT ![r.key] = As(r)]
    BY <1>3 DEF Stores, As
  <2> QED
    BY <1>1, <1>3, <2>2, <2>3 DEF WritesOnly
<1>4. CASE r.op = "delete"
  <2>1. redis' = [redis EXCEPT ![r.key] = None]
    BY <1>4 DEF Stores
  <2> QED
    BY <1>1, <1>4, <2>1 DEF WritesOnly
<1> QED
  BY <1>1, <1>2, <1>3, <1>4

LEMMA RedisWrites ==
    ASSUME AgeInv, NEW r \in Request, redis \in [Key -> Entry \cup {None}],
           cache.store \in [Key -> Entry \cup {None}],
           redis' = Stores(r, redis), Remember(r), cache' = cache
    PROVE  AgeInv'
<1> DEFINE es == IF r.op = "set" THEN {r} ELSE {}
<1>1. es \in SUBSET Entries
  BY RequestFields
<1>2. Wrote(Pairs(es))
  BY WroteOne, WroteNothing DEF Remember
<1>3. WritesOnly(redis, redis', es)
  BY StoresIs
<1> HIDE DEF es
<1>4. WritesOnly(cache.store, cache'.store, es)
  BY DEF WritesOnly
<1> QED
  BY <1>1, <1>2, <1>3, <1>4, AgesKept

-----------------------------------------------------------------------------
(* The steps *)

CacheInv == MemoryInv /\ RemoteInv /\ CallsInv /\ AgeInv

LEMMA StoresTyped ==
    CacheInv => /\ cache.store \in [Key -> Entry \cup {None}]
                /\ redis \in [Key -> Entry \cup {None}]
<1> SUFFICES ASSUME CacheInv PROVE /\ cache.store \in [Key -> Entry \cup {None}]
                                   /\ redis \in [Key -> Entry \cup {None}]
  OBVIOUS
<1>1. cache \in Cache
  BY DEF CacheInv, MemoryInv, Tracks
<1> QED
  BY <1>1, CacheFields DEF CacheInv, RemoteInv

LEMMA AgesUnchanged ==
    ASSUME CacheInv, UNCHANGED <<cache, redis, written>>
    PROVE  AgeInv'
  BY DEF CacheInv, AgeInv, Recent

(* What is left of a step that touches neither store. *)
LEMMA Quiet ==
    ASSUME CacheInv, UNCHANGED <<memoryVars, backend, redis, written>>, RemoteInv', CallsInv'
    PROVE  CacheInv'
<1>1. MemoryInv'
  BY MemoryUnchanged DEF CacheInv
<1>2. cache' = cache
  BY DEF memoryVars
<1>3. AgeInv'
  BY <1>2, AgesUnchanged
<1> QED
  BY <1>1, <1>3 DEF CacheInv

LEMMA RequestsTyped ==
    ASSUME CallsInv, NEW t \in Task
    PROVE  Requests(t) \subseteq Request
  BY DEF CallsInv, Requests

LEMMA CallStep ==
    ASSUME CacheInv, NEW t \in Task, Call(t) \/ StartStats(t)
    PROVE  CacheInv'
<1> USE DEF Places, Permitted
<1>1. UNCHANGED <<memoryVars, backend, redisVars, call, written>>
  BY DEF Call, StartStats, ReadStats
<1>2. PICK to \in Places : /\ Goto(t, "idle", to) /\ to \notin Permitted
                           /\ backend = "InMemory" => to \notin {"allow", "bulkhead"} \cup Permitted
  <2>1. CASE Call(t)
    <3> DEFINE to == IF backend = "Redis" THEN "allow" ELSE "store"
    <3>1. Goto(t, "idle", to)
      BY <2>1 DEF Call
    <3> QED
      BY <3>1
  <2>2. CASE StartStats(t)
    BY <2>2 DEF StartStats, ReadStats
  <2> QED
    BY <2>1, <2>2
<1>3. CallsInv'
  BY <1>1, <1>2, CallMoves DEF CacheInv, CallsInv, redisVars
<1>4. RemoteInv'
  BY <1>1 DEF CacheInv, RemoteInv, redisVars
<1> QED
  BY <1>1, <1>3, <1>4, Quiet DEF redisVars

LEMMA AllowStep ==
    ASSUME CacheInv, NEW t \in Task, Allow(t)
    PROVE  CacheInv'
<1> USE DEF Places, Permitted
<1>1. UNCHANGED <<memoryVars, backend, redis, connection, health, permits, call, written>>
  BY DEF Allow
<1>2. PICK to \in Places : Goto(t, "allow", to) /\ to \in {"bulkhead", "store"}
  <2> DEFINE to == IF ShouldAllow(breaker) THEN "bulkhead" ELSE "store"
  <2>1. Goto(t, "allow", to) /\ to \in {"bulkhead", "store"}
    BY DEF Allow
  <2> HIDE DEF to
  <2> QED
    BY <2>1
<1>3. backend # "InMemory"
  BY <1>2 DEF Goto, CacheInv, CallsInv
<1>4. CallsInv'
  BY <1>1, <1>2, <1>3, CallMoves DEF CacheInv, CallsInv
<1>5. breaker' \in Breaker
  BY BreakerTyped DEF Allow, CacheInv, RemoteInv
<1>6. RemoteInv'
  BY <1>1, <1>5 DEF CacheInv, RemoteInv
<1> QED
  BY <1>1, <1>4, <1>6, Quiet

LEMMA AcquireStep ==
    ASSUME CacheInv, NEW t \in Task, Acquire(t)
    PROVE  CacheInv'
<1> USE DEF Places, Permitted
<1>1. UNCHANGED <<memoryVars, backend, redis, connection, breaker, health, call, written>>
  BY DEF Acquire
<1>2. permits \in Nat /\ call' \in [Task -> Request \cup {None}] /\ CallsInv
  BY <1>1 DEF CacheInv, CallsInv
<1>3. backend # "InMemory"
  BY DEF Acquire, Goto, CacheInv, CallsInv
<1>4. CallsInv'
  <2>1. CASE permits > 0
    <3>1. Goto(t, "bulkhead", "check") /\ permits' = permits - 1
      BY <2>1 DEF Acquire
    <3> QED
      BY <1>1, <1>2, <1>3, <2>1, <3>1, CallMoves
  <2>2. CASE ~ (permits > 0)
    <3>1. Goto(t, "bulkhead", "store") /\ permits' = permits
      BY <2>2 DEF Acquire
    <3> QED
      BY <1>1, <1>2, <1>3, <3>1, CallMoves
  <2> QED
    BY <2>1, <2>2
<1>5. RemoteInv'
  BY <1>1 DEF CacheInv, RemoteInv
<1> QED
  BY <1>1, <1>4, <1>5, Quiet

(* A refused call gives its permit back. *)
LEMMA RefusedIs ==
    ASSUME CacheInv, NEW t \in Task, NEW from \in Permitted, Refused(t, from),
           backend' = backend, call' \in [Task -> Request \cup {None}]
    PROVE  CallsInv' /\ breaker' \in Breaker
<1>1. Goto(t, from, "store") /\ permits' = permits + 1 /\ breaker' = RecordFailure(breaker)
  BY DEF Refused
<1>2. from \in Places /\ "store" \in Places /\ "store" \notin {"allow", "bulkhead"} \cup Permitted
  BY DEF Places, Permitted
<1>3. CallsInv /\ breaker \in Breaker
  BY DEF CacheInv, RemoteInv
<1>4. CallsInv'
  BY <1>1, <1>2, <1>3, CallMoves
<1> QED
  BY <1>1, <1>3, <1>4, BreakerTyped

LEMMA CheckStep ==
    ASSUME CacheInv, NEW t \in Task, CheckConnection(t)
    PROVE  CacheInv'
<1>1. UNCHANGED <<memoryVars, backend, redis, connection, health, call, written>>
  BY DEF CheckConnection
<1>2. call' \in [Task -> Request \cup {None}] /\ CallsInv
  BY <1>1 DEF CacheInv, CallsInv
<1>3. CallsInv' /\ breaker' \in Breaker
  <2>1. CASE Goto(t, "check", "ping") /\ UNCHANGED <<breaker, permits>>
    <3>1. backend # "InMemory"
      BY <2>1 DEF Goto, CacheInv, CallsInv, Permitted
    <3> QED
      BY <1>1, <1>2, <2>1, <3>1, CallMoves DEF Places, Permitted, CacheInv, RemoteInv
  <2>2. CASE Refused(t, "check")
    BY <1>1, <1>2, <2>2, RefusedIs DEF Permitted
  <2> QED
    BY <2>1, <2>2 DEF CheckConnection
<1>4. RemoteInv'
  BY <1>1, <1>3 DEF CacheInv, RemoteInv
<1> QED
  BY <1>1, <1>3, <1>4, Quiet

LEMMA PingStep ==
    ASSUME CacheInv, NEW t \in Task, Ping(t)
    PROVE  CacheInv'
<1>1. UNCHANGED <<memoryVars, backend, redis, connection, call, written>>
  BY DEF Ping
<1>2. call' \in [Task -> Request \cup {None}] /\ CallsInv
  BY <1>1 DEF CacheInv, CallsInv
<1>3. CallsInv' /\ breaker' \in Breaker
  <2>1. CASE Goto(t, "ping", "command") /\ UNCHANGED <<breaker, permits>>
    <3>1. backend # "InMemory"
      BY <2>1 DEF Goto, CacheInv, CallsInv, Permitted
    <3> QED
      BY <1>1, <1>2, <2>1, <3>1, CallMoves DEF Places, Permitted, CacheInv, RemoteInv
  <2>2. CASE Refused(t, "ping")
    BY <1>1, <1>2, <2>2, RefusedIs DEF Permitted
  <2> QED
    BY <2>1, <2>2 DEF Ping
<1>4. health' \in Health
  <2>1. health \in Health
    BY DEF CacheInv, RemoteInv
  <2>2. health' = HealthSuccess \/ health' = HealthFailure(health)
    BY DEF Ping
  <2> QED
    BY <2>1, <2>2, HealthTyped
<1>5. RemoteInv'
  BY <1>1, <1>3, <1>4 DEF CacheInv, RemoteInv
<1> QED
  BY <1>1, <1>3, <1>5, Quiet

LEMMA AnswerStep ==
    ASSUME CacheInv, NEW t \in Task, NEW r \in Requests(t), Answer(t, r) \/ AbandonCommand(t, r)
    PROVE  CacheInv'
<1>0. r \in Request
  BY RequestsTyped DEF CacheInv
<1>1. /\ UNCHANGED <<memoryVars, backend, connection, health, call>>
      /\ Goto(t, "command", "idle") /\ permits' = permits + 1
      /\ breaker' = RecordSuccess(breaker) \/ breaker' = breaker
      /\ redis' = Stores(r, redis) /\ Remember(r)
  BY DEF Answer, AbandonCommand
<1>2. call' \in [Task -> Request \cup {None}] /\ CallsInv
  BY <1>1 DEF CacheInv, CallsInv
<1>3. CallsInv'
  BY <1>1, <1>2, CallMoves DEF Places, Permitted
<1>4. breaker \in Breaker /\ redis \in [Key -> Entry \cup {None}]
  BY DEF CacheInv, RemoteInv
<1>5. redis' \in [Key -> Entry \cup {None}] /\ breaker' \in Breaker
  BY <1>0, <1>1, <1>4, StoresIs, BreakerTyped
<1>6. RemoteInv'
  BY <1>1, <1>5 DEF CacheInv, RemoteInv
<1>7. cache' = cache
  BY <1>1 DEF memoryVars
<1>8. AgeInv'
  BY <1>0, <1>1, <1>7, StoresTyped, RedisWrites DEF CacheInv
<1>9. MemoryInv'
  BY <1>1, MemoryUnchanged DEF CacheInv
<1> QED
  BY <1>3, <1>6, <1>8, <1>9 DEF CacheInv

LEMMA LoseStep ==
    ASSUME CacheInv, NEW t \in Task, NEW r \in Requests(t), Lose(t, r)
    PROVE  CacheInv'
<1>0. r \in Request
  BY RequestsTyped DEF CacheInv
<1>1. /\ UNCHANGED <<memoryVars, backend, connection, health>>
      /\ Refused(t, "command") /\ call' = [call EXCEPT ![t] = r]
      /\ \/ UNCHANGED <<redis, written>>
         \/ redis' = Stores(r, redis) /\ Remember(r)
  BY DEF Lose
<1>2. call' \in [Task -> Request \cup {None}]
  BY <1>0, <1>1 DEF CacheInv, CallsInv
<1>3. CallsInv' /\ breaker' \in Breaker
  BY <1>1, <1>2, RefusedIs DEF Permitted
<1>4. redis \in [Key -> Entry \cup {None}]
  BY DEF CacheInv, RemoteInv
<1>5. redis' \in [Key -> Entry \cup {None}]
  BY <1>0, <1>1, <1>4, StoresIs
<1>6. RemoteInv'
  BY <1>1, <1>3, <1>5 DEF CacheInv, RemoteInv
<1>7. cache' = cache
  BY <1>1 DEF memoryVars
<1>8. AgeInv'
  <2>1. CASE UNCHANGED <<redis, written>>
    BY <1>7, <2>1, AgesUnchanged
  <2>2. CASE redis' = Stores(r, redis) /\ Remember(r)
    BY <1>0, <1>7, <2>2, StoresTyped, RedisWrites DEF CacheInv
  <2> QED
    BY <1>1, <2>1, <2>2
<1>9. MemoryInv'
  BY <1>1, MemoryUnchanged DEF CacheInv
<1> QED
  BY <1>3, <1>6, <1>8, <1>9 DEF CacheInv

(* A call dropped anywhere gives back what it has. *)
LEMMA AbandonStep ==
    ASSUME CacheInv, NEW t \in Task, Abandon(t)
    PROVE  CacheInv'
<1>1. /\ UNCHANGED <<max_size, cache, mirror, batched, unevicted, backend, redis, connection,
                     breaker, written>>
      /\ call' = [call EXCEPT ![t] = None]
      /\ lock' = IF lock = t THEN None ELSE lock
      /\ permits' = IF pc[t] \in Permitted THEN permits + 1 ELSE permits
      /\ pc' = [pc EXCEPT ![t] = "idle"]
  BY DEF Abandon
<1>2. health' \in Health
  BY HealthTyped DEF Abandon, CacheInv, RemoteInv
<1>3. MemoryInv'
  <2>1. lock' \in Task \cup {None}
    BY <1>1 DEF CacheInv, MemoryInv
  <2> QED
    BY <1>1, <2>1, OnlyLockMoves DEF CacheInv
<1>4. CallsInv'
  <2>1. CallsInv /\ call' \in [Task -> Request \cup {None}]
    BY <1>1 DEF CacheInv, CallsInv
  <2>2. PICK from \in Places : from = pc[t]
    BY <2>1 DEF CallsInv
  <2>3. Goto(t, from, "idle")
    BY <1>1, <2>2 DEF Goto
  <2>4. "idle" \in Places /\ "idle" \notin {"allow", "bulkhead"} \cup Permitted
    BY DEF Places, Permitted
  <2>5. \/ permits' = permits /\ from \notin Permitted
        \/ permits' = permits + 1 /\ from \in Permitted
    BY <1>1, <2>2
  <2> QED
    BY <1>1, <2>1, <2>3, <2>4, <2>5, CallMoves
<1>5. RemoteInv'
  BY <1>1, <1>2 DEF CacheInv, RemoteInv
<1>6. AgeInv'
  BY <1>1, AgesUnchanged
<1> QED
  BY <1>3, <1>4, <1>5, <1>6 DEF CacheInv

LEMMA LockStep ==
    ASSUME CacheInv, NEW t \in Task, LockInMemory(t)
    PROVE  CacheInv'
<1>1. /\ UNCHANGED <<max_size, cache, mirror, batched, unevicted, written>>
      /\ UNCHANGED <<backend, redisVars, call>>
      /\ lock' = t /\ Goto(t, "store", "stats")
  BY DEF LockInMemory, LockStore
<1>2. MemoryInv'
  BY <1>1, OnlyLockMoves DEF CacheInv
<1>3. call' \in [Task -> Request \cup {None}] /\ CallsInv /\ permits' = permits
  BY <1>1 DEF CacheInv, CallsInv, redisVars
<1>4. CallsInv'
  BY <1>1, <1>3, CallMoves DEF Places, Permitted
<1>5. RemoteInv'
  BY <1>1 DEF CacheInv, RemoteInv, redisVars
<1>6. AgeInv'
  BY <1>1, AgesUnchanged DEF redisVars
<1> QED
  BY <1>2, <1>4, <1>5, <1>6 DEF CacheInv

(* A step of a call inside the in-memory cache that writes the entries es. *)
LEMMA InMemoryStep ==
    ASSUME CacheInv, NEW t \in Task, UNCHANGED <<backend, redisVars>>,
           call' \in [Task -> Request \cup {None}], MemoryInv',
           NEW from \in {"store", "stats", "evict"}, NEW to \in {"idle", "evict"},
           Goto(t, from, to), NEW es \in SUBSET Entries, Wrote(Pairs(es)),
           WritesOnly(cache.store, cache'.store, es)
    PROVE  CacheInv'
<1>1. CallsInv /\ permits' = permits
  BY DEF CacheInv, redisVars
<1>2. /\ from \in Places /\ to \in Places /\ from \notin Permitted /\ to \notin Permitted
      /\ to \notin {"allow", "bulkhead"} \cup Permitted
  BY DEF Places, Permitted
<1>3. CallsInv'
  BY <1>1, <1>2, CallMoves
<1>4. RemoteInv'
  BY DEF CacheInv, RemoteInv, redisVars
<1>5. WritesOnly(redis, redis', es)
  BY DEF WritesOnly, redisVars
<1>6. AgeInv'
  BY <1>5, StoresTyped, AgesKept DEF CacheInv
<1> QED
  BY <1>3, <1>4, <1>6 DEF CacheInv

LEMMA SetStep ==
    ASSUME CacheInv, NEW t \in Task, SetInMemory(t)
    PROVE  CacheInv'
<1>1. PICK r \in Requests(t) : InsertFirst(t, r)
  BY DEF SetInMemory
<1>2. r \in Request
  BY <1>1, RequestsTyped DEF CacheInv
<1>3. /\ Goto(t, "store", "evict") /\ r.op = "set" /\ set_raw(r) /\ lock' = t
      /\ max_size' = max_size
  BY <1>1 DEF InsertFirst
<1>4. r \in Entries
  BY <1>2, <1>3, RequestFields
<1>5. MemoryInv' /\ WritesOnly(cache.store, cache'.store, {r})
  BY <1>3, <1>4, SetKeeps DEF CacheInv
<1>6. Wrote(Pairs({r}))
  BY <1>3, WroteOne DEF set_raw
<1>7. call' \in [Task -> Request \cup {None}] /\ UNCHANGED <<backend, redisVars>>
  BY DEF SetInMemory, CacheInv, CallsInv
<1> QED
  BY <1>3, <1>4, <1>5, <1>6, <1>7, InMemoryStep

LEMMA PerformStep ==
    ASSUME CacheInv, NEW t \in Task, PerformInMemory(t)
    PROVE  CacheInv'
<1>1. call' \in [Task -> Request \cup {None}] /\ UNCHANGED <<backend, redisVars>>
  BY DEF PerformInMemory, CacheInv, CallsInv
<1>2. CASE EvictLast(t)
  <2>1. /\ Goto(t, "evict", "idle") /\ EvictOverLimit /\ lock' = None /\ max_size' = max_size
    BY <1>2 DEF EvictLast, Locked
  <2>2. MemoryInv' /\ WritesOnly(cache.store, cache'.store, {})
    BY <2>1, EvictKeeps DEF CacheInv
  <2>3. Wrote(Pairs({}))
    BY <2>1, WroteNothing DEF EvictOverLimit, CacheInv
  <2> QED
    BY <1>1, <2>1, <2>2, <2>3, InMemoryStep
<1>3. ASSUME NEW r \in Requests(t), Read(t, r) PROVE CacheInv'
  <2>1. /\ Goto(t, "stats", "idle") /\ get_raw_with_expiry(r.key) /\ lock' = None
        /\ max_size' = max_size
    BY <1>3 DEF Read, Locked
  <2>2. r.key \in Key
    BY <1>3, RequestsTyped, RequestFields DEF CacheInv
  <2>3. MemoryInv' /\ WritesOnly(cache.store, cache'.store, {})
    BY <2>1, <2>2, GetKeeps DEF CacheInv
  <2>4. Wrote(Pairs({}))
    BY <2>1, WroteNothing DEF get_raw_with_expiry, CacheInv
  <2> QED
    BY <1>1, <2>1, <2>3, <2>4, InMemoryStep
<1>4. ASSUME NEW r \in Requests(t), Write(t, r) PROVE CacheInv'
  <2>1. /\ Goto(t, "store", "idle") /\ UNCHANGED <<max_size, lock>>
        /\ Delete(r.key) \/ (r.op = "set" /\ set_raw(r))
    BY <1>4 DEF Write
  <2>2. r \in Request /\ r.key \in Key /\ (r.op = "set" => r \in Entries)
    BY <1>4, RequestsTyped, RequestFields DEF CacheInv
  <2>3. lock' \in Task \cup {None}
    BY <2>1 DEF CacheInv, MemoryInv
  <2>4. CASE Delete(r.key)
    <3>1. MemoryInv' /\ WritesOnly(cache.store, cache'.store, {})
      BY <2>1, <2>2, <2>3, <2>4, DeleteKeeps DEF CacheInv
    <3>2. Wrote(Pairs({}))
      BY <2>4, WroteNothing DEF Delete, CacheInv
    <3> QED
      BY <1>1, <2>1, <3>1, <3>2, InMemoryStep
  <2>5. CASE r.op = "set" /\ set_raw(r)
    <3>1. MemoryInv' /\ WritesOnly(cache.store, cache'.store, {r})
      BY <2>1, <2>2, <2>3, <2>5, SetKeeps DEF CacheInv
    <3>2. Wrote(Pairs({r}))
      BY <2>5, WroteOne DEF set_raw
    <3> QED
      BY <1>1, <2>1, <2>2, <2>5, <3>1, <3>2, InMemoryStep
  <2> QED
    BY <2>1, <2>4, <2>5
<1> QED
  BY <1>2, <1>3, <1>4 DEF PerformInMemory

LEMMA BatchStep ==
    ASSUME CacheInv, NEW t \in Task, PerformBatchInMemory(t)
    PROVE  CacheInv'
<1> DEFINE E == {r \in Requests(t) : r.op = "set"}
<1>1. /\ Goto(t, "stats", "idle") /\ lock' = None /\ max_size' = max_size
      /\ UNCHANGED <<backend, redisVars, call>>
      /\ \/ \E ks \in Batch(Key) : get_batch(ks)
         \/ \E es \in Batch(E) : set_batch(es)
  BY DEF PerformBatchInMemory, BatchOf, Locked
<1>2. call' \in [Task -> Request \cup {None}]
  BY <1>1 DEF CacheInv, CallsInv
<1>3. E \subseteq Entries
  BY RequestsTyped DEF CacheInv, Entries
<1> HIDE DEF E
<1>4. ASSUME NEW ks \in Batch(Key), get_batch(ks) PROVE CacheInv'
  <2>1. ks \in Seq(Key)
    BY <1>4, BatchIsSeq
  <2>2. MemoryInv' /\ WritesOnly(cache.store, cache'.store, {})
    BY <1>1, <1>4, <2>1, GetBatchKeeps DEF CacheInv
  <2>3. Wrote(Pairs({}))
    BY <1>4, WroteNothing DEF get_batch, CacheInv
  <2> QED
    BY <1>1, <1>2, <2>2, <2>3, InMemoryStep
<1>5. ASSUME NEW es \in Batch(E), set_batch(es) PROVE CacheInv'
  <2>1. es \in Seq(E)
    BY <1>5, BatchIsSeq
  <2>2. PICK s \in Seq(Entries) : s = es
    <3>1. es \in [1 .. Len(es) -> E] /\ Len(es) \in Nat
      BY <2>1
    <3>2. es \in [1 .. Len(es) -> Entries]
      BY <1>3, <3>1
    <3>3. es \in Seq(Entries)
      BY <3>1, <3>2
    <3> QED
      BY <3>3
  <2>3. MemoryInv' /\ WritesOnly(cache.store, cache'.store, ToSet(s))
    BY <1>1, <1>5, <2>2, SetBatchKeeps DEF CacheInv
  <2>4. Wrote(Pairs(ToSet(s)))
    BY <1>5, <2>2 DEF set_batch, Pairs
  <2>5. PICK W \in SUBSET Entries : W = ToSet(s)
    <3>1. \A i \in DOMAIN s : s[i] \in Entries
      OBVIOUS
    <3>2. ToSet(s) \subseteq Entries
      BY <3>1 DEF ToSet
    <3> QED
      BY <3>2
  <2>6. Wrote(Pairs(W)) /\ WritesOnly(cache.store, cache'.store, W)
    BY <2>3, <2>4, <2>5
  <2> QED
    BY <1>1, <1>2, <2>3, <2>6, InMemoryStep
<1> QED
  BY <1>1, <1>4, <1>5

LEMMA EndStatsStep ==
    ASSUME CacheInv, NEW t \in Task, EndStats(t)
    PROVE  CacheInv'
<1>1. /\ UNCHANGED <<memoryVars, backend, redisVars, call, written>>
      /\ Goto(t, "sample", "idle")
  BY DEF EndStats, Sample
<1>2. call' \in [Task -> Request \cup {None}] /\ CallsInv /\ permits' = permits
  BY <1>1 DEF CacheInv, CallsInv, redisVars
<1>3. CallsInv'
  BY <1>1, <1>2, CallMoves DEF Places, Permitted
<1>4. RemoteInv'
  BY <1>1 DEF CacheInv, RemoteInv, redisVars
<1> QED
  BY <1>1, <1>3, <1>4, Quiet DEF redisVars

LEMMA ConnectivityStep ==
    ASSUME CacheInv, Connectivity
    PROVE  CacheInv'
<1>1. UNCHANGED <<memoryVars, pc, backend, redis, breaker, health, permits, call, written>>
  BY DEF Connectivity
<1>2. CallsInv'
  BY <1>1, CallsUnchanged DEF CacheInv
<1>3. connection' \in {"up", "down", "hung"}
  BY DEF Connectivity
<1>4. RemoteInv'
  BY <1>1, <1>3 DEF CacheInv, RemoteInv
<1> QED
  BY <1>1, <1>2, <1>4, Quiet

(* A second makes every entry a second older and shortens what it has left. *)
LEMMA RecentAges ==
    ASSUME written \in [Key -> [Value -> 0 .. MaxTtl]],
           written' = [k \in Key |-> [v \in Value |-> Least(written[k][v] + 1, MaxTtl)]],
           NEW s \in [Key -> Entry \cup {None}], NEW new \in [Key -> Entry \cup {None}],
           Recent(s, written),
           \A k \in Key : new[k] # None =>
                 /\ s[k] # None /\ new[k].value = s[k].value
                 /\ new[k].left = 0 \/ new[k].left = s[k].left - 1
    PROVE  Recent(new, written')
<1>0. MaxTtl \in Nat
  BY CacheAssumption
<1> SUFFICES ASSUME NEW k \in Key, new[k] # None
             PROVE  new[k].left + written'[k][new[k].value] <= MaxTtl
  BY DEF Recent
<1>1. s[k] # None /\ s[k] \in Entry /\ new[k] \in Entry
  OBVIOUS
<1>2. PICK v \in Value : v = s[k].value /\ v = new[k].value
  BY <1>1 DEF Entry
<1>3. s[k].left \in Nat /\ s[k].left + written[k][v] <= MaxTtl
  BY <1>1, <1>2 DEF Entry, Recent
<1>4. written[k][v] \in 0 .. MaxTtl /\ written'[k][v] = Least(written[k][v] + 1, MaxTtl)
  BY <1>2
<1>5. new[k].left = 0 \/ new[k].left = s[k].left - 1
  OBVIOUS
<1>6. new[k].left + Least(written[k][v] + 1, MaxTtl) <= MaxTtl
  BY <1>0, <1>3, <1>4, <1>5 DEF Least
<1> QED
  BY <1>2, <1>4, <1>6

LEMMA TickStep ==
    ASSUME CacheInv, Tick
    PROVE  CacheInv'
<1>1. /\ cache' = Older(cache) /\ redis' = [k \in Key |-> Expire(redis[k])]
      /\ UNCHANGED <<max_size, lock, mirror, batched, unevicted, pc, backend, connection,
                     permits, call>>
      /\ written' = [k \in Key |-> [v \in Value |-> Least(written[k][v] + 1, MaxTtl)]]
  BY DEF Tick
<1>2. /\ MemoryInv'
      /\ \A k \in Key : cache'.store[k] # None =>
            /\ cache.store[k] # None /\ cache'.store[k].value = cache.store[k].value
            /\ cache'.store[k].left = 0 \/ cache'.store[k].left = cache.store[k].left - 1
  BY <1>1, OlderKeeps DEF CacheInv
<1>3. ASSUME NEW e \in Entry \cup {None}
      PROVE  /\ Expire(e) \in Entry \cup {None}
             /\ Expire(e) # None => /\ e # None /\ Expire(e).value = e.value
                                    /\ Expire(e).left = e.left - 1 /\ Expire(e).left > 0
  <2>1. CASE e = None
    BY <2>1 DEF Expire
  <2>2. CASE e # None /\ e.left <= 1
    BY <2>2 DEF Expire
  <2>3. CASE e # None /\ ~ (e.left <= 1)
    <3>1. e \in Entry /\ e.left \in Nat /\ e.left - 1 \in Nat /\ e.left - 1 > 0
      BY <2>3 DEF Entry
    <3>2. Expire(e) = [e EXCEPT !.left = e.left - 1]
      BY <2>3 DEF Expire
    <3> QED
      BY <2>3, <3>1, <3>2 DEF Entry
  <2> QED
    BY <2>1, <2>2, <2>3
<1>4. redis \in [Key -> Entry \cup {None}] /\ cache.store \in [Key -> Entry \cup {None}]
  BY StoresTyped
<1>5. /\ redis' \in [Key -> Entry \cup {None}]
      /\ \A k \in Key : redis'[k] # None =>
            /\ redis[k] # None /\ redis'[k].value = redis[k].value
            /\ redis'[k].left = redis[k].left - 1 /\ redis'[k].left > 0
  BY <1>1, <1>3, <1>4
<1>6. AgeInv'
  <2>1. written \in [Key -> [Value -> 0 .. MaxTtl]] /\ MaxTtl \in Nat
    BY CacheAssumption DEF CacheInv, AgeInv
  <2>2. written' \in [Key -> [Value -> 0 .. MaxTtl]]
    <3>1. \A k \in Key, v \in Value : Least(written[k][v] + 1, MaxTtl) \in 0 .. MaxTtl
      BY <2>1 DEF Least
    <3> QED
      BY <1>1, <3>1
  <2>3. Recent(redis', written')
    <3>1. PICK s \in [Key -> Entry \cup {None}] : s = redis
      BY <1>4
    <3>2. PICK new \in [Key -> Entry \cup {None}] : new = redis'
      BY <1>5
    <3>3. Recent(s, written)
      BY <3>1 DEF CacheInv, AgeInv
    <3>4. \A k \in Key : new[k] # None =>
              /\ s[k] # None /\ new[k].value = s[k].value
              /\ new[k].left = 0 \/ new[k].left = s[k].left - 1
      BY <1>5, <3>1, <3>2
    <3> QED
      BY <1>1, <2>1, <3>2, <3>3, <3>4, RecentAges
  <2>4. Recent(cache'.store, written')
    <3>1. PICK s \in [Key -> Entry \cup {None}] : s = cache.store
      BY <1>4
    <3>2. PICK new \in [Key -> Entry \cup {None}] : new = cache'.store
      <4>1. cache' \in Cache
        BY <1>2 DEF MemoryInv, Tracks, Cache, Entry
      <4> QED
        BY <4>1, CacheFields
    <3>3. Recent(s, written)
      BY <3>1 DEF CacheInv, AgeInv
    <3>4. \A k \in Key : new[k] # None =>
              /\ s[k] # None /\ new[k].value = s[k].value
              /\ new[k].left = 0 \/ new[k].left = s[k].left - 1
      BY <1>2, <3>1, <3>2
    <3> QED
      BY <1>1, <2>1, <3>2, <3>3, <3>4, RecentAges
  <2> QED
    BY <1>5, <2>2, <2>3, <2>4 DEF AgeInv, Recent
<1>7. breaker' \in Breaker /\ health' \in Health
  BY BreakerTyped, HealthTyped DEF Tick, CacheInv, RemoteInv
<1>8. RemoteInv'
  BY <1>1, <1>5, <1>7 DEF CacheInv, RemoteInv
<1>9. CallsInv'
  BY <1>1, CallsUnchanged DEF CacheInv
<1> QED
  BY <1>2, <1>6, <1>8, <1>9 DEF CacheInv

LEMMA CacheInitially == Init => CacheInv
<1> SUFFICES ASSUME Init PROVE CacheInv
  OBVIOUS
<1>1. /\ cache = EmptyCache /\ lock = None /\ mirror = {} /\ batched = FALSE
      /\ unevicted = {} /\ written = [k \in Key |-> [v \in Value |-> MaxTtl]]
  BY DEF Init, MemoryInit
<1>2. cache.store = [k \in Key |-> None] /\ cache.lru_queue = << >>
  BY <1>1 DEF EmptyCache
<1>3. Tracks(cache)
  <2>1. << >> \in Seq(Key) /\ IsInjective(<< >>) /\ ToSet(<< >>) = {}
    BY DEF IsInjective, ToSet
  <2>2. cache \in Cache
    BY <1>1, <2>1 DEF EmptyCache, Cache
  <2>3. Stored(cache) = {}
    BY <1>2 DEF Stored
  <2> QED
    BY <1>2, <2>1, <2>2, <2>3 DEF Tracks
<1>4. max_size \in Nat
  <2>1. MaxSizes \subseteq Nat
    BY BackendAssumption
  <2>2. max_size \in MaxSizes \/ max_size = 0
    BY DEF Init
  <2>3. 0 \in Nat
    OBVIOUS
  <2> QED
    BY <2>1, <2>2, <2>3, Zenon
<1>5. Stored(cache) = {} /\ Cardinality(Stored(cache) \ {}) = 0
  <2>1. Stored(cache) = {} /\ Stored(cache) \ {} = {}
    BY <1>2 DEF Stored
  <2> QED
    BY <2>1, FS_EmptySet
<1>6. MemoryInv
  <2>1. Bounded(cache, unevicted)
    BY <1>1, <1>4, <1>5 DEF Bounded
  <2>2. MirrorExact
    BY <1>1, <1>5 DEF MirrorExact
  <2>3. batched \in BOOLEAN
    BY <1>1
  <2> QED
    BY <1>1, <1>3, <1>4, <2>1, <2>2, <2>3 DEF MemoryInv
<1>7. RemoteInv
  <2>1. 0 \in 0 .. MaxFailures /\ 0 \in 0 .. HalfOpenMaxCalls /\ 0 \in 0 .. BackoffMax
        /\ 0 \in 0 .. HealthMax /\ 0 \in 0 .. ExponentCap
    BY Numbers
  <2>2. breaker \in Breaker /\ health \in Health
    BY <2>1 DEF Init, Breaker, Health
  <2>3. connection \in {"up", "down", "hung"}
    BY DEF Init
  <2> QED
    BY <2>2, <2>3 DEF Init, RemoteInv
<1>8. CallsInv
  <2>1. Holding = {}
    BY DEF Init, Holding, Permitted
  <2>2. IsFiniteSet(Holding) /\ Cardinality(Holding) = 0
    BY <2>1, FS_EmptySet
  <2>3. permits \in Nat /\ permits + Cardinality(Holding) <= MaxConcurrent
    BY <2>2, Numbers DEF Init
  <2> QED
    BY <2>2, <2>3 DEF Init, CallsInv, Places, Permitted
<1>9. AgeInv
  <2>1. MaxTtl \in 0 .. MaxTtl
    BY CacheAssumption
  <2>2. written \in [Key -> [Value -> 0 .. MaxTtl]]
    BY <1>1, <2>1
  <2>3. \A k \in Key : redis[k] = None /\ cache.store[k] = None
    BY <1>2 DEF Init
  <2> QED
    BY <2>2, <2>3 DEF AgeInv, Recent
<1> QED
  BY <1>6, <1>7, <1>8, <1>9 DEF CacheInv

LEMMA CacheStep == CacheInv /\ [Next]_vars => CacheInv'
<1> SUFFICES ASSUME CacheInv, [Next]_vars PROVE CacheInv'
  OBVIOUS
<1>1. ASSUME NEW t \in Task, Internal(t) PROVE CacheInv'
  <2>1. ASSUME Command(t) PROVE CacheInv'
    BY <2>1, AnswerStep, LoseStep DEF Command
  <2> QED
    BY <1>1, <2>1, AllowStep, AcquireStep, CheckStep, PingStep, LockStep, SetStep, PerformStep,
       BatchStep, EndStatsStep DEF Internal
<1>2. ASSUME NEW t \in Task, Call(t) \/ StartStats(t) \/ Dropped(t) PROVE CacheInv'
  BY <1>2, CallStep, AbandonStep, AnswerStep DEF Dropped
<1>3. CASE UNCHANGED vars
  <2>1. RemoteInv'
    BY <1>3 DEF CacheInv, RemoteInv, vars, redisVars
  <2>2. CallsInv'
    BY <1>3, CallsUnchanged DEF CacheInv, vars, redisVars
  <2> QED
    BY <1>3, <2>1, <2>2, Quiet DEF vars, redisVars
<1> QED
  BY <1>1, <1>2, <1>3, ConnectivityStep, TickStep DEF Next

LEMMA CacheInvariant == Spec => []CacheInv
<1> QED
  BY CacheInitially, CacheStep, PTL DEF Spec

(* Breaker, backoffs, bulkhead, locks and both stores keep their types; in  *)
(* particular the permits never exceed MaxConcurrent nor run below zero,    *)
(* because every permit taken belongs to exactly one call past the bulkhead *)
(* and a refusal, an answer and a dropped future each give one back.        *)
THEOREM CacheTypeCorrect == Spec => []TypeOK
<1>1. CacheInv => TypeOK
  <2> SUFFICES ASSUME CacheInv PROVE TypeOK
    OBVIOUS
  <2>1. permits \in 0 .. MaxConcurrent
    <3>1. permits \in Nat /\ permits + Cardinality(Holding) <= MaxConcurrent /\ IsFiniteSet(Holding)
      BY DEF CacheInv, CallsInv
    <3>2. Cardinality(Holding) \in Nat
      BY <3>1, FS_CardinalityType
    <3> QED
      BY <3>1, <3>2, Numbers
  <2> QED
    BY <2>1 DEF CacheInv, MemoryInv, RemoteInv, CallsInv, AgeInv, TypeOK, MemoryType, Tracks,
                Places
<1> QED
  BY <1>1, CacheInvariant, PTL

(* Whatever single and batch operations, expiries and evictions run, and    *)
(* wherever a call is dropped, the LRU queue holds each stored key once and *)
(* a bounded cache exceeds max_size only by keys set since the last         *)
(* eviction, for every max_size, every batch and every set of keys.         *)
THEOREM QueueTracksStore == Spec => []LruTracksStore
<1>1. CacheInv => LruTracksStore
  BY DEF CacheInv, MemoryInv, LruTracksStore, Tracks, Bounded
<1> QED
  BY <1>1, CacheInvariant, PTL

(* A subscriber that applies every CacheEvent knows the cached keys as long *)
(* as no batch operation runs.                                              *)
THEOREM MirrorIsExact == Spec => []MirrorExact
<1>1. CacheInv => MirrorExact
  BY DEF CacheInv, MemoryInv
<1> QED
  BY <1>1, CacheInvariant, PTL

(* Through failovers, commands whose answer is lost and calls dropped after *)
(* Redis executed their command, neither store serves a value that was last *)
(* written MaxTtl or more seconds ago.                                      *)
THEOREM ServedIsRecent == Spec => []ServedWithinTtl
<1>1. CacheInv => ServedWithinTtl
  <2> SUFFICES ASSUME CacheInv, NEW k \in Key
               PROVE  /\ redis[k] # None => written[k][redis[k].value] < MaxTtl
                      /\ Valid(cache, k) => written[k][cache.store[k].value] < MaxTtl
    BY DEF ServedWithinTtl
  <2>0. MaxTtl \in Nat /\ \A v \in Value : written[k][v] \in 0 .. MaxTtl
    BY CacheAssumption DEF CacheInv, AgeInv
  <2>1. /\ cache.store[k] # None => cache.store[k].left \in Nat /\ cache.store[k].value \in Value
        /\ redis[k] # None => redis[k].left \in Nat /\ redis[k].value \in Value
    BY StoresTyped DEF Entry
  <2>2. ASSUME redis[k] # None PROVE written[k][redis[k].value] < MaxTtl
    <3>1. /\ redis[k].left + written[k][redis[k].value] <= MaxTtl /\ redis[k].left > 0
          /\ redis[k].left \in Nat /\ written[k][redis[k].value] \in 0 .. MaxTtl
      BY <2>0, <2>1, <2>2 DEF CacheInv, AgeInv, Recent
    <3> QED
      BY <2>0, <3>1
  <2>3. ASSUME Valid(cache, k) PROVE written[k][cache.store[k].value] < MaxTtl
    <3>0. cache.store[k] # None /\ cache.store[k].left > 0
      BY <2>3 DEF Valid
    <3>1. /\ cache.store[k].left + written[k][cache.store[k].value] <= MaxTtl
          /\ cache.store[k].left \in Nat /\ written[k][cache.store[k].value] \in 0 .. MaxTtl
      BY <2>0, <2>1, <3>0 DEF CacheInv, AgeInv, Recent
    <3> QED
      BY <2>0, <3>0, <3>1
  <2> QED
    BY <2>2, <2>3
<1> QED
  BY <1>1, CacheInvariant, PTL
=============================================================================
