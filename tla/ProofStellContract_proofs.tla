-------------------- MODULE ProofStellContract_proofs --------------------
(***************************************************************************)
(* Proofs about ProofStellContract, for every set of addresses, hashes,    *)
(* flags and configurations and every bound.                               *)
(***************************************************************************)
EXTENDS ProofStellContract, WellFoundedInduction, TLAPS

(* What one scope's check may write: its bucket and its retry hint. *)
SameButLimits(m, l) ==
    /\ m.docs = l.docs /\ m.admin = l.admin /\ m.version = l.version
    /\ m.flags = l.flags /\ m.config = l.config /\ m.wasm = l.wasm
    /\ m.log = l.log

LEMMA RefillNat ==
    ASSUME NEW elapsed \in Nat, NEW rate \in Nat
    PROVE  /\ Refill(elapsed, rate) \in Nat
           /\ Refill(elapsed, rate) <= elapsed * rate
<1> DEFINE p == elapsed * rate
<1>1. p \in Nat
  BY SMT
<1>2. U64 \in Nat /\ U64 >= 1
  BY ContractAssumption DEF U64
<1>3. Least(p, U64 - 1) \in Nat /\ Least(p, U64 - 1) <= p
  BY <1>1, <1>2 DEF Least
<1>4. ASSUME NEW x \in Nat, NEW w \in Nat \ {0}
      PROVE  x % w \in Nat /\ x % w <= x
  OBVIOUS
<1> HIDE DEF p
<1>5. Least(p, U64 - 1) % U32 \in Nat /\ Least(p, U64 - 1) % U32 <= p
  BY <1>1, <1>3, <1>4, ContractAssumption
<1> QED
  BY <1>5 DEF p, Refill

LEMMA ConfigType ==
    ASSUME NEW c \in RateLimitConfigs, NEW scope \in RateLimitScope
    PROVE  /\ Capacity(c, scope) \in 0 .. U32 - 1
           /\ PerSecond(c, scope) \in 0 .. U32 - 1
<1>1. c \in RateLimitConfig
  BY ContractAssumption
<1> QED
  BY <1>1 DEF Capacity, PerSecond, RateLimitConfig

LEMMA TokensType ==
    ASSUME NEW l \in Ledger, now \in 0 .. MaxTime, NEW scope \in RateLimitScope
    PROVE  Tokens(l, scope) \in 0 .. U32 - 1
<1> DEFINE s == StateOf(l, scope)
           elapsed == Monus(now, s.last_refill)
           rate == PerSecond(l.config, scope)
<1>1. l.config \in RateLimitConfigs /\ l.bucket[scope] \in RateLimitBucketState \cup {None}
  BY DEF Ledger
<1>2. /\ Capacity(l.config, scope) \in 0 .. U32 - 1
      /\ PerSecond(l.config, scope) \in 0 .. U32 - 1
  BY <1>1, ConfigType
<1>3. s.tokens \in 0 .. U32 - 1 /\ s.last_refill \in 0 .. MaxTime
  BY <1>1, <1>2, ContractAssumption DEF StateOf, RateLimitBucketState
<1>4. elapsed \in Nat
  BY <1>3, ContractAssumption DEF Monus
<1>5. Refill(elapsed, rate) \in Nat
  BY <1>2, <1>4, RefillNat, ContractAssumption
<1> HIDE DEF s, elapsed, rate
<1>6. Least(Least(s.tokens + Refill(elapsed, rate), U32 - 1), Capacity(l.config, scope))
        \in 0 .. U32 - 1
  BY <1>2, <1>3, <1>5, ContractAssumption DEF Least
<1> QED
  BY <1>6 DEF Tokens, s, elapsed, rate

LEMMA CheckScopeType ==
    ASSUME NEW l \in Ledger, now \in 0 .. MaxTime, NEW scope \in RateLimitScope
    PROVE  /\ CheckScope(l, scope).ok \in BOOLEAN
           /\ CheckScope(l, scope).ledger \in Ledger
           /\ SameButLimits(CheckScope(l, scope).ledger, l)
<1> DEFINE tokens == Tokens(l, scope)
           rate == PerSecond(l.config, scope)
<1>1. tokens \in 0 .. U32 - 1
  BY TokensType
<1>2. rate \in Nat
  BY ConfigType, ContractAssumption DEF Ledger
<1>3. RetryAfter(rate) \in Nat
  BY <1>2 DEF RetryAfter
<1> HIDE DEF tokens, rate
<1>4. CASE tokens = 0
  <2> DEFINE m == [l EXCEPT !.retry_after[scope] = RetryAfter(rate)]
  <2>1. CheckScope(l, scope) = [ok |-> FALSE, ledger |-> m]
    BY <1>4 DEF CheckScope, tokens, rate
  <2>2. m \in Ledger /\ SameButLimits(m, l)
    BY <1>3 DEF Ledger, SameButLimits
  <2> QED
    BY <2>1, <2>2
<1>5. CASE tokens # 0
  <2> DEFINE b == [tokens |-> tokens - 1, last_refill |-> now]
             m == [l EXCEPT !.bucket[scope] = b, !.retry_after[scope] = None]
  <2>1. CheckScope(l, scope) = [ok |-> TRUE, ledger |-> m]
    BY <1>5 DEF CheckScope, tokens
  <2>2. b \in RateLimitBucketState
    BY <1>1, <1>5, ContractAssumption DEF RateLimitBucketState
  <2> HIDE DEF b
  <2>3. m \in Ledger /\ SameButLimits(m, l)
    BY <2>2 DEF Ledger, SameButLimits
  <2> QED
    BY <2>1, <2>3
<1> QED
  BY <1>4, <1>5

LEMMA CheckRateLimitType ==
    ASSUME NEW l \in Ledger, now \in 0 .. MaxTime, NEW a \in Address
    PROVE  /\ check_rate_limit(l, a, a).ok \in BOOLEAN
           /\ check_rate_limit(l, a, a).ledger \in Ledger
           /\ SameButLimits(check_rate_limit(l, a, a).ledger, l)
<1> DEFINE m == CheckScope(l, <<"Address", a>>).ledger
<1>1. <<"Address", a>> \in RateLimitScope /\ <<"Issuer", a>> \in RateLimitScope
  BY DEF RateLimitScope
<1>2. /\ CheckScope(l, <<"Address", a>>).ok \in BOOLEAN
      /\ m \in Ledger
      /\ SameButLimits(m, l)
  BY <1>1, CheckScopeType
<1>3. /\ CheckScope(m, <<"Issuer", a>>).ok \in BOOLEAN
      /\ CheckScope(m, <<"Issuer", a>>).ledger \in Ledger
      /\ SameButLimits(CheckScope(m, <<"Issuer", a>>).ledger, m)
  BY <1>1, <1>2, CheckScopeType
<1> QED
  BY <1>2, <1>3 DEF check_rate_limit, SameButLimits

LEMMA EventTypes ==
    ASSUME TypeOK, NEW a \in Address
    PROVE  /\ \A o \in Owner, h \in Hash : DocumentRegistered(a, o, h) \in Event
           /\ \A h \in Hash : DocumentRevoked(a, h) \in Event
           /\ \A o \in Owner : NewRecord(a, o) \in DocumentRecord
BY ContractAssumption
   DEF TypeOK, Event, DocumentRegistered, DocumentRevoked, NewRecord, DocumentRecord

(* A batch is a sequence of one of the bounded lengths. *)
LEMMA BatchIsSeq ==
    ASSUME NEW Item, NEW batch \in Batches(Item)
    PROVE  \E n \in Nat : batch \in [1 .. n -> Item]
BY ContractAssumption DEF Batches

LEMMA MapSeq ==
    ASSUME NEW n \in Nat, NEW f \in [1 .. n -> Event], NEW log \in Seq(Event)
    PROVE  log \o f \in Seq(Event)
OBVIOUS

LEMMA FrameType ==
    ASSUME NEW m \in Ledger, NEW d \in [Hash -> DocumentRecord \cup {None}],
           NEW g \in Seq(Event)
    PROVE  [m EXCEPT !.docs = d, !.log = g] \in Ledger
BY DEF Ledger

(* The host keeps a call's writes or none of them, so it is enough that the *)
(* writes of a successful call are well typed.                              *)
LEMMA InvokeLimitedType ==
    ASSUME TypeOK, NEW op \in Operation, NEW a \in Address,
           NEW res \in ContractError \cup {"Ok"}, NEW frame,
           res = "Ok" => frame \in Ledger,
           InvokeLimited(op, a, res, frame)
    PROVE  TypeOK'
<1>1. ledger' \in Ledger /\ now' \in 0 .. MaxTime
  BY DEF InvokeLimited, Invoke, TypeOK
<1>2. last' \in [op : Operation, by : Address \cup {None}, res : ContractError \cup {"Ok"}]
  BY DEF InvokeLimited, Invoke
<1>3. window' \in [start : 0 .. MaxTime, granted : [RateLimitScope -> Nat]]
  BY DEF InvokeLimited, TypeOK
<1> QED
  BY <1>1, <1>2, <1>3 DEF TypeOK

LEMMA InvokeGovernanceType ==
    ASSUME TypeOK, NEW op \in Operation, NEW a \in Address,
           NEW res \in ContractError \cup {"Ok"}, NEW frame,
           res = "Ok" => frame \in Ledger,
           InvokeGovernance(op, a, res, frame)
    PROVE  TypeOK'
<1>1. ledger' \in Ledger /\ now' \in 0 .. MaxTime /\ window' = window
  BY DEF InvokeGovernance, Invoke, TypeOK
<1>2. last' \in [op : Operation, by : Address \cup {None}, res : ContractError \cup {"Ok"}]
  BY DEF InvokeGovernance, Invoke
<1> QED
  BY <1>1, <1>2 DEF TypeOK

LEMMA RegisterType ==
    ASSUME TypeOK, NEW a \in Address, NEW o \in Owner, NEW h \in Hash,
           register_document(a, o, h)
    PROVE  TypeOK'
<1> DEFINE m == check_rate_limit(ledger, a, a).ledger
           frame == [m EXCEPT !.docs[h] = NewRecord(a, o),
                              !.log = Append(@, DocumentRegistered(a, o, h))]
           res == IF check_rate_limit(ledger, a, a).ok
                  THEN RegisterError(ledger.docs[h]) ELSE "RateLimitExceeded"
<1>1. m \in Ledger
  BY CheckRateLimitType DEF TypeOK
<1>2. InvokeLimited("register_document", a, res, frame)
  BY DEF register_document
<1>3. res \in ContractError \cup {"Ok"}
  BY DEF RegisterError, ContractError
<1> HIDE DEF m, res
<1>4. [m.docs EXCEPT ![h] = NewRecord(a, o)] \in [Hash -> DocumentRecord \cup {None}]
  BY <1>1, EventTypes DEF Ledger
<1>5. Append(m.log, DocumentRegistered(a, o, h)) \in Seq(Event)
  BY <1>1, EventTypes DEF Ledger
<1>6. frame \in Ledger
  BY <1>1, <1>4, <1>5, FrameType
<1> HIDE DEF frame
<1> QED
  BY <1>2, <1>3, <1>6, InvokeLimitedType DEF Operation

LEMMA RevokeType ==
    ASSUME TypeOK, NEW a \in Address, NEW h \in Hash, revoke_document(a, h)
    PROVE  TypeOK'
<1> DEFINE m == check_rate_limit(ledger, a, a).ledger
           frame == [m EXCEPT !.docs[h].status = "Revoked",
                              !.log = Append(@, DocumentRevoked(a, h))]
           res == IF check_rate_limit(ledger, a, a).ok
                  THEN RevokeError(ledger.docs[h], a) ELSE "RateLimitExceeded"
<1>1. m \in Ledger /\ m.docs = ledger.docs
  BY CheckRateLimitType DEF TypeOK, SameButLimits
<1>2. InvokeLimited("revoke_document", a, res, frame)
  BY DEF revoke_document
<1>3. res \in ContractError \cup {"Ok"}
  BY DEF RevokeError, ContractError
<1>4. ASSUME res = "Ok" PROVE frame \in Ledger
  <2>1. ledger.docs[h] # None
    BY <1>4 DEF RevokeError
  <2> HIDE DEF m, res
  <2>2. m.docs[h] \in DocumentRecord
    BY <2>1, <1>1 DEF Ledger
  <2>3. [m.docs[h] EXCEPT !.status = "Revoked"] \in DocumentRecord
    BY <2>2 DEF DocumentRecord
  <2>4. [m.docs EXCEPT ![h].status = "Revoked"] \in [Hash -> DocumentRecord \cup {None}]
    BY <1>1, <2>3 DEF Ledger
  <2>5. Append(m.log, DocumentRevoked(a, h)) \in Seq(Event)
    BY <1>1, EventTypes DEF Ledger
  <2> QED
    BY <1>1, <2>4, <2>5, FrameType
<1> HIDE DEF m, res, frame
<1> QED
  BY <1>2, <1>3, <1>4, InvokeLimitedType DEF Operation

(* A nonempty set of naturals has a least element. *)
LEMMA LeastExists ==
    ASSUME NEW S \in SUBSET Nat, S # {}
    PROVE  \E k \in S : \A j \in S : k <= j
<1> DEFINE R == OpToRel(<, Nat)
<1>1. IsWellFoundedOn(R, Nat)
  BY NatLessThanWellFounded
<1>2. \A i, j \in Nat : <<i, j>> \notin R => j <= i
  <2>1. \A i, j \in Nat : <<i, j>> \notin R => ~ (i < j)
    BY Zenon DEF OpToRel
  <2> HIDE DEF R
  <2> QED
    BY <2>1, SMT
<1> HIDE DEF R
<1>3. PICK k \in S : \A j \in S : <<j, k>> \notin R
  BY <1>1, WFMin
<1> QED
  BY <1>2, <1>3, Zenon

(* The loop of a batch returns "Ok" exactly when no item fails, and         *)
(* otherwise the error of some item.                                        *)
LEMMA FirstErrorIs ==
    ASSUME NEW n \in Nat, NEW errors \in [1 .. n -> ContractError \cup {"Ok"}]
    PROVE  /\ FirstError(errors) \in ContractError \cup {"Ok"}
           /\ FirstError(errors) = "Ok" => \A k \in 1 .. n : errors[k] = "Ok"
<1> DEFINE bad == {k \in DOMAIN errors : errors[k] # "Ok"}
           least == CHOOSE k \in bad : \A j \in bad : k <= j
<1>1. CASE bad = {}
  BY <1>1 DEF FirstError
<1>2. CASE bad # {}
  <2>1. bad \subseteq Nat /\ \E k \in bad : \A j \in bad : k <= j
    <3>1. bad \in SUBSET Nat /\ bad # {}
      BY <1>2
    <3> HIDE DEF bad
    <3> QED
      BY <3>1, LeastExists
  <2>2. least \in bad
    BY <2>1
  <2>3. FirstError(errors) = errors[least]
    BY <1>2 DEF FirstError
  <2> QED
    BY <2>2, <2>3
<1> QED
  BY <1>1, <1>2

LEMMA BatchRegisterType ==
    ASSUME TypeOK, NEW a \in Address, NEW batch \in Batches(DocumentInfo),
           batch_register_documents(a, batch)
    PROVE  TypeOK'
<1> DEFINE m == check_rate_limit(ledger, a, a).ledger
           hashes == [k \in DOMAIN batch |-> batch[k].document_hash]
           errors == [k \in DOMAIN batch |->
                        IF Earlier(hashes, k) THEN "AlreadyRegistered"
                        ELSE RegisterError(ledger.docs[hashes[k]])]
           res == IF ~check_rate_limit(ledger, a, a).ok THEN "RateLimitExceeded"
                  ELSE IF BatchSizeError(batch) # "Ok" THEN BatchSizeError(batch)
                  ELSE FirstError(errors)
           OwnerOf(h) == batch[CHOOSE k \in DOMAIN batch : hashes[k] = h].owner
           docs == [h \in Hash |-> IF \E k \in DOMAIN hashes : hashes[k] = h
                                   THEN NewRecord(a, OwnerOf(h)) ELSE m.docs[h]]
           news == [k \in DOMAIN batch |->
                      DocumentRegistered(a, batch[k].owner, hashes[k])]
           frame == [m EXCEPT !.docs = docs, !.log = @ \o news]
<1>1. m \in Ledger
  BY CheckRateLimitType DEF TypeOK
<1>2. InvokeLimited("batch_register_documents", a, res, frame)
  BY DEF batch_register_documents
<1>3. PICK n \in Nat : batch \in [1 .. n -> DocumentInfo]
  BY BatchIsSeq
<1>4. \A k \in 1 .. n : batch[k].owner \in Owner /\ hashes[k] \in Hash
  BY <1>3 DEF DocumentInfo
<1>5. errors \in [1 .. n -> ContractError \cup {"Ok"}]
  BY <1>3 DEF RegisterError, ContractError
<1> HIDE DEF errors
<1>6. res \in ContractError \cup {"Ok"}
  BY <1>5, FirstErrorIs DEF BatchSizeError, ContractError
<1>7. news \in [1 .. n -> Event]
  BY <1>3, <1>4, EventTypes
<1>8. docs \in [Hash -> DocumentRecord \cup {None}]
  <2> SUFFICES ASSUME NEW h \in Hash PROVE docs[h] \in DocumentRecord \cup {None}
    OBVIOUS
  <2>1. CASE \E k \in DOMAIN hashes : hashes[k] = h
    <3>1. OwnerOf(h) \in Owner
      BY <2>1, <1>3, <1>4
    <3> HIDE DEF OwnerOf
    <3> QED
      BY <2>1, <3>1, EventTypes
  <2>2. CASE ~ \E k \in DOMAIN hashes : hashes[k] = h
    BY <2>2, <1>1 DEF Ledger
  <2> QED
    BY <2>1, <2>2
<1> HIDE DEF m, res, docs, news, hashes
<1>9. m.log \o news \in Seq(Event)
  BY <1>1, <1>7, MapSeq DEF Ledger
<1>10. frame \in Ledger
  BY <1>1, <1>8, <1>9 DEF Ledger
<1> HIDE DEF frame
<1> QED
  BY <1>2, <1>6, <1>10, InvokeLimitedType DEF Operation

LEMMA BatchRevokeType ==
    ASSUME TypeOK, NEW a \in Address, NEW hashes \in Batches(Hash),
           batch_revoke_documents(a, hashes)
    PROVE  TypeOK'
<1> DEFINE m == check_rate_limit(ledger, a, a).ledger
           errors == [k \in DOMAIN hashes |->
                        LET e == RevokeError(ledger.docs[hashes[k]], a)
                        IN  IF e = "Ok" /\ Earlier(hashes, k)
                            THEN "AlreadyRevoked" ELSE e]
           res == IF ~check_rate_limit(ledger, a, a).ok THEN "RateLimitExceeded"
                  ELSE IF BatchSizeError(hashes) # "Ok" THEN BatchSizeError(hashes)
                  ELSE FirstError(errors)
           docs == [h \in Hash |-> IF \E k \in DOMAIN hashes : hashes[k] = h
                                   THEN [m.docs[h] EXCEPT !.status = "Revoked"]
                                   ELSE m.docs[h]]
           news == [k \in DOMAIN hashes |-> DocumentRevoked(a, hashes[k])]
           frame == [m EXCEPT !.docs = docs, !.log = @ \o news]
<1>1. m \in Ledger /\ m.docs = ledger.docs
  BY CheckRateLimitType DEF TypeOK, SameButLimits
<1>2. InvokeLimited("batch_revoke_documents", a, res, frame)
  BY DEF batch_revoke_documents
<1>3. PICK n \in Nat : hashes \in [1 .. n -> Hash]
  BY BatchIsSeq
<1>4. errors \in [1 .. n -> ContractError \cup {"Ok"}]
  BY <1>3 DEF RevokeError, ContractError
<1>5. res \in ContractError \cup {"Ok"}
  <2> HIDE DEF errors
  <2> QED
    BY <1>4, FirstErrorIs DEF BatchSizeError, ContractError
<1>6. news \in [1 .. n -> Event]
  BY <1>3, EventTypes
<1>7. ASSUME res = "Ok" PROVE frame \in Ledger
  <2>1. FirstError(errors) = "Ok"
    BY <1>7 DEF BatchSizeError
  <2>2. \A k \in 1 .. n : errors[k] = "Ok"
    BY <1>4, <2>1, FirstErrorIs
  <2>3. \A k \in 1 .. n : ledger.docs[hashes[k]] # None
    BY <1>3, <2>2 DEF RevokeError
  <2> HIDE DEF m, res, errors, news
  <2>4. docs \in [Hash -> DocumentRecord \cup {None}]
    <3> SUFFICES ASSUME NEW h \in Hash PROVE docs[h] \in DocumentRecord \cup {None}
      OBVIOUS
    <3>1. CASE \E k \in DOMAIN hashes : hashes[k] = h
      <4>1. m.docs[h] \in DocumentRecord
        BY <3>1, <1>1, <1>3, <2>3 DEF Ledger
      <4>2. [m.docs[h] EXCEPT !.status = "Revoked"] \in DocumentRecord
        BY <4>1 DEF DocumentRecord
      <4> QED
        BY <3>1, <4>2
    <3>2. CASE ~ \E k \in DOMAIN hashes : hashes[k] = h
      BY <3>2, <1>1 DEF Ledger
    <3> QED
      BY <3>1, <3>2
  <2> HIDE DEF docs
  <2>5. m.log \o news \in Seq(Event)
    BY <1>1, <1>6, MapSeq DEF Ledger
  <2> QED
    BY <1>1, <2>4, <2>5 DEF Ledger
<1> HIDE DEF m, res, errors, docs, news, frame
<1> QED
  BY <1>2, <1>5, <1>7, InvokeLimitedType DEF Operation

LEMMA ErrorTypes ==
    ASSUME NEW a
    PROVE  /\ InitializeError(ledger, a) \in ContractError \cup {"Ok"}
           /\ MigrateError(ledger) \in ContractError \cup {"Ok"}
           /\ AdminError(ledger, a) \in ContractError \cup {"Ok"}
BY DEF InitializeError, MigrateError, AdminError, ContractError

LEMMA GovernanceType ==
    ASSUME TypeOK, GovernanceCall
    PROVE  TypeOK'
<1> PICK a \in Address :
        \/ initialize(a)
        \/ migrate(a)
        \/ \E w \in Wasm : upgrade(a, w)
        \/ \E flag \in Flag, enabled \in BOOLEAN : set_feature_flag(a, flag, enabled)
        \/ \E c \in RateLimitConfigs : set_rate_limit_config(a, c)
  BY DEF GovernanceCall
<1>1. ledger \in Ledger /\ CONTRACT_VERSION \in 0 .. CONTRACT_VERSION
  BY ContractAssumption DEF TypeOK
<1>2. ASSUME NEW t \in {"init", "upgrade"}, NEW v \in 0 .. CONTRACT_VERSION
      PROVE  Append(ledger.log, [type |-> t, admin |-> a, version |-> v]) \in Seq(Event)
  <2>1. [type |-> t, admin |-> a, version |-> v] \in Event
    BY DEF Event
  <2> QED
    BY <1>1, <2>1 DEF Ledger
<1>3. CASE initialize(a)
  <2> DEFINE e == [type |-> "init", admin |-> a, version |-> CONTRACT_VERSION]
             frame == [ledger EXCEPT !.admin = a, !.version = CONTRACT_VERSION,
                                     !.log = Append(@, e)]
  <2>1. Append(ledger.log, e) \in Seq(Event)
    BY <1>2, ContractAssumption
  <2>2. InvokeGovernance("initialize", a, InitializeError(ledger, a), frame)
    BY <1>3 DEF initialize
  <2> HIDE DEF e
  <2>3. frame \in Ledger
    BY <1>1, <2>1 DEF Ledger
  <2> HIDE DEF frame
  <2> QED
    BY <2>2, <2>3, ErrorTypes, InvokeGovernanceType DEF Operation
<1>4. CASE migrate(a)
  <2> DEFINE frame == [ledger EXCEPT !.admin = a, !.version = CONTRACT_VERSION]
  <2>1. InvokeGovernance("migrate", a, MigrateError(ledger), frame)
    BY <1>4 DEF migrate
  <2>2. frame \in Ledger
    BY <1>1 DEF Ledger
  <2> HIDE DEF frame
  <2> QED
    BY <2>1, <2>2, ErrorTypes, InvokeGovernanceType DEF Operation
<1>5. ASSUME NEW w \in Wasm, upgrade(a, w) PROVE TypeOK'
  <2> DEFINE e == [type |-> "upgrade", admin |-> a, version |-> ledger.version]
             frame == [ledger EXCEPT !.wasm = w, !.log = Append(@, e)]
  <2>1. Append(ledger.log, e) \in Seq(Event)
    BY <1>1, <1>2 DEF Ledger
  <2>2. InvokeGovernance("upgrade", a, AdminError(ledger, a), frame)
    BY <1>5 DEF upgrade
  <2> HIDE DEF e
  <2>3. frame \in Ledger
    BY <1>1, <2>1 DEF Ledger
  <2> HIDE DEF frame
  <2> QED
    BY <2>2, <2>3, ErrorTypes, InvokeGovernanceType DEF Operation
<1>6. ASSUME NEW flag \in Flag, NEW enabled \in BOOLEAN,
             set_feature_flag(a, flag, enabled)
      PROVE  TypeOK'
  <2> DEFINE frame == [ledger EXCEPT !.flags[flag] = enabled]
  <2>1. InvokeGovernance("set_feature_flag", a, AdminError(ledger, a), frame)
    BY <1>6 DEF set_feature_flag
  <2>2. [ledger.flags EXCEPT ![flag] = enabled] \in [Flag -> BOOLEAN]
    BY <1>1 DEF Ledger
  <2>3. frame \in Ledger
    BY <1>1, <2>2 DEF Ledger
  <2> HIDE DEF frame
  <2> QED
    BY <2>1, <2>3, ErrorTypes, InvokeGovernanceType DEF Operation
<1>7. ASSUME NEW c \in RateLimitConfigs, set_rate_limit_config(a, c) PROVE TypeOK'
  <2> DEFINE frame == [ledger EXCEPT !.config = c]
  <2>1. InvokeGovernance("set_rate_limit_config", a, AdminError(ledger, a), frame)
    BY <1>7 DEF set_rate_limit_config
  <2>2. frame \in Ledger
    BY <1>1 DEF Ledger
  <2> HIDE DEF frame
  <2> QED
    BY <2>1, <2>2, ErrorTypes, InvokeGovernanceType DEF Operation
<1> QED
  BY <1>3, <1>4, <1>5, <1>6, <1>7

LEMMA InitType == Init => TypeOK
<1> SUFFICES ASSUME Init PROVE TypeOK
  OBVIOUS
<1>1. ledger \in Ledger
  BY ContractAssumption DEF Init, Ledger
<1>2. /\ now \in 0 .. MaxTime
      /\ last \in [op : Operation, by : Address \cup {None},
                   res : ContractError \cup {"Ok"}]
      /\ window \in [start : 0 .. MaxTime, granted : [RateLimitScope -> Nat]]
  BY ContractAssumption DEF Init, Operation
<1> QED
  BY <1>1, <1>2 DEF TypeOK

LEMMA NextType == TypeOK /\ [Next]_vars => TypeOK'
<1> SUFFICES ASSUME TypeOK, [Next]_vars PROVE TypeOK'
  OBVIOUS
<1>1. CASE DocumentCall
  <2>1. PICK a \in Address :
          \/ \E o \in Owner, h \in Hash : register_document(a, o, h)
          \/ \E h \in Hash : revoke_document(a, h)
          \/ \E b \in Batches(DocumentInfo) : batch_register_documents(a, b)
          \/ \E b \in Batches(Hash) : batch_revoke_documents(a, b)
    BY <1>1, ContractAssumption DEF DocumentCall
  <2> QED
    BY <2>1, RegisterType, RevokeType, BatchRegisterType, BatchRevokeType
<1>2. CASE GovernanceCall
  BY <1>2, GovernanceType
<1>3. CASE CloseLedger
  BY <1>3, ContractAssumption DEF CloseLedger, TypeOK
<1>4. CASE OpenWindow
  BY <1>4 DEF OpenWindow, TypeOK
<1>5. CASE UNCHANGED vars
  BY <1>5 DEF vars, TypeOK
<1> QED
  BY <1>1, <1>2, <1>3, <1>4, <1>5 DEF Next

(* Storage, results and the grant counters of the contract stay within      *)
(* their types in every execution: no path, rolled back or committed, of    *)
(* any entry point of lib.rs leaves a malformed record, bucket or event.    *)
THEOREM TypeCorrect == Spec => []TypeOK
<1>1. Init => TypeOK
  BY InitType
<1>2. TypeOK /\ [Next]_vars => TypeOK'
  BY NextType
<1> QED
  BY <1>1, <1>2, PTL DEF Spec

-----------------------------------------------------------------------------
(* Governance *)

SameGovernance(m, l) ==
    /\ m.admin = l.admin /\ m.version = l.version
    /\ m.flags = l.flags /\ m.config = l.config /\ m.wasm = l.wasm

(* A document call writes documents, limits and events only. *)
LEMMA DocumentCallKeepsGovernance ==
    ASSUME TypeOK, DocumentCall
    PROVE  SameGovernance(ledger', ledger)
<1> PICK a \in Address :
        \/ \E o \in Owner, h \in Hash : register_document(a, o, h)
        \/ \E h \in Hash : revoke_document(a, h)
        \/ \E b \in Batches(DocumentInfo) : batch_register_documents(a, b)
        \/ \E b \in Batches(Hash) : batch_revoke_documents(a, b)
  BY ContractAssumption DEF DocumentCall
<1> DEFINE m == check_rate_limit(ledger, a, a).ledger
<1>1. m \in Ledger /\ SameGovernance(m, ledger)
  BY CheckRateLimitType DEF TypeOK, SameButLimits, SameGovernance
<1>2. \E d, g : ledger' \in {ledger, [m EXCEPT !.docs = d, !.log = g]}
  <2>1. ASSUME NEW o, NEW h, register_document(a, o, h)
        PROVE  ledger' \in {ledger, [m EXCEPT
                 !.docs = [m.docs EXCEPT ![h] = NewRecord(a, o)],
                 !.log = Append(m.log, DocumentRegistered(a, o, h))]}
    BY <2>1, Zenon DEF register_document, InvokeLimited, Invoke
  <2>2. ASSUME NEW h, revoke_document(a, h)
        PROVE  ledger' \in {ledger, [m EXCEPT
                 !.docs = [m.docs EXCEPT ![h].status = "Revoked"],
                 !.log = Append(m.log, DocumentRevoked(a, h))]}
    BY <2>2, Zenon DEF revoke_document, InvokeLimited, Invoke
  <2>3. ASSUME NEW b, batch_register_documents(a, b)
        PROVE  \E d, g : ledger' \in {ledger, [m EXCEPT !.docs = d, !.log = g]}
    BY <2>3, Zenon DEF batch_register_documents, InvokeLimited, Invoke
  <2>4. ASSUME NEW b, batch_revoke_documents(a, b)
        PROVE  \E d, g : ledger' \in {ledger, [m EXCEPT !.docs = d, !.log = g]}
    BY <2>4, Zenon DEF batch_revoke_documents, InvokeLimited, Invoke
  <2> HIDE DEF m
  <2> QED
    BY <2>1, <2>2, <2>3, <2>4, Zenon
<1> HIDE DEF m
<1>3. PICK d, g : ledger' \in {ledger, [m EXCEPT !.docs = d, !.log = g]}
  BY <1>2, Zenon
<1> QED
  BY <1>1, <1>3 DEF SameGovernance, Ledger

(* What a governance call does: an error changes nothing, the first         *)
(* initialize or migrate sets admin and version, the others need the admin. *)
LEMMA GovernanceEffect ==
    ASSUME TypeOK, GovernanceCall
    PROVE  \/ ledger' = ledger
           \/ /\ ledger.version = 0
              /\ ledger'.admin \in Address /\ ledger'.version = CONTRACT_VERSION
              /\ ledger'.flags = ledger.flags /\ ledger'.config = ledger.config
              /\ ledger'.wasm = ledger.wasm
           \/ /\ ledger.admin # None /\ last'.by = ledger.admin
              /\ ledger'.admin = ledger.admin /\ ledger'.version = ledger.version
<1> PICK a \in Address :
        \/ initialize(a)
        \/ migrate(a)
        \/ \E w \in Wasm : upgrade(a, w)
        \/ \E flag \in Flag, enabled \in BOOLEAN : set_feature_flag(a, flag, enabled)
        \/ \E c \in RateLimitConfigs : set_rate_limit_config(a, c)
  BY DEF GovernanceCall
<1> USE DEF InvokeGovernance, Invoke
<1>1. ledger \in Ledger
  BY DEF TypeOK
<1>2. CASE initialize(a)
  BY <1>1, <1>2 DEF initialize, InitializeError, Ledger
<1>3. CASE migrate(a)
  BY <1>1, <1>3 DEF migrate, MigrateError, Ledger
<1>4. ASSUME NEW w, upgrade(a, w)
      PROVE  ledger' = ledger \/ (/\ ledger.admin = a /\ ledger.admin # None
                                  /\ last'.by = a /\ ledger'.admin = ledger.admin
                                  /\ ledger'.version = ledger.version)
  BY <1>1, <1>4 DEF upgrade, AdminError, Ledger
<1>5. ASSUME NEW f, NEW x, set_feature_flag(a, f, x)
      PROVE  ledger' = ledger \/ (/\ ledger.admin = a /\ ledger.admin # None
                                  /\ last'.by = a /\ ledger'.admin = ledger.admin
                                  /\ ledger'.version = ledger.version)
  BY <1>1, <1>5 DEF set_feature_flag, AdminError, Ledger
<1>6. ASSUME NEW c, set_rate_limit_config(a, c)
      PROVE  ledger' = ledger \/ (/\ ledger.admin = a /\ ledger.admin # None
                                  /\ last'.by = a /\ ledger'.admin = ledger.admin
                                  /\ ledger'.version = ledger.version)
  BY <1>1, <1>6 DEF set_rate_limit_config, AdminError, Ledger
<1> QED
  BY <1>2, <1>3, <1>4, <1>5, <1>6

LEMMA NextKeepsTogether ==
    TypeOK /\ AdminAndVersionTogether /\ [Next]_vars => AdminAndVersionTogether'
<1> SUFFICES ASSUME TypeOK, AdminAndVersionTogether, [Next]_vars
             PROVE  AdminAndVersionTogether'
  OBVIOUS
<1> USE DEF AdminAndVersionTogether, get_admin, get_version
<1>1. CASE DocumentCall
  BY <1>1, DocumentCallKeepsGovernance DEF SameGovernance
<1>2. CASE GovernanceCall
  BY <1>2, GovernanceEffect, ContractAssumption
<1>3. CASE CloseLedger \/ OpenWindow \/ UNCHANGED vars
  BY <1>3 DEF CloseLedger, OpenWindow, vars
<1> QED
  BY <1>1, <1>2, <1>3 DEF Next

(* A deployment has an admin exactly when it has a version, whichever of    *)
(* initialize and migrate set them, so no governance call can find one      *)
(* without the other.                                                       *)
THEOREM AdminHasVersion == Spec => []AdminAndVersionTogether
<1>1. Init => AdminAndVersionTogether
  BY DEF Init, AdminAndVersionTogether, get_admin, get_version
<1>2. TypeOK /\ AdminAndVersionTogether /\ [Next]_vars => AdminAndVersionTogether'
  BY NextKeepsTogether
<1> QED
  BY <1>1, <1>2, TypeCorrect, PTL DEF Spec

(* Nobody can take the contract over: once initialize or migrate has set an *)
(* admin it never changes, and code, flags and limits change only in calls  *)
(* that admin authorised.                                                   *)
THEOREM OnlyAdminGoverns == Spec => AdminGoverns
<1>1. TypeOK /\ AdminAndVersionTogether /\ [Next]_vars =>
        [/\ ledger.admin # None => ledger'.admin = ledger.admin
         /\ \/ ledger'.wasm # ledger.wasm
            \/ ledger'.flags # ledger.flags
            \/ ledger'.config # ledger.config
            => last'.by = ledger.admin]_vars
  <2> SUFFICES ASSUME TypeOK, AdminAndVersionTogether, Next
               PROVE  /\ ledger.admin # None => ledger'.admin = ledger.admin
                      /\ \/ ledger'.wasm # ledger.wasm
                         \/ ledger'.flags # ledger.flags
                         \/ ledger'.config # ledger.config
                         => last'.by = ledger.admin
    OBVIOUS
  <2>1. CASE DocumentCall
    BY <2>1, DocumentCallKeepsGovernance DEF SameGovernance
  <2>2. CASE GovernanceCall
    BY <2>2, GovernanceEffect DEF AdminAndVersionTogether, get_admin, get_version
  <2>3. CASE CloseLedger \/ OpenWindow
    BY <2>3 DEF CloseLedger, OpenWindow
  <2> QED
    BY <2>1, <2>2, <2>3 DEF Next
<1> QED
  BY <1>1, TypeCorrect, AdminHasVersion, PTL DEF Spec, AdminGoverns

-----------------------------------------------------------------------------
(* The contract implements the abstract registry *)

Fresh(l, m, a, S) ==
    /\ \A h \in S : l.docs[h] = None
    /\ \A h \in S : /\ m.docs[h] \in DocumentRecord /\ m.docs[h].issuer = a
                    /\ m.docs[h].status = "Active"
    /\ \A h \in Hash \ S : m.docs[h] = l.docs[h]

Revoked(l, m, a, S) ==
    /\ \A h \in S : /\ l.docs[h] # None /\ l.docs[h].issuer = a
                    /\ l.docs[h].status = "Active"
                    /\ m.docs[h] = [l.docs[h] EXCEPT !.status = "Revoked"]
    /\ \A h \in Hash \ S : m.docs[h] = l.docs[h]

LEMMA RegisterIsFresh ==
    ASSUME TypeOK, NEW a \in Address, NEW o \in Owner, NEW h \in Hash,
           register_document(a, o, h)
    PROVE  ledger' = ledger \/ Fresh(ledger, ledger', a, {h})
<1> DEFINE m == check_rate_limit(ledger, a, a).ledger
           frame == [m EXCEPT !.docs[h] = NewRecord(a, o),
                              !.log = Append(@, DocumentRegistered(a, o, h))]
<1>1. m \in Ledger /\ m.docs = ledger.docs
  BY CheckRateLimitType DEF TypeOK, SameButLimits
<1>2. \/ ledger' = ledger
      \/ ledger.docs[h] = None /\ ledger' = frame
  BY DEF register_document, InvokeLimited, Invoke, RegisterError
<1> HIDE DEF m
<1>3. frame.docs = [m.docs EXCEPT ![h] = NewRecord(a, o)]
  BY <1>1 DEF Ledger
<1>4. m.docs \in [Hash -> DocumentRecord \cup {None}]
  BY <1>1 DEF Ledger
<1>5. NewRecord(a, o) \in DocumentRecord
  BY EventTypes
<1> HIDE DEF frame
<1>6. ASSUME ledger.docs[h] = None, ledger' = frame
      PROVE  Fresh(ledger, ledger', a, {h})
  BY <1>1, <1>3, <1>4, <1>5, <1>6 DEF Fresh, NewRecord
<1> QED
  BY <1>2, <1>6

LEMMA RevokeIsRevoked ==
    ASSUME TypeOK, NEW a \in Address, NEW h \in Hash, revoke_document(a, h)
    PROVE  ledger' = ledger \/ Revoked(ledger, ledger', a, {h})
<1> DEFINE m == check_rate_limit(ledger, a, a).ledger
           frame == [m EXCEPT !.docs[h].status = "Revoked",
                              !.log = Append(@, DocumentRevoked(a, h))]
<1>1. m \in Ledger /\ m.docs = ledger.docs
  BY CheckRateLimitType DEF TypeOK, SameButLimits
<1>2. \/ ledger' = ledger
      \/ RevokeError(ledger.docs[h], a) = "Ok" /\ ledger' = frame
  BY DEF revoke_document, InvokeLimited, Invoke
<1> HIDE DEF m
<1>3. frame.docs = [m.docs EXCEPT ![h].status = "Revoked"]
  BY <1>1 DEF Ledger
<1>4. m.docs \in [Hash -> DocumentRecord \cup {None}]
  BY <1>1 DEF Ledger
<1> HIDE DEF frame
<1>5. ASSUME RevokeError(ledger.docs[h], a) = "Ok", ledger' = frame
      PROVE  Revoked(ledger, ledger', a, {h})
  <2>1. /\ ledger.docs[h] # None /\ ledger.docs[h].issuer = a
        /\ ledger.docs[h].status # "Revoked"
    BY <1>5 DEF RevokeError
  <2>2. ledger.docs[h].status = "Active"
    BY <2>1, <1>1, <1>4 DEF DocumentRecord
  <2> QED
    BY <1>1, <1>3, <1>4, <1>5, <2>1, <2>2 DEF Revoked
<1> QED
  BY <1>2, <1>5

LEMMA BatchRegisterIsFresh ==
    ASSUME TypeOK, NEW a \in Address, NEW batch \in Batches(DocumentInfo),
           batch_register_documents(a, batch)
    PROVE  ledger' = ledger \/ \E S \in SUBSET Hash : Fresh(ledger, ledger', a, S)
<1> DEFINE m == check_rate_limit(ledger, a, a).ledger
           hashes == [k \in DOMAIN batch |-> batch[k].document_hash]
           errors == [k \in DOMAIN batch |->
                        IF Earlier(hashes, k) THEN "AlreadyRegistered"
                        ELSE RegisterError(ledger.docs[hashes[k]])]
           OwnerOf(h) == batch[CHOOSE k \in DOMAIN batch : hashes[k] = h].owner
           docs == [h \in Hash |-> IF \E k \in DOMAIN hashes : hashes[k] = h
                                   THEN NewRecord(a, OwnerOf(h)) ELSE m.docs[h]]
           news == [k \in DOMAIN batch |->
                      DocumentRegistered(a, batch[k].owner, hashes[k])]
           frame == [m EXCEPT !.docs = docs, !.log = @ \o news]
           S == {h \in Hash : \E k \in DOMAIN hashes : hashes[k] = h}
<1>1. m \in Ledger /\ m.docs = ledger.docs
  BY CheckRateLimitType DEF TypeOK, SameButLimits
<1>2. \/ ledger' = ledger
      \/ FirstError(errors) = "Ok" /\ ledger' = frame
  BY DEF batch_register_documents, InvokeLimited, Invoke
<1>3. PICK n \in Nat : batch \in [1 .. n -> DocumentInfo]
  BY BatchIsSeq
<1>4. \A k \in 1 .. n : batch[k].owner \in Owner /\ hashes[k] \in Hash
  BY <1>3 DEF DocumentInfo
<1>5. errors \in [1 .. n -> ContractError \cup {"Ok"}]
  BY <1>3 DEF RegisterError, ContractError
<1>6. frame.docs = docs
  <2> HIDE DEF m, docs, news
  <2> QED
    BY <1>1 DEF Ledger
<1>7. ASSUME FirstError(errors) = "Ok", ledger' = frame
      PROVE  Fresh(ledger, ledger', a, S)
  <2>1. \A k \in 1 .. n : errors[k] = "Ok"
    BY <1>5, <1>7, FirstErrorIs
  <2>2. \A k \in 1 .. n : ledger.docs[hashes[k]] = None
    BY <1>3, <2>1 DEF RegisterError
  <2>3. \A h \in S : ledger.docs[h] = None
    BY <1>3, <2>2
  <2>4. ASSUME NEW h \in S
        PROVE  /\ docs[h] \in DocumentRecord /\ docs[h].issuer = a
               /\ docs[h].status = "Active"
    <3>1. OwnerOf(h) \in Owner
      BY <1>3, <1>4
    <3>2. docs[h] = NewRecord(a, OwnerOf(h))
      OBVIOUS
    <3> HIDE DEF OwnerOf, docs
    <3> QED
      BY <3>1, <3>2, EventTypes DEF NewRecord
  <2>5. \A h \in Hash \ S : docs[h] = ledger.docs[h]
    BY <1>1
  <2> HIDE DEF docs, S, frame
  <2> QED
    BY <1>6, <1>7, <2>3, <2>4, <2>5 DEF Fresh
<1> HIDE DEF frame, errors
<1> QED
  BY <1>2, <1>7

LEMMA BatchRevokeIsRevoked ==
    ASSUME TypeOK, NEW a \in Address, NEW hashes \in Batches(Hash),
           batch_revoke_documents(a, hashes)
    PROVE  ledger' = ledger \/ \E S \in SUBSET Hash : Revoked(ledger, ledger', a, S)
<1> DEFINE m == check_rate_limit(ledger, a, a).ledger
           errors == [k \in DOMAIN hashes |->
                        LET e == RevokeError(ledger.docs[hashes[k]], a)
                        IN  IF e = "Ok" /\ Earlier(hashes, k)
                            THEN "AlreadyRevoked" ELSE e]
           docs == [h \in Hash |-> IF \E k \in DOMAIN hashes : hashes[k] = h
                                   THEN [m.docs[h] EXCEPT !.status = "Revoked"]
                                   ELSE m.docs[h]]
           news == [k \in DOMAIN hashes |-> DocumentRevoked(a, hashes[k])]
           frame == [m EXCEPT !.docs = docs, !.log = @ \o news]
           S == {h \in Hash : \E k \in DOMAIN hashes : hashes[k] = h}
<1>1. m \in Ledger /\ m.docs = ledger.docs
  BY CheckRateLimitType DEF TypeOK, SameButLimits
<1>2. \/ ledger' = ledger
      \/ FirstError(errors) = "Ok" /\ ledger' = frame
  BY DEF batch_revoke_documents, InvokeLimited, Invoke
<1>3. PICK n \in Nat : hashes \in [1 .. n -> Hash]
  BY BatchIsSeq
<1>4. errors \in [1 .. n -> ContractError \cup {"Ok"}]
  BY <1>3 DEF RevokeError, ContractError
<1>5. frame.docs = docs
  <2> HIDE DEF m, docs, news
  <2> QED
    BY <1>1 DEF Ledger
<1>6. ASSUME FirstError(errors) = "Ok", ledger' = frame
      PROVE  Revoked(ledger, ledger', a, S)
  <2>1. \A k \in 1 .. n : errors[k] = "Ok"
    BY <1>4, <1>6, FirstErrorIs
  <2>2. \A k \in 1 .. n : /\ ledger.docs[hashes[k]] # None
                         /\ ledger.docs[hashes[k]].issuer = a
                         /\ ledger.docs[hashes[k]].status # "Revoked"
    BY <1>3, <2>1 DEF RevokeError
  <2>3. \A h \in S : /\ ledger.docs[h] # None /\ ledger.docs[h].issuer = a
                    /\ ledger.docs[h].status # "Revoked"
    BY <1>3, <2>2
  <2>4. \A h \in S : ledger.docs[h].status = "Active"
    BY <2>3 DEF TypeOK, Ledger, DocumentRecord
  <2>5. /\ \A h \in S : docs[h] = [ledger.docs[h] EXCEPT !.status = "Revoked"]
        /\ \A h \in Hash \ S : docs[h] = ledger.docs[h]
    BY <1>1
  <2> HIDE DEF docs, S, frame
  <2> QED
    BY <1>5, <1>6, <2>3, <2>4, <2>5 DEF Revoked
<1> HIDE DEF frame, errors
<1> QED
  BY <1>2, <1>6

LEMMA GovernanceKeepsDocuments ==
    ASSUME TypeOK, GovernanceCall
    PROVE  ledger'.docs = ledger.docs
<1> USE DEF InvokeGovernance, Invoke
<1>1. ledger \in Ledger
  BY DEF TypeOK
<1>2. ASSUME NEW a, initialize(a) PROVE ledger'.docs = ledger.docs
  BY <1>1, <1>2 DEF initialize, Ledger
<1>3. ASSUME NEW a, migrate(a) PROVE ledger'.docs = ledger.docs
  BY <1>1, <1>3 DEF migrate, Ledger
<1>4. ASSUME NEW a, NEW w, upgrade(a, w) PROVE ledger'.docs = ledger.docs
  BY <1>1, <1>4 DEF upgrade, Ledger
<1>5. ASSUME NEW a, NEW f, NEW x, set_feature_flag(a, f, x)
      PROVE  ledger'.docs = ledger.docs
  BY <1>1, <1>5 DEF set_feature_flag, Ledger
<1>6. ASSUME NEW a, NEW c, set_rate_limit_config(a, c)
      PROVE  ledger'.docs = ledger.docs
  BY <1>1, <1>6 DEF set_rate_limit_config, Ledger
<1> QED
  BY <1>2, <1>3, <1>4, <1>5, <1>6 DEF GovernanceCall

(* The refinement mapping, as a function of the ledger. *)
Abstract(l) ==
    [h \in Hash |-> IF l.docs[h] # None
                    THEN [issuer |-> l.docs[h].issuer, owner |-> l.docs[h].owner,
                          status |-> l.docs[h].status]
                    ELSE None]

LEMMA AbstractFresh ==
    ASSUME TypeOK, TypeOK', NEW a \in Address, NEW S \in SUBSET Hash,
           Fresh(ledger, ledger', a, S)
    PROVE  Registry!Register(a, S)
<1> DEFINE new == [h \in S |-> Abstract(ledger')[h]]
<1>1. \A h \in S : Abstract(ledger)[h] = None
  BY DEF Abstract, Fresh
<1>2. new \in [S -> Registry!Entry(a, "Active")]
  <2> SUFFICES ASSUME NEW h \in S
               PROVE  Abstract(ledger')[h] \in Registry!Entry(a, "Active")
    OBVIOUS
  <2>1. /\ ledger'.docs[h] # None /\ ledger'.docs[h].issuer = a
        /\ ledger'.docs[h].status = "Active" /\ ledger'.docs[h].owner \in Address
    BY ContractAssumption DEF Fresh, DocumentRecord
  <2> QED
    BY <2>1 DEF Abstract, Registry!Entry
<1>3. Abstract(ledger') = [h \in Hash |->
                             IF h \in S THEN new[h] ELSE Abstract(ledger)[h]]
  BY DEF Abstract, Fresh
<1> HIDE DEF new
<1> QED
  BY <1>1, <1>2, <1>3, Zenon
  DEF Registry!Register, Abstract, document_exists, get_document_status

LEMMA AbstractRevoked ==
    ASSUME TypeOK, NEW a \in Address, NEW S \in SUBSET Hash,
           Revoked(ledger, ledger', a, S)
    PROVE  Registry!Revoke(a, S)
<1>1. \A h \in S : /\ ledger.docs[h] \in DocumentRecord /\ ledger.docs[h].issuer = a
                  /\ ledger.docs[h] # None
                  /\ ledger.docs[h].status = "Active"
                  /\ ledger'.docs[h] = [ledger.docs[h] EXCEPT !.status = "Revoked"]
  BY DEF TypeOK, Ledger, Revoked
<1>2. \A h \in S : Abstract(ledger)[h] \in Registry!Entry(a, "Active")
  BY <1>1 DEF Abstract, Registry!Entry, DocumentRecord
<1>3. ASSUME NEW h \in S
      PROVE  Abstract(ledger')[h] = [Abstract(ledger)[h] EXCEPT !.status = "Revoked"]
  <2>1. Abstract(ledger)[h] = [issuer |-> a, owner |-> ledger.docs[h].owner,
                               status |-> "Active"]
    BY <1>1 DEF Abstract
  <2>2. /\ ledger'.docs[h] \in DocumentRecord
        /\ ledger'.docs[h].issuer = a
        /\ ledger'.docs[h].owner = ledger.docs[h].owner
        /\ ledger'.docs[h].status = "Revoked"
    BY <1>1 DEF DocumentRecord
  <2>3. Abstract(ledger')[h] = [issuer |-> a, owner |-> ledger.docs[h].owner,
                                status |-> "Revoked"]
    BY <2>2, ContractAssumption DEF Abstract
  <2> QED
    BY <2>1, <2>3
<1>4. Abstract(ledger') =
        [h \in Hash |-> IF h \in S THEN [Abstract(ledger)[h] EXCEPT !.status = "Revoked"]
                                   ELSE Abstract(ledger)[h]]
  <2>1. \A h \in Hash \ S : Abstract(ledger')[h] = Abstract(ledger)[h]
    BY DEF Abstract, Revoked
  <2> QED
    BY <1>3, <2>1 DEF Abstract
<1> QED
  BY <1>2, <1>4, Zenon
  DEF Registry!Revoke, Abstract, document_exists, get_document_status

(* Every step of the contract is a step of the registry or leaves it alone. *)
LEMMA StepRefines ==
    ASSUME TypeOK, TypeOK', [Next]_vars
    PROVE  Registry!Next \/ Abstract(ledger') = Abstract(ledger)
<1>1. CASE DocumentCall
  <2>1. PICK a \in Address :
          \/ \E o \in Owner, h \in Hash : register_document(a, o, h)
          \/ \E h \in Hash : revoke_document(a, h)
          \/ \E b \in Batches(DocumentInfo) : batch_register_documents(a, b)
          \/ \E b \in Batches(Hash) : batch_revoke_documents(a, b)
    BY <1>1, ContractAssumption DEF DocumentCall
  <2>2. \/ ledger' = ledger
        \/ \E S \in SUBSET Hash : Fresh(ledger, ledger', a, S)
        \/ \E S \in SUBSET Hash : Revoked(ledger, ledger', a, S)
    BY <2>1, RegisterIsFresh, RevokeIsRevoked, BatchRegisterIsFresh, BatchRevokeIsRevoked
  <2> QED
    BY <2>2, AbstractFresh, AbstractRevoked DEF Registry!Next
<1>2. CASE GovernanceCall
  BY <1>2, GovernanceKeepsDocuments DEF Abstract
<1>3. CASE CloseLedger \/ OpenWindow \/ UNCHANGED vars
  BY <1>3 DEF CloseLedger, OpenWindow, vars, Abstract
<1> QED
  BY <1>1, <1>2, <1>3 DEF Next

(* The contract implements the abstract registry for every number of        *)
(* issuers, hashes and batch sizes: a hash is registered at most once, its  *)
(* issuer and owner are fixed, only the issuer revokes, revocation is       *)
(* final, and a batch with one bad or repeated item changes nothing.        *)
THEOREM ContractImplementsRegistry == Spec => RefinesRegistry
<1>1. Init => Registry!Init
  BY DEF Init, Registry!Init, document_exists
<1>2. TypeOK /\ TypeOK' /\ [Next]_vars =>
        [Registry!Next]_([h \in Hash |->
                            IF document_exists(h)
                            THEN [issuer |-> ledger.docs[h].issuer,
                                  owner  |-> ledger.docs[h].owner,
                                  status |-> get_document_status(h)]
                            ELSE None])
  <2> SUFFICES ASSUME TypeOK, TypeOK', [Next]_vars,
                      Abstract(ledger') = Abstract(ledger)
               PROVE  UNCHANGED [h \in Hash |->
                            IF document_exists(h)
                            THEN [issuer |-> ledger.docs[h].issuer,
                                  owner  |-> ledger.docs[h].owner,
                                  status |-> get_document_status(h)]
                            ELSE None]
    BY StepRefines
  <2> QED
    BY DEF Abstract, document_exists, get_document_status
<1> QED
  BY <1>1, <1>2, TypeCorrect, PTL DEF Spec, RefinesRegistry, Registry!Spec

-----------------------------------------------------------------------------
(* The event log *)

(* A log that grew by `news' holds the events of both. *)
LEMMA LogGrows ==
    ASSUME NEW log \in Seq(Event), NEW n \in Nat, NEW news \in [1 .. n -> Event]
    PROVE  /\ DOMAIN (log \o news) = 1 .. Len(log) + n
           /\ \A i \in 1 .. Len(log) : (log \o news)[i] = log[i]
           /\ \A k \in 1 .. n : (log \o news)[Len(log) + k] = news[k]
<1>1. news \in Seq(Event) /\ Len(news) = n
  OBVIOUS
<1>2. log \o news \in Seq(Event) /\ Len(log \o news) = Len(log) + n
  BY <1>1
<1>3. DOMAIN (log \o news) = 1 .. Len(log) + n
  BY <1>2
<1>4. \A i \in 1 .. Len(log) : (log \o news)[i] = log[i]
  BY <1>1
<1>5. \A k \in 1 .. n : (log \o news)[Len(log) + k] = news[k]
  BY <1>1
<1> QED
  BY <1>3, <1>4, <1>5

LEMMA LogAppends ==
    ASSUME NEW log \in Seq(Event), NEW e \in Event
    PROVE  /\ DOMAIN Append(log, e) = 1 .. Len(log) + 1
           /\ \A i \in 1 .. Len(log) : Append(log, e)[i] = log[i]
           /\ Append(log, e)[Len(log) + 1] = e
OBVIOUS

(* news announces the n hashes of a batch, one by one; item k is the only   *)
(* one with its hash.                                                       *)
Announces(news, hashes, n) ==
    \A k \in 1 .. n : /\ news[k] \in Event /\ news[k].type \in {"register", "revoke"}
                      /\ news[k].hash = hashes[k]

OnlyAt(hashes, n, h, k) ==
    hashes[k] = h /\ \A j \in 1 .. n : hashes[j] = h => j = k

(* The events of a hash in a log that grew by the events of a batch. *)
LEMMA EventsGrow ==
    ASSUME NEW log \in Seq(Event), NEW n \in Nat, NEW news \in [1 .. n -> Event],
           NEW hashes, NEW h \in Hash, Announces(news, hashes, n)
    PROVE  /\ (~ \E k \in 1 .. n : hashes[k] = h) => EventsOf(log \o news, h) = EventsOf(log, h)
           /\ \A k \in 1 .. n : OnlyAt(hashes, n, h, k) =>
                EventsOf(log \o news, h) = EventsOf(log, h) \cup {Len(log) + k}
<1> DEFINE len == Len(log)
           grown == log \o news
<1>1. len \in Nat /\ DOMAIN log = 1 .. len
  OBVIOUS
<1>2. /\ DOMAIN grown = 1 .. len + n
      /\ \A i \in 1 .. len : grown[i] = log[i]
      /\ \A k \in 1 .. n : grown[len + k] = news[k]
  BY LogGrows
<1> HIDE DEF len, grown
<1>3. 1 .. len \subseteq 1 .. len + n /\ \A k \in 1 .. n : len + k \in 1 .. len + n
  BY <1>1
<1>4. \A i \in 1 .. len : i \in EventsOf(grown, h) <=> i \in EventsOf(log, h)
  BY <1>1, <1>2, <1>3 DEF EventsOf
<1>5. \A k \in 1 .. n : /\ len + k \in EventsOf(grown, h) <=> hashes[k] = h
                        /\ len + k \notin 1 .. len
                        /\ \A j \in 1 .. n : len + k = len + j => k = j
  BY <1>1, <1>2, <1>3 DEF EventsOf, Announces
<1>6. EventsOf(grown, h) \subseteq 1 .. len + n /\ EventsOf(log, h) \subseteq 1 .. len
  BY <1>1, <1>2 DEF EventsOf
<1>7. \A i \in 1 .. len + n : i \in 1 .. len \/ \E k \in 1 .. n : i = len + k
  <2> SUFFICES ASSUME NEW i \in 1 .. len + n, i \notin 1 .. len
               PROVE  \E k \in 1 .. n : i = len + k
    OBVIOUS
  <2>1. i - len \in 1 .. n /\ i = len + (i - len)
    BY <1>1
  <2> QED
    BY <2>1
<1>8. ASSUME ~ \E k \in 1 .. n : hashes[k] = h
      PROVE  EventsOf(grown, h) = EventsOf(log, h)
  <2>1. \A k \in 1 .. n : len + k \notin EventsOf(grown, h)
    BY <1>5, <1>8
  <2> QED
    BY <1>4, <1>6, <1>7, <2>1
<1>9. ASSUME NEW k \in 1 .. n, OnlyAt(hashes, n, h, k)
      PROVE  EventsOf(grown, h) = EventsOf(log, h) \cup {len + k}
  BY <1>4, <1>5, <1>6, <1>7, <1>9 DEF OnlyAt
<1> QED
  BY <1>8, <1>9 DEF len, grown

LEMMA EventsGrowAt ==
    ASSUME NEW log \in Seq(Event), NEW n \in Nat, NEW news \in [1 .. n -> Event],
           NEW hashes, NEW h \in Hash, Announces(news, hashes, n),
           NEW k \in 1 .. n, OnlyAt(hashes, n, h, k)
    PROVE  EventsOf(log \o news, h) = EventsOf(log, h) \cup {Len(log) + k}
BY EventsGrow

(* What a step may do to the log, and to one document and its events. *)
LogKept(l, m) ==
    /\ Len(l.log) \in Nat
    /\ DOMAIN l.log = 1 .. Len(l.log)
    /\ \A i \in DOMAIN l.log : m.log[i] = l.log[i]

Untouched(l, m, h) ==
    m.docs[h] = l.docs[h] /\ EventsOf(m.log, h) = EventsOf(l.log, h)

Issued(l, m, h, i) ==
    /\ l.docs[h] = None
    /\ m.docs[h] \in DocumentRecord /\ m.docs[h].status = "Active"
    /\ EventsOf(m.log, h) = EventsOf(l.log, h) \cup {i}
    /\ m.log[i] = DocumentRegistered(m.docs[h].issuer, m.docs[h].owner, h)

Withdrawn(l, m, h, i) ==
    /\ l.docs[h] \in DocumentRecord /\ l.docs[h].status = "Active"
    /\ m.docs[h] = [l.docs[h] EXCEPT !.status = "Revoked"]
    /\ i \in Nat /\ i > Len(l.log)
    /\ EventsOf(m.log, h) = EventsOf(l.log, h) \cup {i}
    /\ m.log[i] = DocumentRevoked(m.docs[h].issuer, h)

LogStep(l, m) ==
    /\ LogKept(l, m)
    /\ \A h \in Hash : \/ Untouched(l, m, h)
                       \/ \E i : Issued(l, m, h, i)
                       \/ \E i : Withdrawn(l, m, h, i)

(* Such a step keeps the log and the documents in agreement. *)
LEMMA LogStepMatches ==
    ASSUME TypeOK, LogMatchesDocuments, LogStep(ledger, ledger')
    PROVE  LogMatchesDocuments'
<1> DEFINE Good(l, h) ==
             /\ l.docs[h] = None => EventsOf(l.log, h) = {}
             /\ l.docs[h] # None /\ l.docs[h].status = "Active" =>
                  \E i \in EventsOf(l.log, h) :
                     /\ EventsOf(l.log, h) = {i}
                     /\ l.log[i] = DocumentRegistered(l.docs[h].issuer, l.docs[h].owner, h)
             /\ l.docs[h] # None /\ l.docs[h].status # "Active" =>
                  \E i, j \in EventsOf(l.log, h) :
                     /\ i < j /\ EventsOf(l.log, h) = {i, j}
                     /\ l.log[i] = DocumentRegistered(l.docs[h].issuer, l.docs[h].owner, h)
                     /\ l.log[j] = DocumentRevoked(l.docs[h].issuer, h)
<1>1. \A h \in Hash : Good(ledger, h)
  BY Zenon DEF LogMatchesDocuments, get_document, verify_document, document_exists
<1>2. ASSUME NEW h \in Hash PROVE Good(ledger', h)
  <2>0. EventsOf(ledger.log, h) \subseteq DOMAIN ledger.log
    BY DEF EventsOf
  <2>1. \A i \in EventsOf(ledger.log, h) : ledger'.log[i] = ledger.log[i] /\ i <= Len(ledger.log)
                                            /\ i \in Nat
    BY <2>0 DEF LogStep, LogKept
  <2>2. CASE Untouched(ledger, ledger', h)
    <3>1. Good(ledger, h)
      BY <1>1
    <3> QED
      BY <2>1, <2>2, <3>1, Zenon DEF Untouched
  <2>3. ASSUME NEW i, Issued(ledger, ledger', h, i) PROVE Good(ledger', h)
    <3>1. EventsOf(ledger'.log, h) = {i}
      BY <1>1, <2>3 DEF Issued
    <3>2. ledger'.docs[h] # None
      BY <2>3, ContractAssumption DEF Issued
    <3> QED
      BY <2>3, <3>1, <3>2 DEF Issued
  <2>4. ASSUME NEW j, Withdrawn(ledger, ledger', h, j) PROVE Good(ledger', h)
    <3>1. /\ ledger'.docs[h] \in DocumentRecord /\ ledger'.docs[h].status = "Revoked"
          /\ ledger'.docs[h].issuer = ledger.docs[h].issuer
          /\ ledger'.docs[h].owner = ledger.docs[h].owner
      BY <2>4 DEF Withdrawn, DocumentRecord
    <3>2. ledger'.docs[h] # None /\ ledger.docs[h] # None
      BY <2>4, <3>1, ContractAssumption DEF Withdrawn
    <3>3. PICK i \in EventsOf(ledger.log, h) :
             /\ EventsOf(ledger.log, h) = {i}
             /\ ledger.log[i] = DocumentRegistered(ledger.docs[h].issuer, ledger.docs[h].owner, h)
      BY <1>1, <2>4, <3>2 DEF Withdrawn
    <3>4. EventsOf(ledger'.log, h) = {i, j} /\ i < j
      BY <2>1, <2>4, <3>3 DEF Withdrawn, LogStep, LogKept
    <3>5. /\ ledger'.log[i] = DocumentRegistered(ledger'.docs[h].issuer, ledger'.docs[h].owner, h)
          /\ ledger'.log[j] = DocumentRevoked(ledger'.docs[h].issuer, h)
      BY <2>1, <2>4, <3>1, <3>3 DEF Withdrawn
    <3> QED
      BY <3>1, <3>2, <3>4, <3>5
  <2> HIDE DEF Good
  <2> QED
    BY <2>2, <2>3, <2>4, Zenon DEF LogStep
<1> QED
  BY <1>2, Zenon DEF LogMatchesDocuments, get_document, verify_document, document_exists

LEMMA RegisterLogStep ==
    ASSUME TypeOK, NEW a \in Address, NEW o \in Owner, NEW h \in Hash,
           register_document(a, o, h)
    PROVE  ledger' = ledger \/ LogStep(ledger, ledger')
<1> DEFINE m == check_rate_limit(ledger, a, a).ledger
           e == DocumentRegistered(a, o, h)
           frame == [m EXCEPT !.docs[h] = NewRecord(a, o), !.log = Append(@, e)]
<1>1. m \in Ledger /\ m.docs = ledger.docs /\ m.log = ledger.log
  BY CheckRateLimitType DEF TypeOK, SameButLimits
<1>2. \/ ledger' = ledger
      \/ ledger.docs[h] = None /\ ledger' = frame
  BY DEF register_document, InvokeLimited, Invoke, RegisterError
<1>3. e \in Event /\ NewRecord(a, o) \in DocumentRecord
  BY EventTypes
<1>4. e.type = "register" /\ e.hash = h
  BY DEF DocumentRegistered
<1> HIDE DEF m, e
<1>5. /\ frame.docs = [ledger.docs EXCEPT ![h] = NewRecord(a, o)]
      /\ frame.log = Append(ledger.log, e)
  BY <1>1 DEF Ledger
<1>6. ledger.log \in Seq(Event) /\ ledger.docs \in [Hash -> DocumentRecord \cup {None}]
  BY <1>1 DEF Ledger
<1> HIDE DEF frame
<1>7. ASSUME ledger.docs[h] = None, ledger' = frame
      PROVE  LogStep(ledger, ledger')
  <2> DEFINE log == ledger.log
             n == Len(log)
  <2>1. /\ DOMAIN ledger'.log = 1 .. n + 1
        /\ \A i \in 1 .. n : ledger'.log[i] = log[i]
        /\ ledger'.log[n + 1] = e
    BY <1>3, <1>5, <1>6, <1>7, LogAppends
  <2>2. n \in Nat /\ DOMAIN log = 1 .. n
    BY <1>6
  <2> HIDE DEF log, n
  <2>3. EventsOf(ledger'.log, h) = EventsOf(log, h) \cup {n + 1}
    BY <1>4, <2>1, <2>2 DEF EventsOf
  <2>4. \A x \in Hash \ {h} : EventsOf(ledger'.log, x) = EventsOf(log, x)
    BY <1>4, <2>1, <2>2 DEF EventsOf
  <2>5. ledger'.docs[h] = NewRecord(a, o) /\ \A x \in Hash \ {h} : ledger'.docs[x] = ledger.docs[x]
    BY <1>5, <1>6, <1>7
  <2>6. Issued(ledger, ledger', h, n + 1)
    BY <1>3, <1>7, <2>1, <2>3, <2>5 DEF Issued, NewRecord, log, e
  <2>7. \A x \in Hash \ {h} : Untouched(ledger, ledger', x)
    BY <2>4, <2>5 DEF Untouched, log
  <2>8. LogKept(ledger, ledger')
    BY <2>1, <2>2 DEF LogKept, log, n
  <2> QED
    BY <2>6, <2>7, <2>8, Zenon DEF LogStep
<1> QED
  BY <1>2, <1>7

LEMMA RevokeLogStep ==
    ASSUME TypeOK, NEW a \in Address, NEW h \in Hash, revoke_document(a, h)
    PROVE  ledger' = ledger \/ LogStep(ledger, ledger')
<1> DEFINE m == check_rate_limit(ledger, a, a).ledger
           e == DocumentRevoked(a, h)
           frame == [m EXCEPT !.docs[h].status = "Revoked", !.log = Append(@, e)]
<1>1. m \in Ledger /\ m.docs = ledger.docs /\ m.log = ledger.log
  BY CheckRateLimitType DEF TypeOK, SameButLimits
<1>2. \/ ledger' = ledger
      \/ RevokeError(ledger.docs[h], a) = "Ok" /\ ledger' = frame
  BY DEF revoke_document, InvokeLimited, Invoke
<1>3. e \in Event
  BY EventTypes
<1>4. e.type = "revoke" /\ e.hash = h
  BY DEF DocumentRevoked
<1> HIDE DEF m, e
<1>5. /\ frame.docs = [ledger.docs EXCEPT ![h].status = "Revoked"]
      /\ frame.log = Append(ledger.log, e)
  BY <1>1 DEF Ledger
<1>6. ledger.log \in Seq(Event) /\ ledger.docs \in [Hash -> DocumentRecord \cup {None}]
  BY <1>1 DEF Ledger
<1> HIDE DEF frame
<1>7. ASSUME RevokeError(ledger.docs[h], a) = "Ok", ledger' = frame
      PROVE  LogStep(ledger, ledger')
  <2> DEFINE log == ledger.log
             n == Len(log)
  <2>1. /\ DOMAIN ledger'.log = 1 .. n + 1
        /\ \A i \in 1 .. n : ledger'.log[i] = log[i]
        /\ ledger'.log[n + 1] = e
    BY <1>3, <1>5, <1>6, <1>7, LogAppends
  <2>2. n \in Nat /\ DOMAIN log = 1 .. n
    BY <1>6
  <2>3. /\ ledger.docs[h] \in DocumentRecord /\ ledger.docs[h].status = "Active"
        /\ ledger.docs[h].issuer = a
    BY <1>6, <1>7 DEF RevokeError, DocumentRecord
  <2> HIDE DEF log, n
  <2>4. EventsOf(ledger'.log, h) = EventsOf(log, h) \cup {n + 1}
    BY <1>4, <2>1, <2>2 DEF EventsOf
  <2>5. \A x \in Hash \ {h} : EventsOf(ledger'.log, x) = EventsOf(log, x)
    BY <1>4, <2>1, <2>2 DEF EventsOf
  <2>6. /\ ledger'.docs[h] = [ledger.docs[h] EXCEPT !.status = "Revoked"]
        /\ \A x \in Hash \ {h} : ledger'.docs[x] = ledger.docs[x]
    BY <1>5, <1>6, <1>7
  <2>7. ledger'.docs[h].issuer = a
    BY <2>3, <2>6 DEF DocumentRecord
  <2>8. n + 1 \in Nat /\ n + 1 > Len(ledger.log)
    BY <2>2 DEF log, n
  <2>9. Withdrawn(ledger, ledger', h, n + 1)
    BY <2>1, <2>3, <2>4, <2>6, <2>7, <2>8, Zenon DEF Withdrawn, log, e
  <2>10. \A x \in Hash \ {h} : Untouched(ledger, ledger', x)
    BY <2>5, <2>6 DEF Untouched, log
  <2>11. LogKept(ledger, ledger')
    BY <2>1, <2>2 DEF LogKept, log, n
  <2> QED
    BY <2>9, <2>10, <2>11, Zenon DEF LogStep
<1> QED
  BY <1>2, <1>7

LEMMA BatchRegisterLogStep ==
    ASSUME TypeOK, NEW a \in Address, NEW batch \in Batches(DocumentInfo),
           batch_register_documents(a, batch)
    PROVE  ledger' = ledger \/ LogStep(ledger, ledger')
<1> DEFINE m == check_rate_limit(ledger, a, a).ledger
           hashes == [k \in DOMAIN batch |-> batch[k].document_hash]
           errors == [k \in DOMAIN batch |->
                        IF Earlier(hashes, k) THEN "AlreadyRegistered"
                        ELSE RegisterError(ledger.docs[hashes[k]])]
           OwnerOf(h) == batch[CHOOSE k \in DOMAIN batch : hashes[k] = h].owner
           docs == [h \in Hash |-> IF \E k \in DOMAIN hashes : hashes[k] = h
                                   THEN NewRecord(a, OwnerOf(h)) ELSE m.docs[h]]
           news == [k \in DOMAIN batch |->
                      DocumentRegistered(a, batch[k].owner, hashes[k])]
           frame == [m EXCEPT !.docs = docs, !.log = @ \o news]
<1>1. m \in Ledger /\ m.docs = ledger.docs /\ m.log = ledger.log
  BY CheckRateLimitType DEF TypeOK, SameButLimits
<1>2. \/ ledger' = ledger
      \/ FirstError(errors) = "Ok" /\ ledger' = frame
  BY DEF batch_register_documents, InvokeLimited, Invoke
<1>3. PICK n \in Nat : batch \in [1 .. n -> DocumentInfo]
  BY BatchIsSeq
<1>4. \A k \in 1 .. n : batch[k].owner \in Owner /\ hashes[k] \in Hash
  BY <1>3 DEF DocumentInfo
<1>5. errors \in [1 .. n -> ContractError \cup {"Ok"}]
  BY <1>3 DEF RegisterError, ContractError
<1>6. frame.docs = docs /\ frame.log = ledger.log \o news
  <2> HIDE DEF m, docs, news
  <2> QED
    BY <1>1 DEF Ledger
<1>7. ledger.log \in Seq(Event)
  BY <1>1 DEF Ledger
<1>8. news \in [1 .. n -> Event]
  BY <1>3, <1>4, EventTypes
<1>9. Announces(news, hashes, n)
  BY <1>3, <1>8 DEF DocumentRegistered, Announces
<1>10. ASSUME FirstError(errors) = "Ok", ledger' = frame
       PROVE  LogStep(ledger, ledger')
  <2> DEFINE log == ledger.log
             len == Len(log)
  <2>1. \A k \in 1 .. n : errors[k] = "Ok"
    BY <1>5, <1>10, FirstErrorIs
  <2>2. \A k \in 1 .. n : ledger.docs[hashes[k]] = None /\ ~ Earlier(hashes, k)
    BY <1>3, <2>1 DEF RegisterError
  <2>3. \A j, k \in 1 .. n : hashes[j] = hashes[k] => j = k
    <3>1. \A k \in 1 .. n : \A j \in 1 .. k - 1 : hashes[j] # hashes[k]
      BY <2>2, Zenon DEF Earlier
    <3> HIDE DEF hashes
    <3> QED
      BY <3>1
  <2>4. ledger'.docs = docs /\ ledger'.log = log \o news
    BY <1>6, <1>10
  <2>5. len \in Nat /\ DOMAIN log = 1 .. len
    BY <1>7
  <2>6. LogKept(ledger, ledger') /\ \A k \in 1 .. n : ledger'.log[len + k] = news[k]
    <3>1. /\ \A i \in 1 .. len : (log \o news)[i] = log[i]
          /\ \A k \in 1 .. n : (log \o news)[len + k] = news[k]
      BY <1>7, <1>8, LogGrows
    <3> HIDE DEF news
    <3> QED
      BY <2>4, <2>5, <3>1 DEF LogKept
  <2>7. DOMAIN hashes = 1 .. n
    BY <1>3
  <2>8. ASSUME NEW h \in Hash, ~ \E k \in 1 .. n : hashes[k] = h
        PROVE  Untouched(ledger, ledger', h)
    <3>1. ledger'.docs[h] = ledger.docs[h]
      BY <1>1, <2>4, <2>7, <2>8
    <3>2. EventsOf(log \o news, h) = EventsOf(log, h)
      <4> HIDE DEF news, hashes
      <4>1. PICK L \in Seq(Event) : L = ledger.log
        BY <1>7
      <4>2. PICK N \in [1 .. n -> Event] : N = news
        BY <1>8
      <4>3. Announces(N, hashes, n)
        BY <1>9, <4>2
      <4>4. EventsOf(L \o N, h) = EventsOf(L, h)
        BY <2>8, <4>3, EventsGrow
      <4> QED
        BY <4>1, <4>2, <4>4
    <3> QED
      BY <2>4, <3>1, <3>2 DEF Untouched
  <2>9. ASSUME NEW k \in 1 .. n PROVE Issued(ledger, ledger', hashes[k], len + k)
    <3> DEFINE h == hashes[k]
    <3>1. (CHOOSE j \in DOMAIN batch : hashes[j] = h) = k
      <4>1. k \in DOMAIN batch /\ hashes[k] = h /\ \A j \in DOMAIN batch : hashes[j] = h => j = k
        BY <1>3, <2>3
      <4> HIDE DEF hashes, h
      <4> QED
        BY <4>1
    <3>2. OwnerOf(h) = batch[k].owner
      BY <3>1
    <3>3. h \in Hash /\ \E j \in DOMAIN hashes : hashes[j] = h
      BY <1>4, <2>7
    <3>4. docs[h] = NewRecord(a, batch[k].owner)
      <4> HIDE DEF OwnerOf, h, hashes
      <4> QED
        BY <3>2, <3>3
    <3>5. ledger'.docs[h] = NewRecord(a, batch[k].owner)
      BY <2>4, <3>4
    <3>6. news[k] = DocumentRegistered(a, batch[k].owner, h)
      BY <1>3
    <3>7. EventsOf(ledger'.log, h) = EventsOf(log, h) \cup {len + k}
      <4>1. h \in Hash /\ OnlyAt(hashes, n, h, k)
        BY <1>4, <2>3 DEF OnlyAt
      <4>2. EventsOf(log \o news, h) = EventsOf(log, h) \cup {len + k}
        <5> HIDE DEF h, hashes, news
        <5>1. PICK L \in Seq(Event) : L = ledger.log
          BY <1>7
        <5>2. PICK N \in [1 .. n -> Event] : N = news
          BY <1>8
        <5>3. PICK x \in Hash : x = h
          BY <4>1
        <5>4. Announces(N, hashes, n)
          BY <1>9, <5>2
        <5>5. OnlyAt(hashes, n, x, k)
          BY <4>1, <5>3
        <5>6. EventsOf(L \o N, x) = EventsOf(L, x) \cup {Len(L) + k}
          BY <5>4, <5>5, EventsGrowAt
        <5> QED
          BY <5>1, <5>2, <5>3, <5>6
      <4> QED
        BY <2>4, <4>2
    <3>8. NewRecord(a, batch[k].owner) \in DocumentRecord
      BY <1>4, EventTypes
    <3>9. ledger'.log[len + k] = news[k] /\ ledger.docs[h] = None
      BY <2>2, <2>6
    <3> HIDE DEF h, news, len, docs, frame
    <3>10. Issued(ledger, ledger', h, len + k)
      BY <3>5, <3>6, <3>7, <3>8, <3>9 DEF Issued, NewRecord
    <3> QED
      BY <3>10 DEF h
  <2> HIDE DEF hashes, len
  <2> QED
    BY <2>6, <2>8, <2>9, Zenon DEF LogStep
<1> HIDE DEF frame, errors
<1> QED
  BY <1>2, <1>10

LEMMA BatchRevokeLogStep ==
    ASSUME TypeOK, NEW a \in Address, NEW hashes \in Batches(Hash),
           batch_revoke_documents(a, hashes)
    PROVE  ledger' = ledger \/ LogStep(ledger, ledger')
<1> DEFINE m == check_rate_limit(ledger, a, a).ledger
           errors == [k \in DOMAIN hashes |->
                        LET e == RevokeError(ledger.docs[hashes[k]], a)
                        IN  IF e = "Ok" /\ Earlier(hashes, k)
                            THEN "AlreadyRevoked" ELSE e]
           docs == [h \in Hash |-> IF \E k \in DOMAIN hashes : hashes[k] = h
                                   THEN [m.docs[h] EXCEPT !.status = "Revoked"]
                                   ELSE m.docs[h]]
           news == [k \in DOMAIN hashes |-> DocumentRevoked(a, hashes[k])]
           frame == [m EXCEPT !.docs = docs, !.log = @ \o news]
           log == ledger.log
           len == Len(log)
<1>1. m \in Ledger /\ m.docs = ledger.docs /\ m.log = ledger.log
  BY CheckRateLimitType DEF TypeOK, SameButLimits
<1>2. \/ ledger' = ledger
      \/ FirstError(errors) = "Ok" /\ ledger' = frame
  BY DEF batch_revoke_documents, InvokeLimited, Invoke
<1>3. PICK n \in Nat : hashes \in [1 .. n -> Hash]
  BY BatchIsSeq
<1>4. errors \in [1 .. n -> ContractError \cup {"Ok"}]
  BY <1>3 DEF RevokeError, ContractError
<1>5. frame.docs = docs /\ frame.log = ledger.log \o news
  <2> HIDE DEF m, docs, news
  <2> QED
    BY <1>1 DEF Ledger
<1>6. ledger.log \in Seq(Event) /\ ledger.docs \in [Hash -> DocumentRecord \cup {None}]
  BY <1>1 DEF Ledger
<1>7. news \in [1 .. n -> Event]
  BY <1>3, EventTypes
<1>8. Announces(news, hashes, n)
  BY <1>3, <1>7 DEF DocumentRevoked, Announces
<1>9. ASSUME FirstError(errors) = "Ok", ledger' = frame
      PROVE  LogStep(ledger, ledger')
  <2>1. \A k \in 1 .. n : errors[k] = "Ok"
    BY <1>4, <1>9, FirstErrorIs
  <2>2. \A k \in 1 .. n : RevokeError(ledger.docs[hashes[k]], a) = "Ok" /\ ~ Earlier(hashes, k)
    BY <1>3, <2>1
  <2>3. \A j, k \in 1 .. n : hashes[j] = hashes[k] => j = k
    <3>1. \A k \in 1 .. n : \A j \in 1 .. k - 1 : hashes[j] # hashes[k]
      BY <2>2, Zenon DEF Earlier
    <3> QED
      BY <3>1
  <2>4. ledger'.docs = docs /\ ledger'.log = log \o news
    BY <1>5, <1>9
  <2>5. len \in Nat /\ DOMAIN log = 1 .. len
    BY <1>6
  <2>6. LogKept(ledger, ledger') /\ \A k \in 1 .. n : ledger'.log[len + k] = news[k]
    <3>1. /\ \A i \in 1 .. len : (log \o news)[i] = log[i]
          /\ \A k \in 1 .. n : (log \o news)[len + k] = news[k]
      BY <1>6, <1>7, LogGrows
    <3> HIDE DEF news
    <3> QED
      BY <2>4, <2>5, <3>1 DEF LogKept
  <2>7. DOMAIN hashes = 1 .. n
    BY <1>3
  <2>8. PICK L \in Seq(Event) : L = ledger.log
    BY <1>6
  <2>9. PICK N \in [1 .. n -> Event] : N = news
    BY <1>7
  <2>10. Announces(N, hashes, n)
    BY <1>8, <2>9
  <2>11. ASSUME NEW h \in Hash, ~ \E k \in 1 .. n : hashes[k] = h
         PROVE  Untouched(ledger, ledger', h)
    <3>1. ledger'.docs[h] = ledger.docs[h]
      BY <1>1, <2>4, <2>7, <2>11
    <3>2. EventsOf(L \o N, h) = EventsOf(L, h)
      BY <2>10, <2>11, EventsGrow
    <3> QED
      BY <2>4, <2>8, <2>9, <3>1, <3>2 DEF Untouched
  <2>12. ASSUME NEW k \in 1 .. n PROVE Withdrawn(ledger, ledger', hashes[k], len + k)
    <3>1. PICK h \in Hash : h = hashes[k]
      BY <1>3
    <3>2. \E j \in DOMAIN hashes : hashes[j] = h
      BY <2>7, <3>1
    <3>3. ledger'.docs[h] = [ledger.docs[h] EXCEPT !.status = "Revoked"]
      BY <1>1, <2>4, <3>2
    <3>4. RevokeError(ledger.docs[h], a) = "Ok"
      BY <2>2, <3>1
    <3>5. /\ ledger.docs[h] \in DocumentRecord /\ ledger.docs[h].status = "Active"
          /\ ledger.docs[h].issuer = a
      BY <1>6, <3>4 DEF RevokeError, DocumentRecord
    <3>6. ledger'.docs[h].issuer = a
      BY <3>3, <3>5 DEF DocumentRecord
    <3>7. OnlyAt(hashes, n, h, k)
      BY <2>3, <3>1 DEF OnlyAt
    <3>8. EventsOf(L \o N, h) = EventsOf(L, h) \cup {Len(L) + k}
      BY <2>10, <3>7, EventsGrowAt
    <3>9. EventsOf(ledger'.log, h) = EventsOf(ledger.log, h) \cup {len + k}
      BY <2>4, <2>8, <2>9, <3>8
    <3>10. ledger'.log[len + k] = DocumentRevoked(a, h)
      BY <1>3, <2>6, <3>1
    <3>11. len + k \in Nat /\ len + k > Len(ledger.log)
      BY <2>5
    <3>12. Withdrawn(ledger, ledger', h, len + k)
      BY <3>3, <3>5, <3>6, <3>9, <3>10, <3>11, Zenon DEF Withdrawn
    <3> QED
      BY <3>1, <3>12
  <2> HIDE DEF len
  <2> QED
    BY <2>6, <2>11, <2>12, Zenon DEF LogStep
<1> HIDE DEF frame, errors
<1> QED
  BY <1>2, <1>9

(* Governance calls publish events of their own, about no document. *)
LEMMA GovernanceLogStep ==
    ASSUME TypeOK, GovernanceCall
    PROVE  LogStep(ledger, ledger')
<1>1. /\ ledger \in Ledger
      /\ ledger.log \in Seq(Event) /\ CONTRACT_VERSION \in 0 .. CONTRACT_VERSION
      /\ Len(ledger.log) \in Nat /\ DOMAIN ledger.log = 1 .. Len(ledger.log)
  BY ContractAssumption DEF TypeOK, Ledger
<1>2. ledger'.docs = ledger.docs
  BY GovernanceKeepsDocuments
<1>3. \/ ledger'.log = ledger.log
      \/ \E t \in {"init", "upgrade"}, x \in Address, v \in 0 .. CONTRACT_VERSION :
           ledger'.log = Append(ledger.log, [type |-> t, admin |-> x, version |-> v])
  <2> USE DEF InvokeGovernance, Invoke
  <2> DEFINE P == \/ ledger'.log = ledger.log
                  \/ \E t \in {"init", "upgrade"}, x \in Address, v \in 0 .. CONTRACT_VERSION :
                       ledger'.log = Append(ledger.log, [type |-> t, admin |-> x, version |-> v])
  <2>1. ASSUME NEW x \in Address, initialize(x) PROVE P
    <3>1. \/ ledger'.log = ledger.log
          \/ ledger'.log = Append(ledger.log, [type |-> "init", admin |-> x,
                                               version |-> CONTRACT_VERSION])
      BY <1>1, <2>1 DEF initialize, Ledger
    <3> QED
      BY <1>1, <3>1
  <2>2. ASSUME NEW x \in Address, migrate(x) PROVE P
    BY <1>1, <2>2 DEF migrate, Ledger
  <2>3. ASSUME NEW x \in Address, NEW w, upgrade(x, w) PROVE P
    <3>1. \/ ledger'.log = ledger.log
          \/ ledger'.log = Append(ledger.log, [type |-> "upgrade", admin |-> x,
                                               version |-> ledger.version])
      BY <1>1, <2>3 DEF upgrade, Ledger
    <3>2. ledger.version \in 0 .. CONTRACT_VERSION
      BY <1>1 DEF Ledger
    <3> QED
      BY <3>1, <3>2
  <2>4. ASSUME NEW x, NEW f, NEW b, set_feature_flag(x, f, b) PROVE P
    BY <1>1, <2>4 DEF set_feature_flag, Ledger
  <2>5. ASSUME NEW x, NEW c, set_rate_limit_config(x, c) PROVE P
    BY <1>1, <2>5 DEF set_rate_limit_config, Ledger
  <2> HIDE DEF P
  <2>6. P
    BY <2>1, <2>2, <2>3, <2>4, <2>5 DEF GovernanceCall
  <2> QED
    BY <2>6 DEF P
<1>4. CASE ledger'.log = ledger.log
  BY <1>1, <1>2, <1>4 DEF LogStep, LogKept, Untouched
<1>5. ASSUME NEW t \in {"init", "upgrade"}, NEW x \in Address, NEW v \in 0 .. CONTRACT_VERSION,
             ledger'.log = Append(ledger.log, [type |-> t, admin |-> x, version |-> v])
      PROVE  LogStep(ledger, ledger')
  <2> DEFINE e == [type |-> t, admin |-> x, version |-> v]
             n == Len(ledger.log)
  <2>1. e \in Event /\ e.type \notin {"register", "revoke"}
    BY DEF Event
  <2> HIDE DEF e
  <2>2. /\ DOMAIN ledger'.log = 1 .. n + 1
        /\ \A i \in 1 .. n : ledger'.log[i] = ledger.log[i]
        /\ ledger'.log[n + 1] = e
    BY <1>1, <1>5, <2>1, LogAppends DEF e
  <2> HIDE DEF n
  <2>3. \A h \in Hash : EventsOf(ledger'.log, h) = EventsOf(ledger.log, h)
    BY <1>1, <2>1, <2>2 DEF EventsOf, n
  <2>4. LogKept(ledger, ledger')
    BY <1>1, <2>2 DEF LogKept, n
  <2> QED
    BY <1>2, <2>3, <2>4 DEF LogStep, Untouched
<1> QED
  BY <1>3, <1>4, <1>5

(* Storage and the published events never disagree: an indexer that replays *)
(* the log finds each document issued once, by and for whom storage says,   *)
(* and revoked once, later, exactly when storage says so - with batches     *)
(* that repeat a hash, rolled back calls and governance events in between.  *)
THEOREM LogIsFaithful == Spec => []LogMatchesDocuments
<1>1. Init => LogMatchesDocuments
  BY DEF Init, LogMatchesDocuments, EventsOf, get_document, document_exists, verify_document
<1>2. ASSUME ledger' = ledger, LogMatchesDocuments PROVE LogMatchesDocuments'
  BY <1>2 DEF LogMatchesDocuments, get_document, document_exists, verify_document
<1>3. TypeOK /\ LogMatchesDocuments /\ [Next]_vars => LogMatchesDocuments'
  <2> SUFFICES ASSUME TypeOK, LogMatchesDocuments, [Next]_vars PROVE LogMatchesDocuments'
    OBVIOUS
  <2>1. CASE DocumentCall
    <3>1. PICK a \in Address :
            \/ \E o \in Owner, h \in Hash : register_document(a, o, h)
            \/ \E h \in Hash : revoke_document(a, h)
            \/ \E b \in Batches(DocumentInfo) : batch_register_documents(a, b)
            \/ \E b \in Batches(Hash) : batch_revoke_documents(a, b)
      BY <2>1, ContractAssumption DEF DocumentCall
    <3>2. ledger' = ledger \/ LogStep(ledger, ledger')
      BY <3>1, RegisterLogStep, RevokeLogStep, BatchRegisterLogStep, BatchRevokeLogStep
    <3> QED
      BY <1>2, <3>2, LogStepMatches
  <2>2. CASE GovernanceCall
    BY <2>2, GovernanceLogStep, LogStepMatches
  <2>3. CASE CloseLedger \/ OpenWindow \/ UNCHANGED vars
    BY <1>2, <2>3 DEF CloseLedger, OpenWindow, vars
  <2> QED
    BY <2>1, <2>2, <2>3 DEF Next
<1> QED
  BY <1>1, <1>3, TypeCorrect, PTL DEF Spec

-----------------------------------------------------------------------------
(* The rate limit *)

LEMMA GreatestExists ==
    ASSUME NEW n \in Nat, NEW S \in SUBSET (0 .. n), S # {}
    PROVE  \E m \in S : \A j \in S : j <= m
<1> DEFINE T == {i \in 0 .. n : n - i \in S}
<1>1. T \in SUBSET Nat /\ T # {}
  <2>1. PICK x \in S : TRUE
    OBVIOUS
  <2>2. n - x \in 0 .. n /\ n - (n - x) = x
    OBVIOUS
  <2>3. n - x \in T
    BY <2>2
  <2>4. T \in SUBSET Nat
    OBVIOUS
  <2> HIDE DEF T
  <2> QED
    BY <2>3, <2>4, Zenon
<1>2. PICK k \in T : \A j \in T : k <= j
  BY <1>1, LeastExists
<1>3. ASSUME NEW j \in S PROVE j <= n - k
  <2>1. n - j \in 0 .. n /\ n - (n - j) = j
    OBVIOUS
  <2>2. n - j \in T
    BY <2>1
  <2> QED
    BY <1>2, <2>2
<1> QED
  BY <1>2, <1>3

(* MaxBurst and MaxRate are what their names say. *)
LEMMA MaxLimits ==
    ASSUME NEW scope \in RateLimitScope
    PROVE  /\ MaxBurst(scope) \in Nat /\ MaxRate(scope) \in Nat
           /\ \A c \in RateLimitConfigs : /\ Capacity(c, scope) <= MaxBurst(scope)
                                         /\ PerSecond(c, scope) <= MaxRate(scope)
<1> DEFINE B == {Capacity(c, scope) : c \in RateLimitConfigs}
           R == {PerSecond(c, scope) : c \in RateLimitConfigs}
<1>1. B \in SUBSET (0 .. U32 - 1) /\ R \in SUBSET (0 .. U32 - 1)
  BY ConfigType
<1>2. B # {} /\ R # {} /\ U32 - 1 \in Nat
  BY ContractAssumption
<1>3. /\ \E m \in B : \A j \in B : j <= m
      /\ \E m \in R : \A j \in R : j <= m
  <2> HIDE DEF B, R
  <2> QED
    BY <1>1, <1>2, GreatestExists
<1>4. MaxBurst(scope) \in B /\ \A c \in RateLimitConfigs : Capacity(c, scope) <= MaxBurst(scope)
  BY <1>3, Zenon DEF MaxBurst
<1>5. MaxRate(scope) \in R /\ \A c \in RateLimitConfigs : PerSecond(c, scope) <= MaxRate(scope)
  BY <1>3, Zenon DEF MaxRate
<1> HIDE DEF B, R
<1>6. MaxBurst(scope) \in 0 .. U32 - 1 /\ MaxRate(scope) \in 0 .. U32 - 1
  BY <1>1, <1>4, <1>5, Zenon
<1>7. MaxBurst(scope) \in Nat /\ MaxRate(scope) \in Nat
  BY <1>2, <1>6
<1> QED
  BY <1>4, <1>5, <1>7, Zenon

(* A passing check charges both of the caller's scopes one token and leaves *)
(* every other bucket alone.                                                *)
LEMMA CheckCharges ==
    ASSUME NEW l \in Ledger, now \in 0 .. MaxTime, NEW a \in Address,
           check_rate_limit(l, a, a).ok, NEW scope \in RateLimitScope
    PROVE  /\ scope[2] = a =>
                /\ Tokens(l, scope) # 0
                /\ check_rate_limit(l, a, a).ledger.bucket[scope]
                     = [tokens |-> Tokens(l, scope) - 1, last_refill |-> now]
           /\ scope[2] # a =>
                check_rate_limit(l, a, a).ledger.bucket[scope] = l.bucket[scope]
<1> DEFINE sA == <<"Address", a>>
           sI == <<"Issuer", a>>
           m1 == CheckScope(l, sA).ledger
           m == check_rate_limit(l, a, a).ledger
<1>1. sA \in RateLimitScope /\ sI \in RateLimitScope /\ sA # sI
      /\ (scope[2] = a => scope \in {sA, sI})
      /\ (scope[2] # a => scope # sA /\ scope # sI)
  BY DEF RateLimitScope
<1>2. ASSUME NEW k \in Ledger, NEW t \in RateLimitScope, CheckScope(k, t).ok
      PROVE  /\ Tokens(k, t) # 0
             /\ CheckScope(k, t).ledger.config = k.config
             /\ CheckScope(k, t).ledger.bucket =
                  [k.bucket EXCEPT ![t] = [tokens |-> Tokens(k, t) - 1, last_refill |-> now]]
  <2> DEFINE b == [tokens |-> Tokens(k, t) - 1, last_refill |-> now]
             f == [k EXCEPT !.bucket[t] = b, !.retry_after[t] = None]
  <2>1. Tokens(k, t) # 0 /\ CheckScope(k, t).ledger = f
    BY <1>2 DEF CheckScope
  <2> HIDE DEF b
  <2>2. f.config = k.config /\ f.bucket = [k.bucket EXCEPT ![t] = b]
    BY DEF Ledger
  <2> QED
    BY <2>1, <2>2 DEF b
<1>3. CheckScope(l, sA).ok /\ CheckScope(m1, sI).ok /\ m = CheckScope(m1, sI).ledger
  BY DEF check_rate_limit
<1>4. m1 \in Ledger
  BY <1>1, CheckScopeType
<1> HIDE DEF m1, m, sA, sI
<1>5. /\ Tokens(l, sA) # 0 /\ m1.config = l.config
      /\ m1.bucket = [l.bucket EXCEPT ![sA] = [tokens |-> Tokens(l, sA) - 1,
                                               last_refill |-> now]]
  BY <1>1, <1>2, <1>3 DEF m1
<1>6. /\ Tokens(m1, sI) # 0
      /\ m.bucket = [m1.bucket EXCEPT ![sI] = [tokens |-> Tokens(m1, sI) - 1,
                                               last_refill |-> now]]
  BY <1>1, <1>2, <1>3, <1>4
<1>7. l.bucket \in [RateLimitScope -> RateLimitBucketState \cup {None}]
      /\ m1.bucket \in [RateLimitScope -> RateLimitBucketState \cup {None}]
  BY <1>4 DEF Ledger
<1>8. Tokens(m1, sI) = Tokens(l, sI)
  <2>1. m1.bucket[sI] = l.bucket[sI]
    BY <1>1, <1>5, <1>7
  <2> QED
    BY <2>1, <1>5 DEF Tokens, StateOf
<1>9. CASE scope = sA
  BY <1>1, <1>5, <1>6, <1>7, <1>9 DEF m, sA
<1>10. CASE scope = sI
  BY <1>1, <1>6, <1>7, <1>8, <1>10 DEF m, sI
<1>11. CASE scope # sA /\ scope # sI
  BY <1>1, <1>5, <1>6, <1>7, <1>11 DEF m
<1> QED
  BY <1>9, <1>10, <1>11

(* The inductive strengthening of GrantsBounded: once the window has seen a *)
(* grant, the grants and the tokens left together stay within the burst     *)
(* plus the refill up to the bucket's own last_refill.                      *)
ScopeInv(scope) ==
    LET b == ledger.bucket[scope]
    IN  /\ b # None => b.last_refill <= now
        /\ window.granted[scope] > 0 =>
              /\ b # None
              /\ window.start <= b.last_refill
              /\ window.granted[scope] + b.tokens <=
                   MaxBurst(scope) + MaxRate(scope) * (b.last_refill - window.start)

LimitInv == /\ window.start <= now
            /\ \A scope \in RateLimitScope : ScopeInv(scope)

(* The arithmetic of one grant. *)
LEMMA GrantArithmetic ==
    ASSUME NEW B \in Nat, NEW R \in Nat, NEW rate \in Nat, rate <= R,
           NEW start \in Nat, NEW at \in Nat, NEW t \in Nat, start <= at, at <= t
    PROVE  /\ R * (at - start) + rate * (t - at) <= R * (t - start)
           /\ R * (t - start) \in Nat
<1>1. \A x, y \in Nat : R * x + R * y = R * (x + y)
  OBVIOUS
<1>2. \A y \in Nat : rate * y <= R * y
  OBVIOUS
<1>3. (at - start) + (t - at) = t - start /\ at - start \in Nat /\ t - at \in Nat
      /\ t - start \in Nat
  OBVIOUS
<1>4. R * (at - start) + R * (t - at) = R * (t - start)
  BY <1>1, <1>3
<1>5. rate * (t - at) <= R * (t - at)
  BY <1>2, <1>3
<1>6. /\ R * (at - start) \in Nat /\ R * (t - at) \in Nat
      /\ rate * (t - at) \in Nat /\ R * (t - start) \in Nat
  BY <1>3
<1> QED
  BY <1>4, <1>5, <1>6

LEMMA TokensBounds ==
    ASSUME TypeOK, NEW scope \in RateLimitScope
    PROVE  /\ Tokens(ledger, scope) <= Capacity(ledger.config, scope)
           /\ ledger.bucket[scope] # None /\ ledger.bucket[scope].last_refill <= now =>
                Tokens(ledger, scope) <= ledger.bucket[scope].tokens
                  + PerSecond(ledger.config, scope)
                    * (now - ledger.bucket[scope].last_refill)
<1> DEFINE s == StateOf(ledger, scope)
           elapsed == Monus(now, s.last_refill)
           rate == PerSecond(ledger.config, scope)
           cap == Capacity(ledger.config, scope)
<1>1. ledger.config \in RateLimitConfigs
      /\ ledger.bucket[scope] \in RateLimitBucketState \cup {None}
      /\ now \in Nat
  BY ContractAssumption DEF TypeOK, Ledger
<1>2. cap \in 0 .. U32 - 1 /\ rate \in 0 .. U32 - 1
  BY <1>1, ConfigType
<1>3. s.tokens \in 0 .. U32 - 1 /\ s.last_refill \in Nat
  BY <1>1, <1>2, ContractAssumption DEF StateOf, RateLimitBucketState
<1>4. elapsed \in Nat /\ rate \in Nat
  BY <1>1, <1>2, <1>3, ContractAssumption DEF Monus
<1>5. Refill(elapsed, rate) \in Nat /\ Refill(elapsed, rate) <= elapsed * rate
  BY <1>4, RefillNat
<1>6. elapsed * rate = rate * elapsed /\ elapsed * rate \in Nat
  BY <1>4
<1>7. Tokens(ledger, scope) =
        Least(Least(s.tokens + Refill(elapsed, rate), U32 - 1), cap)
  BY DEF Tokens
<1>8. ledger.bucket[scope] # None /\ ledger.bucket[scope].last_refill <= now =>
        s = ledger.bucket[scope] /\ elapsed = now - ledger.bucket[scope].last_refill
  BY <1>1, ContractAssumption DEF StateOf, Monus, RateLimitBucketState
<1> HIDE DEF s, elapsed, rate, cap
<1>9. /\ Tokens(ledger, scope) <= cap
      /\ Tokens(ledger, scope) <= s.tokens + rate * elapsed
  BY <1>2, <1>3, <1>5, <1>6, <1>7, ContractAssumption DEF Least
<1> QED
  BY <1>8, <1>9 DEF rate, cap

LEMMA ChargeKeepsScopeInv ==
    ASSUME TypeOK, LimitInv, NEW scope \in RateLimitScope,
           Tokens(ledger, scope) # 0,
           ledger'.bucket[scope] = [tokens |-> Tokens(ledger, scope) - 1, last_refill |-> now],
           now' = now, window'.start = window.start,
           window'.granted[scope] = window.granted[scope] + 1
    PROVE  ScopeInv(scope)'
<1> DEFINE T == Tokens(ledger, scope)
           b == ledger.bucket[scope]
           B == MaxBurst(scope)
           R == MaxRate(scope)
           rate == PerSecond(ledger.config, scope)
           g == window.granted[scope]
<1>1. /\ T \in Nat /\ now \in Nat /\ window.start \in Nat /\ g \in Nat
      /\ b \in RateLimitBucketState \cup {None} /\ ledger.config \in RateLimitConfigs
  <2>1. ledger \in Ledger /\ now \in 0 .. MaxTime
    BY DEF TypeOK
  <2>2. T \in 0 .. U32 - 1
    BY <2>1, TokensType
  <2>3. T \in Nat
    <3> HIDE DEF T
    <3> QED
      BY <2>2, ContractAssumption
  <2>4. now \in Nat /\ window.start \in Nat /\ g \in Nat
    BY ContractAssumption DEF TypeOK
  <2>5. b \in RateLimitBucketState \cup {None} /\ ledger.config \in RateLimitConfigs
    BY <2>1 DEF Ledger
  <2> QED
    BY <2>3, <2>4, <2>5
<1>2. /\ B \in Nat /\ R \in Nat
      /\ Capacity(ledger.config, scope) <= B /\ rate <= R
      /\ Capacity(ledger.config, scope) \in Nat /\ rate \in Nat
  BY <1>1, MaxLimits, ConfigType, ContractAssumption
<1>3. window.start <= now
  BY DEF LimitInv
<1>4. T <= B
  BY <1>1, <1>2, TokensBounds
<1>5. g + T <= B + R * (now - window.start)
  <2>1. CASE g = 0
    <3>1. R * (now - window.start) \in Nat
      BY <1>1, <1>2, <1>3
    <3> HIDE DEF T, B, R, g
    <3> QED
      BY <1>1, <1>2, <1>4, <2>1, <3>1
  <2>2. CASE g > 0
    <3>1. /\ b # None /\ window.start <= b.last_refill /\ b.last_refill <= now
          /\ g + b.tokens <= B + R * (b.last_refill - window.start)
      BY <2>2 DEF LimitInv, ScopeInv
    <3>2. b.last_refill \in Nat /\ b.tokens \in Nat
      BY <1>1, <3>1, ContractAssumption DEF RateLimitBucketState
    <3>3. T <= b.tokens + rate * (now - b.last_refill)
      BY <3>1, TokensBounds
    <3>4. R * (b.last_refill - window.start) + rate * (now - b.last_refill)
             <= R * (now - window.start)
          /\ R * (now - window.start) \in Nat
      <4> HIDE DEF b, B, R, rate
      <4> QED
        BY <1>1, <1>2, <3>1, <3>2, GrantArithmetic
    <3>5. R * (b.last_refill - window.start) \in Int /\ rate * (now - b.last_refill) \in Int
      <4> HIDE DEF b, R, rate
      <4> QED
        BY <1>1, <1>2, <3>2
    <3> HIDE DEF T, B, R, g, b, rate
    <3> QED
      BY <1>1, <1>2, <3>1, <3>2, <3>3, <3>4, <3>5
  <2> QED
    BY <1>1, <2>1, <2>2
<1>6. ledger'.bucket[scope] # None
  <2>1. [tokens |-> T - 1, last_refill |-> now] \in RateLimitBucketState
    BY TokensType, ContractAssumption DEF TypeOK, RateLimitBucketState
  <2> QED
    BY <2>1, ContractAssumption
<1>7. ledger'.bucket[scope].last_refill = now /\ ledger'.bucket[scope].tokens = T - 1
  OBVIOUS
<1>8. (g + 1) + (T - 1) <= B + R * (now - window.start)
  <2>1. R * (now - window.start) \in Int
    BY <1>1, <1>2
  <2> HIDE DEF T, B, R, g
  <2> QED
    BY <1>1, <1>2, <1>5, <2>1
<1>9. MaxBurst(scope)' = B /\ MaxRate(scope)' = R
  BY DEF MaxBurst, MaxRate, Capacity, PerSecond
<1> HIDE DEF T, B, R, g
<1> QED
  BY <1>1, <1>3, <1>6, <1>7, <1>8, <1>9 DEF ScopeInv, g, B, R

(* A document call charges its two scopes and counts both, or does nothing. *)
LEMMA DocumentCallLimits ==
    ASSUME TypeOK, DocumentCall
    PROVE  /\ now' = now
           /\ \/ ledger' = ledger /\ window' = window
              \/ \E a \in Address :
                   /\ check_rate_limit(ledger, a, a).ok
                   /\ ledger'.bucket = check_rate_limit(ledger, a, a).ledger.bucket
                   /\ window' = [window EXCEPT !.granted =
                         [s \in RateLimitScope |->
                            IF s[2] = a THEN @[s] + 1 ELSE @[s]]]
<1> PICK a \in Address :
        \/ \E o \in Owner, h \in Hash : register_document(a, o, h)
        \/ \E h \in Hash : revoke_document(a, h)
        \/ \E b \in Batches(DocumentInfo) : batch_register_documents(a, b)
        \/ \E b \in Batches(Hash) : batch_revoke_documents(a, b)
  BY ContractAssumption DEF DocumentCall
<1> DEFINE rl == check_rate_limit(ledger, a, a)
           m == rl.ledger
           counted == [window EXCEPT !.granted =
                         [s \in RateLimitScope |->
                            IF s[2] = a THEN @[s] + 1 ELSE @[s]]]
           Effect(d, g) == /\ now' = now
                           /\ \/ ledger' = ledger /\ window' = window
                              \/ /\ rl.ok /\ window' = counted
                                 /\ ledger' = [m EXCEPT !.docs = d, !.log = g]
<1>1. \E d, g : Effect(d, g)
  <2> USE DEF InvokeLimited, Invoke
  <2>1. ASSUME NEW o, NEW h, register_document(a, o, h)
        PROVE  Effect([m.docs EXCEPT ![h] = NewRecord(a, o)],
                      Append(m.log, DocumentRegistered(a, o, h)))
    BY <2>1 DEF register_document
  <2>2. ASSUME NEW h, revoke_document(a, h)
        PROVE  Effect([m.docs EXCEPT ![h].status = "Revoked"],
                      Append(m.log, DocumentRevoked(a, h)))
    BY <2>2 DEF revoke_document
  <2>3. ASSUME NEW b, batch_register_documents(a, b)
        PROVE  \E d, g : Effect(d, g)
    BY <2>3, Zenon DEF batch_register_documents
  <2>4. ASSUME NEW b, batch_revoke_documents(a, b)
        PROVE  \E d, g : Effect(d, g)
    BY <2>4, Zenon DEF batch_revoke_documents
  <2> HIDE DEF Effect
  <2> QED
    BY <2>1, <2>2, <2>3, <2>4, Zenon
<1>2. m \in Ledger
  BY CheckRateLimitType DEF TypeOK
<1>3. PICK d, g : Effect(d, g)
  BY <1>1
<1>4. [m EXCEPT !.docs = d, !.log = g].bucket = m.bucket
  <2> HIDE DEF m
  <2> QED
    BY <1>2 DEF Ledger
<1> QED
  BY <1>3, <1>4, Zenon

LEMMA GovernanceLimits ==
    ASSUME TypeOK, GovernanceCall
    PROVE  ledger'.bucket = ledger.bucket /\ now' = now /\ window' = window
<1> USE DEF InvokeGovernance, Invoke
<1>1. ledger \in Ledger
  BY DEF TypeOK
<1> DEFINE P == ledger'.bucket = ledger.bucket /\ now' = now /\ window' = window
<1>2. ASSUME NEW a, initialize(a) PROVE P
  BY <1>1, <1>2 DEF initialize, Ledger
<1>3. ASSUME NEW a, migrate(a) PROVE P
  BY <1>1, <1>3 DEF migrate, Ledger
<1>4. ASSUME NEW a, NEW w, upgrade(a, w) PROVE P
  BY <1>1, <1>4 DEF upgrade, Ledger
<1>5. ASSUME NEW a, NEW f, NEW x, set_feature_flag(a, f, x) PROVE P
  BY <1>1, <1>5 DEF set_feature_flag, Ledger
<1>6. ASSUME NEW a, NEW c, set_rate_limit_config(a, c) PROVE P
  BY <1>1, <1>6 DEF set_rate_limit_config, Ledger
<1> QED
  BY <1>2, <1>3, <1>4, <1>5, <1>6 DEF GovernanceCall

LEMMA NextLimitInv == TypeOK /\ LimitInv /\ [Next]_vars => LimitInv'
<1> SUFFICES ASSUME TypeOK, LimitInv, [Next]_vars PROVE LimitInv'
  OBVIOUS
<1>1. /\ now \in Nat /\ window.start \in Nat
      /\ \A scope \in RateLimitScope :
            /\ window.granted[scope] \in Nat
            /\ ledger.bucket[scope] \in RateLimitBucketState \cup {None}
            /\ ledger.bucket[scope] # None => ledger.bucket[scope].last_refill \in Nat
  BY ContractAssumption DEF TypeOK, Ledger, RateLimitBucketState
<1>2. ASSUME ledger'.bucket = ledger.bucket, now' = now, window' = window
      PROVE  LimitInv'
  BY <1>2 DEF LimitInv, ScopeInv
<1>3. CASE DocumentCall
  <2>1. CASE ledger' = ledger /\ window' = window
    BY <1>2, <1>3, <2>1, DocumentCallLimits
  <2>2. CASE ~ (ledger' = ledger /\ window' = window)
    <3>1. PICK a \in Address :
            /\ check_rate_limit(ledger, a, a).ok
            /\ ledger'.bucket = check_rate_limit(ledger, a, a).ledger.bucket
            /\ window' = [window EXCEPT !.granted =
                   [s \in RateLimitScope |-> IF s[2] = a THEN @[s] + 1 ELSE @[s]]]
      BY <1>3, <2>2, DocumentCallLimits
    <3>2. now' = now
      BY <1>3, DocumentCallLimits
    <3>3. /\ window'.start = window.start
          /\ window'.granted = [s \in RateLimitScope |->
               IF s[2] = a THEN window.granted[s] + 1 ELSE window.granted[s]]
      BY <3>1 DEF TypeOK
    <3>4. ASSUME NEW scope \in RateLimitScope PROVE ScopeInv(scope)'
      <4>1. CASE scope[2] = a
        <5>1. /\ Tokens(ledger, scope) # 0
              /\ ledger'.bucket[scope] = [tokens |-> Tokens(ledger, scope) - 1,
                                          last_refill |-> now]
          BY <3>1, <4>1, CheckCharges DEF TypeOK
        <5>2. window'.granted[scope] = window.granted[scope] + 1
          BY <3>3, <4>1
        <5> QED
          BY <3>2, <3>3, <5>1, <5>2, ChargeKeepsScopeInv
      <4>2. CASE scope[2] # a
        <5>1. ledger'.bucket[scope] = ledger.bucket[scope]
          <6>1. ledger \in Ledger /\ now \in 0 .. MaxTime
            BY DEF TypeOK
          <6>2. /\ check_rate_limit(ledger, a, a).ok
                /\ ledger'.bucket = check_rate_limit(ledger, a, a).ledger.bucket
            BY <3>1
          <6>3. check_rate_limit(ledger, a, a).ledger.bucket[scope] = ledger.bucket[scope]
            BY <4>2, <6>1, <6>2, CheckCharges
          <6> QED
            BY <6>2, <6>3
        <5>2. window'.granted[scope] = window.granted[scope]
          BY <3>3, <4>2
        <5> QED
          BY <3>2, <3>3, <5>1, <5>2 DEF LimitInv, ScopeInv
      <4> QED
        BY <4>1, <4>2
    <3> QED
      BY <3>2, <3>3, <3>4 DEF LimitInv
  <2> QED
    BY <2>1, <2>2
<1>4. CASE GovernanceCall
  BY <1>2, <1>4, GovernanceLimits
<1>5. CASE CloseLedger
  <2>1. now' = now + 1 /\ ledger' = ledger /\ window' = window
    BY <1>5 DEF CloseLedger
  <2> QED
    BY <1>1, <2>1 DEF LimitInv, ScopeInv
<1>6. CASE OpenWindow
  <2>1. /\ now' = now /\ ledger' = ledger /\ window'.start = now
        /\ \A s \in RateLimitScope : window'.granted[s] = 0
    BY <1>6 DEF OpenWindow
  <2> QED
    BY <1>1, <2>1 DEF LimitInv, ScopeInv
<1>7. CASE UNCHANGED vars
  BY <1>2, <1>7 DEF vars
<1> QED
  BY <1>3, <1>4, <1>5, <1>6, <1>7 DEF Next

(* In every window of time, whatever the configurations set meanwhile, a    *)
(* caller is granted at most one burst plus what the highest rate refills:  *)
(* neither new buckets, nor rolled back calls, nor the u32 cast of the      *)
(* refill in check_rate_limit ever hands out a token twice.                 *)
THEOREM RateLimitHolds == Spec => []GrantsBounded
<1>1. Init => LimitInv
  BY ContractAssumption DEF Init, LimitInv, ScopeInv
<1>2. TypeOK /\ LimitInv /\ [Next]_vars => LimitInv'
  BY NextLimitInv
<1>3. TypeOK /\ LimitInv => GrantsBounded
  <2> SUFFICES ASSUME TypeOK, LimitInv, NEW scope \in RateLimitScope
               PROVE  window.granted[scope] <=
                        MaxBurst(scope) + MaxRate(scope) * (now - window.start)
    BY DEF GrantsBounded
  <2> DEFINE B == MaxBurst(scope)
             R == MaxRate(scope)
             g == window.granted[scope]
             b == ledger.bucket[scope]
  <2>1. /\ now \in Nat /\ window.start \in Nat /\ g \in Nat
        /\ b # None => b.tokens \in Nat /\ b.last_refill \in Nat
    BY ContractAssumption DEF TypeOK, Ledger, RateLimitBucketState
  <2>2. B \in Nat /\ R \in Nat /\ window.start <= now
    BY MaxLimits DEF LimitInv
  <2>3. CASE g = 0
    <3> HIDE DEF B, R
    <3>1. R * (now - window.start) \in Nat
      BY <2>1, <2>2
    <3> HIDE DEF g
    <3> QED
      BY <2>2, <2>3, <3>1 DEF B, R, g
  <2>4. CASE g > 0
    <3>1. /\ b # None /\ window.start <= b.last_refill /\ b.last_refill <= now
          /\ g + b.tokens <= B + R * (b.last_refill - window.start)
      BY <2>4 DEF LimitInv, ScopeInv
    <3> HIDE DEF B, R, g, b
    <3>2. /\ R * (b.last_refill - window.start) + R * (now - b.last_refill)
               <= R * (now - window.start)
          /\ R * (now - window.start) \in Nat
      BY <2>1, <2>2, <3>1, GrantArithmetic
    <3>3. R * (b.last_refill - window.start) \in Nat /\ R * (now - b.last_refill) \in Nat
      BY <2>1, <2>2, <3>1
    <3>4. g <= B + R * (now - window.start)
      BY <2>1, <2>2, <3>1, <3>2, <3>3
    <3> QED
      BY <3>4 DEF B, R, g
  <2> QED
    BY <2>1, <2>3, <2>4
<1> QED
  BY <1>1, <1>2, <1>3, TypeCorrect, PTL DEF Spec

(* A refill that fits a u32 is what the elapsed time earned, all of it. *)
LEMMA RefillExact ==
    ASSUME NEW elapsed \in Nat, NEW rate \in Nat, elapsed * rate < U32
    PROVE  Refill(elapsed, rate) = elapsed * rate
<1> DEFINE p == elapsed * rate
<1>1. p \in Nat /\ p < U32
  OBVIOUS
<1>2. U64 \in Nat /\ U32 <= U64
  <2>1. \A x, y \in Nat \ {0} : x <= x * y
    OBVIOUS
  <2> QED
    BY <2>1, ContractAssumption DEF U64
<1> HIDE DEF p
<1>3. Least(p, U64 - 1) = p
  BY <1>1, <1>2, ContractAssumption DEF Least
<1>4. \A x \in Nat, w \in Nat \ {0} : x < w => x % w = x
  OBVIOUS
<1>5. p % U32 = p
  BY <1>1, <1>4, ContractAssumption
<1> QED
  BY <1>3, <1>5 DEF p, Refill

(* A bucket that waited a second under a positive rate has a token: neither *)
(* a change of the configuration nor a rolled back call leaves a bucket     *)
(* from which check_rate_limit cannot recover.                              *)
THEOREM BucketRefills == Spec => []RefilledAfterASecond
<1>1. TypeOK => RefilledAfterASecond
  <2> SUFFICES ASSUME TypeOK, NEW scope \in RateLimitScope,
                      ledger.bucket[scope] # None, now > ledger.bucket[scope].last_refill,
                      Capacity(ledger.config, scope) > 0, PerSecond(ledger.config, scope) > 0,
                      Monus(now, ledger.bucket[scope].last_refill)
                         * PerSecond(ledger.config, scope) < U32
               PROVE  Tokens(ledger, scope) > 0
    BY DEF RefilledAfterASecond
  <2> DEFINE s == ledger.bucket[scope]
             elapsed == Monus(now, s.last_refill)
             rate == PerSecond(ledger.config, scope)
             cap == Capacity(ledger.config, scope)
  <2>1. /\ ledger.config \in RateLimitConfigs /\ s \in RateLimitBucketState
        /\ now \in Nat
    BY ContractAssumption DEF TypeOK, Ledger
  <2>2. cap \in 0 .. U32 - 1 /\ rate \in 0 .. U32 - 1
    BY <2>1, ConfigType
  <2>3. s.tokens \in Nat /\ s.last_refill \in Nat
    BY <2>1, ContractAssumption DEF RateLimitBucketState
  <2>4. elapsed \in Nat /\ elapsed >= 1
    BY <2>1, <2>3 DEF Monus
  <2>5. Tokens(ledger, scope) = Least(Least(s.tokens + Refill(elapsed, rate), U32 - 1), cap)
    BY DEF Tokens, StateOf
  <2>6. cap > 0 /\ rate > 0 /\ elapsed * rate < U32
    OBVIOUS
  <2> HIDE DEF s, elapsed, rate, cap
  <2>7. rate \in Nat /\ rate >= 1
    BY <2>2, <2>6, ContractAssumption
  <2>8. elapsed * rate >= 1 /\ elapsed * rate \in Nat
    <3>1. \A x, y \in Nat : x >= 1 /\ y >= 1 => x * y >= 1 /\ x * y \in Nat
      OBVIOUS
    <3> QED
      BY <2>4, <2>7, <3>1
  <2>9. Refill(elapsed, rate) \in Nat /\ Refill(elapsed, rate) >= 1
    BY <2>4, <2>6, <2>7, <2>8, RefillExact
  <2> QED
    BY <2>2, <2>3, <2>5, <2>6, <2>9, ContractAssumption DEF Least
<1> QED
  BY <1>1, TypeCorrect, PTL
=============================================================================
