------------------------ MODULE ProofStellContract ------------------------
(***************************************************************************)
(* The Soroban contract of src/lib.rs: the document registry, the          *)
(* governance calls and the contract-level rate limit.                     *)
(*                                                                         *)
(* `ledger' is everything the contract keeps in persistent storage, the    *)
(* installed code and the published events.  A call is a function from the *)
(* ledger to a result and the ledger its writes would leave; the host      *)
(* (Invoke) keeps those writes only when the call returns Ok, because      *)
(* Soroban rolls the whole frame back, events included, on an error.       *)
(* `last' is the call that was served last.  `window' is a history         *)
(* variable: the calls granted to each rate-limit scope since an arbitrary *)
(* moment window.start.                                                    *)
(***************************************************************************)
EXTENDS Integers, Sequences

CONSTANTS
    Address, Hash, Flag, Wasm,
    Issuer,             \* the addresses that make document calls
    Owner,              \* the addresses documents are registered for
    RateLimitConfigs,   \* the configurations an admin may set
    DefaultConfig,      \* RateLimitConfig::default()
    CONTRACT_VERSION, MAX_BATCH_SIZE,
    U32,                \* 2^32 in the code: u32 values are 0 .. U32 - 1
    MaxTime,            \* bound: the ledger timestamp stops here
    MaxEvents,          \* bound: `upgrade' is not called on a longer log
    WindowStarts,       \* when the observer may start a window
    None

U64 == U32 * U32

RateLimitConfig ==
    [per_address_per_second : 0 .. U32 - 1, per_address_burst : 0 .. U32 - 1,
     per_issuer_per_second  : 0 .. U32 - 1, per_issuer_burst  : 0 .. U32 - 1]

RateLimitScope == {"Address", "Issuer"} \X Address

RateLimitBucketState == [tokens : 0 .. U32 - 1, last_refill : 0 .. MaxTime]

DocumentRecord == [issuer : Address, owner : Address, timestamp : 0 .. MaxTime,
                   status : {"Active", "Revoked"}]

DocumentInfo == [owner : Owner, document_hash : Hash]

ContractError ==
    {"DocumentNotFound", "AlreadyRegistered", "OnlyIssuerCanRevoke",
     "AlreadyRevoked", "BatchTooLarge", "BatchEmpty", "AlreadyInitialized",
     "NotInitialized", "Unauthorized", "MigrationNotNeeded",
     "RateLimitExceeded"}

Operation ==
    {"deploy", "register_document", "revoke_document",
     "batch_register_documents", "batch_revoke_documents", "initialize",
     "migrate", "upgrade", "set_feature_flag", "set_rate_limit_config"}

Event ==
    [type : {"register"}, issuer : Address, owner : Address, hash : Hash]
    \cup [type : {"revoke"}, issuer : Address, hash : Hash]
    \cup [type : {"init", "upgrade"}, admin : Address,
          version : 0 .. CONTRACT_VERSION]

ASSUME ContractAssumption ==
    /\ U32 \in Nat \ {0} /\ MaxTime \in Nat /\ MaxEvents \in Nat
    /\ MAX_BATCH_SIZE \in Nat /\ CONTRACT_VERSION \in Nat \ {0}
    /\ Owner \subseteq Address /\ Issuer \subseteq Address
    /\ RateLimitConfigs \subseteq RateLimitConfig
    /\ DefaultConfig \in RateLimitConfigs
    /\ None \notin Address /\ None \notin DocumentRecord
    /\ None \notin RateLimitBucketState /\ None \notin Nat
    /\ None \notin Wasm

VARIABLES ledger, now, last, window

vars == <<ledger, now, last, window>>

Ledger ==
    [docs        : [Hash -> DocumentRecord \cup {None}],
     bucket      : [RateLimitScope -> RateLimitBucketState \cup {None}],
     retry_after : [RateLimitScope -> Nat \cup {None}],
     admin       : Address \cup {None},
     version     : 0 .. CONTRACT_VERSION,
     flags       : [Flag -> BOOLEAN],
     config      : RateLimitConfigs,
     wasm        : Wasm \cup {None},
     log         : Seq(Event)]

TypeOK ==
    /\ ledger \in Ledger
    /\ now \in 0 .. MaxTime
    /\ last \in [op : Operation, by : Address \cup {None},
                 res : ContractError \cup {"Ok"}]
    /\ window \in [start : 0 .. MaxTime, granted : [RateLimitScope -> Nat]]

Init ==
    /\ ledger = [docs        |-> [h \in Hash |-> None],
                 bucket      |-> [s \in RateLimitScope |-> None],
                 retry_after |-> [s \in RateLimitScope |-> None],
                 admin       |-> None,
                 version     |-> 0,
                 flags       |-> [f \in Flag |-> FALSE],
                 config      |-> DefaultConfig,
                 wasm        |-> None,
                 log         |-> <<>>]
    /\ now = 0
    /\ last = [op |-> "deploy", by |-> None, res |-> "Ok"]
    /\ window = [start |-> 0, granted |-> [s \in RateLimitScope |-> 0]]

-----------------------------------------------------------------------------
(* check_rate_limit *)

Least(a, b) == IF a <= b THEN a ELSE b
Monus(a, b) == IF a >= b THEN a - b ELSE 0

Capacity(config, scope) ==
    IF scope[1] = "Address" THEN config.per_address_burst
                            ELSE config.per_issuer_burst

PerSecond(config, scope) ==
    IF scope[1] = "Address" THEN config.per_address_per_second
                            ELSE config.per_issuer_per_second

(* A scope that was never charged starts with a full bucket. *)
StateOf(l, scope) ==
    IF l.bucket[scope] = None
    THEN [tokens |-> Capacity(l.config, scope), last_refill |-> now]
    ELSE l.bucket[scope]

(* elapsed.saturating_mul(per_second) `as u32': the cast drops the high half. *)
RefillRoundedUp(elapsed, rate) == (elapsed + 1) * rate
RefillLate(elapsed, rate) == Monus(elapsed, 1) * rate
Refill(elapsed, rate) == Least(elapsed * rate, U64 - 1) % U32

Tokens(l, scope) ==
    LET s == StateOf(l, scope)
        refill == Refill(Monus(now, s.last_refill), PerSecond(l.config, scope))
    IN  Least(Least(s.tokens + refill, U32 - 1), Capacity(l.config, scope))

RetryAfter(rate) ==
    IF rate > 0 /\ 1 \div rate >= 1 THEN 1 \div rate ELSE 1

CheckScopeUnguarded(l, scope) ==
    [ok |-> TRUE,
     ledger |-> [l EXCEPT !.bucket[scope] = [tokens |-> Tokens(l, scope) - 1,
                                             last_refill |-> now],
                          !.retry_after[scope] = None]]

(* One iteration of the loop over scopes: what it returns and writes. *)
CheckScope(l, scope) ==
    LET tokens == Tokens(l, scope)
        rate == PerSecond(l.config, scope)
    IN  IF tokens = 0
        THEN [ok |-> FALSE,
              ledger |-> [l EXCEPT !.retry_after[scope] = RetryAfter(rate)]]
        ELSE [ok |-> TRUE,
              ledger |-> [l EXCEPT !.bucket[scope] = [tokens |-> tokens - 1,
                                                      last_refill |-> now],
                                   !.retry_after[scope] = None]]

check_rate_limit(l, caller, issuer) ==
    LET first == CheckScope(l, <<"Address", caller>>)
    IN  IF first.ok THEN CheckScope(first.ledger, <<"Issuer", issuer>>)
                    ELSE first

-----------------------------------------------------------------------------
(* The host. *)

Invoke(op, by, res, frame) ==
    /\ ledger' = IF res = "Ok" THEN frame ELSE ledger
    /\ last' = [op |-> op, by |-> by, res |-> res]
    /\ now' = now

(* A document call of an issuer: its grant is counted in the open window. *)
InvokeLimited(op, issuer, res, frame) ==
    /\ Invoke(op, issuer, res, frame)
    /\ window' = IF res = "Ok"
                 THEN [window EXCEPT !.granted =
                         [s \in RateLimitScope |->
                            IF s[2] = issuer THEN @[s] + 1 ELSE @[s]]]
                 ELSE window

-----------------------------------------------------------------------------
(* Document calls *)

NewRecord(issuer, owner) ==
    [issuer |-> issuer, owner |-> owner, timestamp |-> now, status |-> "Active"]

DocumentRegistered(issuer, owner, hash) ==
    [type |-> "register", issuer |-> issuer, owner |-> owner, hash |-> hash]

DocumentRevoked(issuer, hash) ==
    [type |-> "revoke", issuer |-> issuer, hash |-> hash]

(* Why `issuer' may not revoke what is stored under a hash, or "Ok". *)
RevokeErrorAnyIssuer(doc, issuer) ==
    IF doc = None THEN "DocumentNotFound"
    ELSE IF doc.status = "Revoked" THEN "AlreadyRevoked" ELSE "Ok"
RevokeError(doc, issuer) ==
    IF doc = None THEN "DocumentNotFound"
    ELSE IF doc.issuer # issuer THEN "OnlyIssuerCanRevoke"
    ELSE IF doc.status = "Revoked" THEN "AlreadyRevoked"
    ELSE "Ok"

RegisterError(doc) == IF doc # None THEN "AlreadyRegistered" ELSE "Ok"

register_document(issuer, owner, hash) ==
    LET rl == check_rate_limit(ledger, issuer, issuer)
        res == IF rl.ok THEN RegisterError(ledger.docs[hash])
                        ELSE "RateLimitExceeded"
    IN  InvokeLimited("register_document", issuer, res,
            [rl.ledger EXCEPT
               !.docs[hash] = NewRecord(issuer, owner),
               !.log = Append(@, DocumentRegistered(issuer, owner, hash))])

revoke_document(issuer, hash) ==
    LET rl == check_rate_limit(ledger, issuer, issuer)
        res == IF rl.ok THEN RevokeError(ledger.docs[hash], issuer)
                        ELSE "RateLimitExceeded"
    IN  InvokeLimited("revoke_document", issuer, res,
            [rl.ledger EXCEPT
               !.docs[hash].status = "Revoked",
               !.log = Append(@, DocumentRevoked(issuer, hash))])

Batches(Item) == UNION {[1 .. n -> Item] : n \in 0 .. MAX_BATCH_SIZE + 1}

BatchSizeError(batch) ==
    IF Len(batch) = 0 THEN "BatchEmpty"
    ELSE IF Len(batch) > MAX_BATCH_SIZE THEN "BatchTooLarge"
    ELSE "Ok"

(* The loop stops at the first item that fails; errors[k] is what item k    *)
(* returns when every earlier item succeeded.                               *)
FirstError(errors) ==
    LET bad == {k \in DOMAIN errors : errors[k] # "Ok"}
    IN  IF bad = {} THEN "Ok"
        ELSE errors[CHOOSE k \in bad : \A j \in bad : k <= j]

(* An item sees the writes of the earlier items of its batch. *)
EarlierUnseen(hashes, k) == FALSE
Earlier(hashes, k) == \E j \in 1 .. k - 1 : hashes[j] = hashes[k]

batch_register_documents(issuer, documents) ==
    LET rl == check_rate_limit(ledger, issuer, issuer)
        hashes == [k \in DOMAIN documents |-> documents[k].document_hash]
        errors == [k \in DOMAIN documents |->
                     IF Earlier(hashes, k) THEN "AlreadyRegistered"
                     ELSE RegisterError(ledger.docs[hashes[k]])]
        res == IF ~rl.ok THEN "RateLimitExceeded"
               ELSE IF BatchSizeError(documents) # "Ok"
               THEN BatchSizeError(documents)
               ELSE FirstError(errors)
        OwnerOf(h) == documents[CHOOSE k \in DOMAIN documents : hashes[k] = h].owner
    IN  InvokeLimited("batch_register_documents", issuer, res,
            [rl.ledger EXCEPT
               !.docs = [h \in Hash |->
                           IF \E k \in DOMAIN hashes : hashes[k] = h
                           THEN NewRecord(issuer, OwnerOf(h)) ELSE @[h]],
               !.log = @ \o [k \in DOMAIN documents |->
                               DocumentRegistered(issuer, documents[k].owner,
                                                  hashes[k])]])

batch_revoke_documents(issuer, hashes) ==
    LET rl == check_rate_limit(ledger, issuer, issuer)
        errors == [k \in DOMAIN hashes |->
                     LET e == RevokeError(ledger.docs[hashes[k]], issuer)
                     IN  IF e = "Ok" /\ Earlier(hashes, k)
                         THEN "AlreadyRevoked" ELSE e]
        res == IF ~rl.ok THEN "RateLimitExceeded"
               ELSE IF BatchSizeError(hashes) # "Ok" THEN BatchSizeError(hashes)
               ELSE FirstError(errors)
    IN  InvokeLimited("batch_revoke_documents", issuer, res,
            [rl.ledger EXCEPT
               !.docs = [h \in Hash |->
                           IF \E k \in DOMAIN hashes : hashes[k] = h
                           THEN [@[h] EXCEPT !.status = "Revoked"] ELSE @[h]],
               !.log = @ \o [k \in DOMAIN hashes |->
                               DocumentRevoked(issuer, hashes[k])]])

-----------------------------------------------------------------------------
(* Governance calls: no rate limit, the window is left alone. *)

InvokeGovernance(op, admin, res, frame) ==
    /\ Invoke(op, admin, res, frame)
    /\ window' = window

InitializeErrorByAdmin(l, admin) == IF l.admin = admin THEN "AlreadyInitialized" ELSE "Ok"
InitializeError(l, admin) == IF l.version # 0 THEN "AlreadyInitialized" ELSE "Ok"

initialize(admin) ==
    InvokeGovernance("initialize", admin, InitializeError(ledger, admin),
        [ledger EXCEPT
           !.admin = admin,
           !.version = CONTRACT_VERSION,
           !.log = Append(@, [type |-> "init", admin |-> admin,
                              version |-> CONTRACT_VERSION])])

MigrateError(l) == IF l.version # 0 THEN "MigrationNotNeeded" ELSE "Ok"

migrateVersionOnly(admin) ==
    InvokeGovernance("migrate", admin, MigrateError(ledger),
        [ledger EXCEPT !.version = CONTRACT_VERSION])

migrate(admin) ==
    InvokeGovernance("migrate", admin, MigrateError(ledger),
        [ledger EXCEPT !.admin = admin, !.version = CONTRACT_VERSION])

(* The check shared by upgrade, set_feature_flag and set_rate_limit_config. *)
AdminErrorStale(l, admin) == IF l.admin = None THEN "NotInitialized" ELSE "Ok"
AdminError(l, admin) ==
    IF l.admin = None THEN "NotInitialized"
    ELSE IF l.admin # admin THEN "Unauthorized"
    ELSE "Ok"

upgrade(admin, new_wasm_hash) ==
    /\ Len(ledger.log) < MaxEvents
    /\ InvokeGovernance("upgrade", admin, AdminError(ledger, admin),
           [ledger EXCEPT
              !.wasm = new_wasm_hash,
              !.log = Append(@, [type |-> "upgrade", admin |-> admin,
                                 version |-> ledger.version])])

set_feature_flag(admin, flag, enabled) ==
    InvokeGovernance("set_feature_flag", admin, AdminError(ledger, admin),
        [ledger EXCEPT !.flags[flag] = enabled])

set_rate_limit_config(admin, config) ==
    InvokeGovernance("set_rate_limit_config", admin, AdminError(ledger, admin),
        [ledger EXCEPT !.config = config])

-----------------------------------------------------------------------------
(* Read-only calls *)

get_document(hash) == ledger.docs[hash]
document_exists(hash) == ledger.docs[hash] # None
verify_document(hash) ==
    document_exists(hash) /\ ledger.docs[hash].status = "Active"
get_document_status(hash) ==
    IF document_exists(hash) THEN ledger.docs[hash].status
                             ELSE "DocumentNotFound"
get_version == ledger.version
get_admin == ledger.admin
get_feature_flag(flag) == ledger.flags[flag]
get_rate_limit_retry_after(scope) == ledger.retry_after[scope]

-----------------------------------------------------------------------------
(* A ledger closes: its timestamp moves forward. *)
CloseLedger ==
    /\ now < MaxTime
    /\ now' = now + 1
    /\ UNCHANGED <<ledger, last, window>>

(* The observer starts counting grants afresh. *)
OpenWindow ==
    /\ now \in WindowStarts
    /\ window' = [start |-> now, granted |-> [s \in RateLimitScope |-> 0]]
    /\ UNCHANGED <<ledger, now, last>>

DocumentCall ==
    \E issuer \in Issuer :
        \/ \E owner \in Owner, hash \in Hash :
               register_document(issuer, owner, hash)
        \/ \E hash \in Hash : revoke_document(issuer, hash)
        \/ \E documents \in Batches(DocumentInfo) :
               batch_register_documents(issuer, documents)
        \/ \E hashes \in Batches(Hash) :
               batch_revoke_documents(issuer, hashes)

GovernanceCall ==
    \E admin \in Address :
        \/ initialize(admin)
        \/ migrate(admin)
        \/ \E wasm \in Wasm : upgrade(admin, wasm)
        \/ \E flag \in Flag, enabled \in BOOLEAN :
               set_feature_flag(admin, flag, enabled)
        \/ \E config \in RateLimitConfigs :
               set_rate_limit_config(admin, config)

Next == DocumentCall \/ GovernanceCall \/ CloseLedger \/ OpenWindow

Spec == Init /\ [][Next]_vars

-----------------------------------------------------------------------------
(* Properties *)

(* Without times, events and limits the contract is the registry: every     *)
(* step of every call registers fresh hashes of one issuer, revokes active  *)
(* documents of their issuer, or changes no document.                       *)
Registry == INSTANCE DocumentRegistry WITH
    registry <- [h \in Hash |->
                   IF document_exists(h)
                   THEN [issuer |-> ledger.docs[h].issuer,
                         owner  |-> ledger.docs[h].owner,
                         status |-> get_document_status(h)]
                   ELSE None]

RefinesRegistry == Registry!Spec

(* The positions of the events of a document in the log. *)
EventsOf(log, h) ==
    {i \in DOMAIN log : log[i].type \in {"register", "revoke"} /\ log[i].hash = h}

(* The issue and the revocation of a document each appear in the event log  *)
(* exactly once, with the stored issuer and owner and in that order, so an  *)
(* indexer that replays the log ends with what storage holds.               *)
LogMatchesDocuments ==
    \A h \in Hash :
        LET d == get_document(h)
            at == EventsOf(ledger.log, h)
            Registered(i) == ledger.log[i] = DocumentRegistered(d.issuer, d.owner, h)
            Revoked(i) == ledger.log[i] = DocumentRevoked(d.issuer, h)
        IN  /\ ~ document_exists(h) => at = {}
            /\ verify_document(h) => \E i \in at : at = {i} /\ Registered(i)
            /\ document_exists(h) /\ ~ verify_document(h) =>
                 \E i, j \in at : i < j /\ at = {i, j} /\ Registered(i) /\ Revoked(j)

(* Whoever became admin first, through initialize or migrate, stays admin,  *)
(* and the installed code, the flags and the limits change only in a call   *)
(* authorised by that admin.                                                *)
AdminGoverns ==
    [][/\ ledger.admin # None => ledger'.admin = ledger.admin
       /\ \/ ledger'.wasm # ledger.wasm
          \/ ledger'.flags # ledger.flags
          \/ ledger'.config # ledger.config
          => last'.by = ledger.admin]_vars

(* Storage has an admin exactly when it has a version, whichever of         *)
(* initialize and migrate came first: the guards that read the version and  *)
(* the ones that read the admin agree on what is initialised.               *)
AdminAndVersionTogether ==
    get_admin = None <=> get_version = 0

(* In any window of time a scope is granted at most one burst plus what the *)
(* largest configured rate refills, across bucket creation, rollbacks of    *)
(* failed calls and changes of the configuration.                           *)
MaxBurst(scope) ==
    CHOOSE m \in {Capacity(c, scope) : c \in RateLimitConfigs} :
        \A c \in RateLimitConfigs : Capacity(c, scope) <= m

MaxRate(scope) ==
    CHOOSE m \in {PerSecond(c, scope) : c \in RateLimitConfigs} :
        \A c \in RateLimitConfigs : PerSecond(c, scope) <= m

GrantsBounded ==
    \A scope \in RateLimitScope :
        window.granted[scope] <=
            MaxBurst(scope) + MaxRate(scope) * (now - window.start)

(* README: the contract returns RateLimitExceeded "once a bucket is         *)
(* exhausted".  A bucket that has waited a second under a positive rate and *)
(* capacity is not: its next call is not rejected.  (As long as what it     *)
(* earned fits a u32: the cast keeps the low half of a larger refill, which *)
(* may be nothing.)                                                         *)
RefilledAfterASecond ==
    \A scope \in RateLimitScope :
        LET s == ledger.bucket[scope]
        IN  (/\ s # None /\ now > s.last_refill
             /\ Capacity(ledger.config, scope) > 0
             /\ PerSecond(ledger.config, scope) > 0
             /\ Monus(now, s.last_refill) * PerSecond(ledger.config, scope) < U32)
            => Tokens(ledger, scope) > 0

(* README: "Callers can inspect `get_rate_limit_retry_after` to learn the   *)
(* delay before retrying": after a rejection one of the caller's scopes has *)
(* a delay to show.                                                         *)
RetryAfterIsReported ==
    last.res = "RateLimitExceeded" =>
        \E kind \in {"Address", "Issuer"} :
            get_rate_limit_retry_after(<<kind, last.by>>) # None
=============================================================================
