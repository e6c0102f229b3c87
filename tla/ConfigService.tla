---------------------------- MODULE ConfigService ----------------------------
(***************************************************************************)
(* src/main.rs: the service loads its configuration, builds the cache,     *)
(* binds and serves; POST /config/reload reads the environment again and   *)
(* sends what it read through a watch channel, whose receiver only counts  *)
(* it.  A watch channel keeps the last value and a version; its receiver   *)
(* sees that there is something new, not how much.                         *)
(*                                                                         *)
(* Nothing in src/ changes the environment of the process, so SetEnv is    *)
(* external.  Requests are handled concurrently: loaded[r] is empty or     *)
(* holds the configuration that request r has read, counted and not yet    *)
(* sent.  reload_total counts what config_reload_total does.               *)
(***************************************************************************)
EXTENDS AppConfig

CONSTANTS
    MaxSet,             \* bound: the variables set when the service starts
    Changing,           \* bound: the variables set while it is serving
    MaxReloads,         \* bound: the requests to reload
    Request             \* the connections that may ask for a reload

ASSUME ServiceAssumption == MaxSet \in Nat /\ MaxReloads \in Nat /\ Changing \subseteq Setting

VARIABLES env, phase, backend, channel, seen, loaded, reload_total, failures, reloads

vars == <<env, phase, backend, channel, seen, loaded, reload_total, failures, reloads>>

Environment == [STELLAR_SECRET_KEY |-> "valid"]

Init ==
    /\ env = Environment
    /\ phase = "starting"
    /\ backend = "none"
    /\ channel = [config |-> Environment, version |-> 0]
    /\ seen = 0
    /\ loaded = [r \in Request |-> {}]
    /\ reload_total = 0
    /\ failures = 0
    /\ reloads = 0

(* Variable s is set to v: the bound keeps to one section, since no rule    *)
(* relates settings of two.                                                 *)
SetEnv(s, v) ==
    LET changed == (s :> v) @@ env
        others == (DOMAIN changed) \ {"STELLAR_SECRET_KEY"}
    IN /\ phase \in {"starting", "serving"}
       /\ changed # env
       /\ Cardinality(others) <= MaxSet
       /\ phase = "serving" => others \subseteq Changing
       /\ \E section \in Sections : others \subseteq section
       /\ env' = changed
       /\ UNCHANGED <<phase, backend, channel, seen, loaded, reload_total, failures, reloads>>

(* from_env_with_metrics counts a success as a reload and an error as a     *)
(* failure.                                                                 *)
Loads ==
    /\ reload_total' = IF from_env(env) = "Ok" THEN reload_total + 1 ELSE reload_total
    /\ failures' = IF from_env(env) = "Err" THEN failures + 1 ELSE failures

Start ==
    /\ phase = "starting"
    /\ Loads
    /\ phase' = IF from_env(env) = "Ok" THEN "connecting" ELSE "exited"
    /\ channel' = [config |-> env, version |-> 0]
    /\ UNCHANGED <<env, backend, seen, loaded, reloads>>

(* The cache is in memory unless Redis is asked for and can be reached.     *)
InitCache(reachable) ==
    /\ phase = "connecting"
    /\ phase' = "binding"
    /\ backend' = IF Value(channel.config, "CACHE_BACKEND") = "redis" /\ reachable
                  THEN "redis" ELSE "inmemory"
    /\ UNCHANGED <<env, channel, seen, loaded, reload_total, failures, reloads>>

Bind(free) ==
    /\ phase = "binding"
    /\ phase' = IF free THEN "serving" ELSE "exited"
    /\ UNCHANGED <<env, backend, channel, seen, loaded, reload_total, failures, reloads>>

(* config_reload_handler, up to the count in from_env_with_metrics and from *)
(* there to the send; requests in flight are served while draining.         *)
Reload(r) ==
    /\ phase \in {"serving", "draining"}
    /\ loaded[r] = {}
    /\ reloads < MaxReloads
    /\ reloads' = reloads + 1
    /\ Loads
    /\ loaded' = [loaded EXCEPT ![r] = IF from_env(env) = "Ok" THEN {env} ELSE {}]
    /\ UNCHANGED <<env, phase, backend, channel, seen>>

Send(r) ==
    /\ phase \in {"serving", "draining"}
    /\ \E config \in loaded[r] :
          channel' = [config |-> config, version |-> channel.version + 1]
    /\ loaded' = [loaded EXCEPT ![r] = {}]
    /\ UNCHANGED <<env, phase, backend, seen, reload_total, failures, reloads>>

(* The background task: changed().await, then borrow_and_update.            *)
WatchOnce ==
    /\ phase # "exited"
    /\ seen = 0 /\ seen < channel.version
    /\ seen' = channel.version
    /\ reload_total' = reload_total + 1
    /\ UNCHANGED <<env, phase, backend, channel, loaded, failures, reloads>>

Watch ==
    /\ phase # "exited"
    /\ seen < channel.version
    /\ seen' = channel.version
    /\ reload_total' = reload_total + 1
    /\ UNCHANGED <<env, phase, backend, channel, loaded, failures, reloads>>

(* SIGTERM or SIGINT flips the shutdown flag; the server answers what is in *)
(* flight and ends.                                                         *)
Signal ==
    /\ phase = "serving"
    /\ phase' = "draining"
    /\ UNCHANGED <<env, backend, channel, seen, loaded, reload_total, failures, reloads>>

Exit ==
    /\ phase = "draining"
    /\ loaded = [r \in Request |-> {}]
    /\ phase' = "exited"
    /\ UNCHANGED <<env, backend, channel, seen, loaded, reload_total, failures, reloads>>

Next ==
    \/ \E s \in Setting : \E v \in Raw(s) : SetEnv(s, v)
    \/ Start \/ Watch \/ Signal \/ Exit
    \/ \E r \in Request : Reload(r) \/ Send(r)
    \/ \E free \in BOOLEAN : InitCache(free) \/ Bind(free)

(* The background task is scheduled. *)
Spec == Init /\ [][Next]_vars /\ WF_vars(Watch)

-----------------------------------------------------------------------------
(* Properties *)

(* What an operator may put in place of a setting that from_env reports:    *)
(* one value for each setting, whatever the others are.                     *)
Remedy(s) ==
    CASE s \in {"RATE_LIMIT_BURST", "PER_ISSUER_RATE_LIMIT_BURST"} -> MaxU32
      [] s \in {"STELLAR_RETRY_MAX_DELAY_MS", "WEBHOOK_RETRY_MAX_DELAY_MS"} -> MaxTimeout
      [] s = "STELLAR_SECRET_KEY" -> "valid"
      [] OTHER -> Default(<<>>, s)

Repaired(e) ==
    [s \in Errors(e) \cup DOMAIN e |-> IF s \in Errors(e) THEN Remedy(s) ELSE e[s]]

(* One rejection tells the operator everything: from_env goes on after an   *)
(* error with a made-up value, relates it to the other settings and takes   *)
(* defaults from them, and still the settings it reports are all that must  *)
(* change.  Replacing exactly those, and leaving every other variable as it *)
(* is (or unset, or not Unicode), gives an environment that it accepts: no  *)
(* made-up value hid an error that only the next attempt would show.        *)
ReportIsComplete == from_env(env) = "Err" => from_env(Repaired(env)) = "Ok"

(* The watcher sees the last configuration sent, however many reloads it    *)
(* missed, unless the service ends first.                                   *)
WatcherCatchesUp ==
    (seen < channel.version) ~> (seen = channel.version \/ phase = "exited")
=============================================================================
