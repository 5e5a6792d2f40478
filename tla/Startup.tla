------------------------------ MODULE Startup -------------------------------
(***************************************************************************)
(* One process of the proxy from its launch to its end: settings.py, what    *)
(* create_default_app and build_app (proxy/app.py) make of them, and the     *)
(* lifespan.  The other modules take the chain and the sinks as CONSTANTs;   *)
(* here they are what a process that serves has.                             *)
(*                                                                          *)
(* A setting is a member of a small set.  Of a number the place is kept that *)
(* it has with respect to the bounds of its field; a value that does not     *)
(* parse, or a key no group has, fails as a number out of its bounds does.   *)
(***************************************************************************)
EXTENDS Naturals, Sequences

CONSTANT
    Environments    \* the GUARDRAIL_ variables (or .env) of the run

Floats == {"upstream_timeout_seconds", "reset_seconds", "pii_score_threshold"}
Fields == Floats \cup {"listen_port", "failure_threshold", "max_prompt_tokens",
                       "max_prompt_cost_usd", "memory_capacity"}
Places == {"below", "inside", "above", "infinite", "nan"}

(* no_parent   the directory of the file does not exist and cannot be made  *)
(* unwritable  the directory is there; the file cannot be opened for writing *)
Paths == {"unset", "empty", "usable", "no_parent", "unwritable"}
Settings ==
    [numbers: [Fields -> Places],
     enable_secrets: BOOLEAN, enable_pii: BOOLEAN, pii_policy: {"block", "redact", "other"},
     audit: BOOLEAN, log: BOOLEAN, level: {"verbose", "quiet", "unknown"},
     jsonl: Paths, duckdb: Paths,
     enable_endpoint: BOOLEAN, enable_dashboard: BOOLEAN]

ASSUME EnvironmentsAssumption == Environments \subseteq Settings

VARIABLES
    env,        \* the settings the process reads
    phase,      \* what is done next, or what has become of the process
    level,      \* what the loggers let through; "unset" before configure_logging
    chain,      \* MiddlewarePipeline
    sinks,      \* the composite's sinks; <<>>: NullAuditSink
    routes      \* what build_app mounts

vars == <<env, phase, level, chain, sinks, routes>>

Phases == {"main", "logging", "pipeline", "forwarder", "sinks", "app", "bind",
           "serving", "failed", "stopped"}

Init ==
    /\ env \in Environments
    /\ phase = "main"
    /\ level = "unset"
    /\ chain = <<>>
    /\ sinks = <<>>
    /\ routes = {}

-----------------------------------------------------------------------------
(* The Field constraints of the groups.  Only a float may be infinite, which *)
(* ge and gt let pass; only one may be no number, which pydantic may or may  *)
(* not let pass.  pii_policy, level and format are plain strings: any value  *)
(* passes here.                                                              *)
Accepts(field, place) ==
    \/ place = "inside"
    \/ field \in Floats /\ place = "nan"
    \/ field \in Floats \ {"pii_score_threshold"} /\ place = "infinite"

Valid(e) == \A f \in Fields : Accepts(f, e.numbers[f])
MayBeRefused(e) == ~Valid(e) \/ \E f \in Floats : e.numbers[f] = "nan"

(* main, then the same settings read again by create_default_app. *)
Main ==
    /\ phase = "main"
    /\ \/ Valid(env) /\ phase' = "logging"
       \/ MayBeRefused(env) /\ phase' = "failed"
    /\ UNCHANGED <<env, level, chain, sinks, routes>>

(* configure_logging, when audit.log_enabled, whether or not audit.enabled.  *)
(* getLevelName of an unknown level is no level, and setLevel raises; a      *)
(* known one above INFO goes to make_filtering_bound_logger.                 *)
ConfigureLogging ==
    /\ phase = "logging"
    /\ IF env.log /\ env.level = "unknown"
         THEN phase' = "failed" /\ UNCHANGED level
         ELSE phase' = "pipeline" /\ level' = IF env.log THEN env.level ELSE level
    /\ UNCHANGED <<env, chain, sinks, routes>>

(* Bugs the properties below must notice: the cost is judged before personal *)
(* data, and a policy nobody knows switches the scan off.                    *)
ChainCostFirst(e) ==
    <<"tokenomics">> \o (IF e.enable_secrets THEN <<"secret_scan">> ELSE <<>>)
                     \o (IF e.enable_pii THEN <<"pii_scan">> ELSE <<>>)
ChainWithKnownPolicy(e) ==
    (IF e.enable_secrets THEN <<"secret_scan">> ELSE <<>>)
    \o (IF e.enable_pii /\ e.pii_policy # "other" THEN <<"pii_scan">> ELSE <<>>)
    \o <<"tokenomics">>

ChainOf(e) ==
    (IF e.enable_secrets THEN <<"secret_scan">> ELSE <<>>)
    \o (IF e.enable_pii THEN <<"pii_scan">> ELSE <<>>)
    \o <<"tokenomics">>

BuildPipelineLeniently ==
    /\ phase = "pipeline"
    /\ chain' = ChainWithKnownPolicy(env)
    /\ phase' = "forwarder"
    /\ UNCHANGED <<env, level, sinks, routes>>

(* ThresholdPolicy checks its numbers again; PiiScanner needs its extra and  *)
(* its language model, and a score within its bounds; PiiPolicy(...) knows   *)
(* two values.                                                               *)
ScanFails(e, installed) ==
    e.enable_pii /\ (~installed \/ e.numbers["pii_score_threshold"] # "inside"
                    \/ e.pii_policy = "other")

BuildPipeline ==
    /\ phase = "pipeline"
    /\ \E installed \in BOOLEAN :
          IF \/ ScanFails(env, installed)
             \/ "below" \in {env.numbers["max_prompt_tokens"], env.numbers["max_prompt_cost_usd"]}
            THEN phase' = "failed" /\ UNCHANGED chain
            ELSE phase' = "forwarder" /\ chain' = ChainOf(env)
    /\ UNCHANGED <<env, level, sinks, routes>>

(* The CircuitBreaker checks its numbers again; an infinite cooldown passes. *)
BuildForwarder ==
    /\ phase = "forwarder"
    /\ phase' = IF "below" \in {env.numbers["failure_threshold"], env.numbers["reset_seconds"]}
                  THEN "failed" ELSE "sinks"
    /\ UNCHANGED <<env, level, chain, sinks, routes>>

-----------------------------------------------------------------------------
(* `if cfg.jsonl_path`: an empty string is as good as none. *)
Given(path) == path \notin {"unset", "empty"}

(* A bug StatsReadTheLedger must notice: the ring is one sink among others,  *)
(* left out of a composite that has a durable one.                           *)
SinksDurable(e) ==
    LET durable == (IF e.log THEN <<"log">> ELSE <<>>)
                   \o (IF Given(e.jsonl) THEN <<"jsonl">> ELSE <<>>)
                   \o (IF Given(e.duckdb) THEN <<"duckdb">> ELSE <<>>)
    IN  IF durable = <<>> THEN <<"ring">> ELSE durable

SinksOf(e) ==
    <<"ring">> \o (IF e.log THEN <<"log">> ELSE <<>>)
               \o (IF Given(e.jsonl) THEN <<"jsonl">> ELSE <<>>)
               \o (IF Given(e.duckdb) THEN <<"duckdb">> ELSE <<>>)

(* _build_audit_sink: the ring checks its capacity again.  The JSONL sink    *)
(* makes the directory of its file and opens the file only to append a       *)
(* record; the DuckDB sink connects, for which it needs its extra too.       *)
SinkFails(e) ==
    \/ e.numbers["memory_capacity"] = "below"
    \/ e.jsonl = "no_parent"
    \/ e.duckdb \in {"no_parent", "unwritable"}

BuildSinks ==
    /\ phase = "sinks"
    /\ \/ /\ ~env.audit
          /\ phase' = "app"
          /\ UNCHANGED sinks
       \/ /\ env.audit /\ ~SinkFails(env)
          /\ phase' = "app"
          /\ sinks' = SinksOf(env)
       \/ /\ env.audit
          /\ SinkFails(env) \/ Given(env.duckdb)
          /\ phase' = "failed"
          /\ UNCHANGED sinks
    /\ UNCHANGED <<env, level, chain, routes>>

(* A bug StatsReadTheLedger must notice: the routes are mounted whether or   *)
(* not there is a ring to read.                                              *)
RoutesUnbacked(e, hasRing) ==
    {"proxy", "healthz"}
    \cup (IF e.enable_endpoint THEN {"stats"} ELSE {})
    \cup (IF e.enable_dashboard THEN {"dashboard"} ELSE {})

RoutesOf(e, hasRing) ==
    {"proxy", "healthz"}
    \cup (IF hasRing /\ e.enable_endpoint
            THEN {"stats"} \cup (IF e.enable_dashboard THEN {"dashboard"} ELSE {})
            ELSE {})

(* build_app: _build_audit_sink hands out the ring only when auditing. *)
BuildApp ==
    /\ phase = "app"
    /\ routes' = RoutesOf(env, env.audit)
    /\ phase' = "bind"
    /\ UNCHANGED <<env, level, chain, sinks>>

-----------------------------------------------------------------------------
(* uvicorn takes the port, which may be in use. *)
Bind ==
    /\ phase = "bind"
    /\ phase' \in {"serving", "failed"}
    /\ UNCHANGED <<env, level, chain, sinks, routes>>

(* A signal; what the lifespan closes is in AuditSinks. *)
Stop ==
    /\ phase = "serving"
    /\ phase' = "stopped"
    /\ UNCHANGED <<env, level, chain, sinks, routes>>

Over == phase \in {"failed", "stopped"} /\ UNCHANGED vars

Next ==
    \/ Main \/ ConfigureLogging \/ BuildPipeline \/ BuildForwarder \/ BuildSinks
    \/ BuildApp \/ Bind \/ Stop \/ Over

Spec == Init /\ [][Next]_vars

-----------------------------------------------------------------------------
Has(s, x) == \E k \in 1..Len(s) : s[k] = x
Before(s, x, y) == \A i, j \in 1..Len(s) : s[i] = x /\ s[j] = y => i < j

TypeOK ==
    /\ env \in Settings
    /\ phase \in Phases
    /\ level \in {"unset", "verbose", "quiet"}
    /\ chain \in Seq({"secret_scan", "pii_scan", "tokenomics"})
    /\ sinks \in Seq({"ring", "log", "jsonl", "duckdb"})
    /\ routes \subseteq {"proxy", "healthz", "stats", "dashboard"}

(* A guardrail that is switched on is never dropped on the way up: for want  *)
(* of an extra, of a known policy, of a DuckDB file or of a directory for    *)
(* the JSONL file the process fails rather than serve without it; secrets    *)
(* are judged before anything else, the cost after a redaction, which        *)
(* changes the length; and nothing is logged before the logging is           *)
(* configured.  A JSONL file that cannot be written is not noticed here:  *)
(* its sink is there, and fails at every record.                             *)
EnabledMeansEnforced ==
    phase = "serving" =>
        /\ Has(chain, "secret_scan") <=> env.enable_secrets
        /\ Has(chain, "pii_scan") <=> env.enable_pii
        /\ env.enable_pii => env.pii_policy \in {"block", "redact"}
        /\ Has(chain, "tokenomics")
        /\ Before(chain, "secret_scan", "pii_scan") /\ Before(chain, "secret_scan", "tokenomics")
        /\ Before(chain, "pii_scan", "tokenomics")
        /\ env.audit =>
              /\ Has(sinks, "jsonl") <=> env.jsonl \in {"usable", "unwritable"}
              /\ Has(sinks, "duckdb") <=> env.duckdb = "usable"
        /\ Has(sinks, "log") => level # "unset"

(* /stats reads the ring the handlers write to, which is first in the        *)
(* fan-out, so that no later sink holds a record it has not seen; and the    *)
(* dashboard is served only with the routes its page polls.                  *)
StatsReadTheLedger ==
    phase = "serving" =>
        /\ "stats" \in routes => sinks # <<>> /\ sinks[1] = "ring"
        /\ "dashboard" \in routes => "stats" \in routes
        /\ "stats" \in routes <=> env.audit /\ env.enable_endpoint
=============================================================================
