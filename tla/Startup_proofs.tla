--------------------------- MODULE Startup_proofs ---------------------------
(***************************************************************************)
(* What a process that serves is made of, for every set of settings.  The    *)
(* strengthening says what each phase has established: it is inductive       *)
(* because nothing that was built is touched again.                         *)
(***************************************************************************)
EXTENDS Startup, TLAPS

USE EnvironmentsAssumption

(* The phases in which the step named first is behind. *)
Configured == {"pipeline", "forwarder", "sinks", "app", "bind", "serving", "stopped"}
Chained == Configured \ {"pipeline"}
Sunk == Chained \ {"forwarder", "sinks"}
Routed == Sunk \ {"app"}

StartInv ==
    /\ env \in Settings
    /\ phase \in Phases
    /\ phase \in Configured \cup {"logging"} => Valid(env)
    /\ phase \in Configured => level = IF env.log THEN env.level ELSE "unset"
    /\ phase \in {"main", "logging"} => level = "unset"
    /\ phase \in Chained => /\ chain = ChainOf(env)
                            /\ env.enable_pii => env.pii_policy \in {"block", "redact"}
    /\ phase \notin Sunk \cup {"failed"} => sinks = <<>>
    /\ phase \in Sunk => IF env.audit THEN sinks = SinksOf(env) /\ ~SinkFails(env)
                                       ELSE sinks = <<>>
    /\ phase \in Routed => routes = RoutesOf(env, env.audit)

-----------------------------------------------------------------------------
LEMMA InitStartInv == Init => StartInv
BY DEF Init, StartInv, Phases, Configured, Chained, Sunk, Routed

LEMMA NextStartInv == StartInv /\ [Next]_vars => StartInv'
<1> SUFFICES ASSUME StartInv, [Next]_vars
             PROVE  StartInv'
  OBVIOUS
<1> USE DEF StartInv, Phases, Configured, Chained, Sunk, Routed
<1>1. CASE Main
  BY <1>1 DEF Main
<1>2. CASE ConfigureLogging
  <2>1. CASE env.log /\ env.level = "unknown"
    BY <1>2, <2>1 DEF ConfigureLogging
  <2>2. CASE ~(env.log /\ env.level = "unknown")
    BY <1>2, <2>2 DEF ConfigureLogging
  <2> QED
    BY <2>1, <2>2
<1>3. CASE BuildPipeline
  <2>1. env.pii_policy \in {"block", "redact", "other"}
    BY DEF Settings
  <2> QED
    BY <1>3, <2>1 DEF BuildPipeline, ScanFails
<1>4. CASE BuildForwarder
  BY <1>4 DEF BuildForwarder
<1>5. CASE BuildSinks
  BY <1>5 DEF BuildSinks
<1>6. CASE BuildApp
  BY <1>6 DEF BuildApp
<1>7. CASE Bind
  BY <1>7 DEF Bind
<1>8. CASE Stop
  BY <1>8 DEF Stop
<1>9. CASE Over \/ UNCHANGED vars
  BY <1>9 DEF Over, vars
<1> QED
  BY <1>1, <1>2, <1>3, <1>4, <1>5, <1>6, <1>7, <1>8, <1>9 DEF Next

(* StartInv holds in every state of every process. *)
THEOREM StartSafe == Spec => []StartInv
BY InitStartInv, NextStartInv, PTL DEF Spec

-----------------------------------------------------------------------------
(* What an optional last element does to a sequence. *)
LEMMA Optional ==
  ASSUME NEW S, NEW s \in Seq(S), NEW y \in S, NEW b \in BOOLEAN
  PROVE  LET t == s \o (IF b THEN <<y>> ELSE <<>>)
         IN  /\ t \in Seq(S)
             /\ \A x : Has(t, x) <=> Has(s, x) \/ (b /\ x = y)
             /\ \A x, z : x # y /\ Before(s, x, z) => Before(t, x, z)
             /\ s # <<>> => t # <<>> /\ t[1] = s[1]
<1> DEFINE t == s \o (IF b THEN <<y>> ELSE <<>>)
<1>1. CASE ~b
  <2>1. t = s
    BY <1>1
  <2> HIDE DEF t
  <2> QED
    BY <1>1, <2>1 DEF t
<1>2. CASE b
  <2>1. t = s \o <<y>>
    BY <1>2
  <2> HIDE DEF t
  <2>2. /\ t \in Seq(S) /\ Len(s) \in Nat /\ Len(t) = Len(s) + 1
        /\ \A k \in 1..Len(s) : t[k] = s[k]
        /\ t[Len(s) + 1] = y
    BY ONLY <2>1, s \in Seq(S), y \in S
  <2>3. \A x : Has(t, x) <=> Has(s, x) \/ x = y
    BY <2>2 DEF Has
  <2>5. \A x, z : x # y /\ Before(s, x, z) => Before(t, x, z)
    BY <2>2 DEF Before
  <2>6. s # <<>> => t # <<>> /\ t[1] = s[1]
    BY <2>2
  <2> QED
    BY <1>2, <2>2, <2>3, <2>5, <2>6 DEF t
<1> QED
  BY <1>1, <1>2

LEMMA Single ==
  ASSUME NEW x
  PROVE  /\ <<x>> # <<>> /\ <<x>>[1] = x
         /\ \A y : Has(<<x>>, y) <=> y = x
BY DEF Has

LEMMA Absent ==
  ASSUME NEW s, NEW x, NEW z, ~Has(s, z)
  PROVE  Before(s, x, z)
BY DEF Has, Before

LEMMA NoSinks == \A x : ~Has(<<>>, x)
BY DEF Has

(* The order and the members of a chain. *)
LEMMA ChainFacts ==
  ASSUME NEW e \in Settings
  PROVE  LET c == ChainOf(e)
         IN  /\ Before(c, "secret_scan", "pii_scan") /\ Before(c, "secret_scan", "tokenomics")
             /\ Before(c, "pii_scan", "tokenomics")
             /\ Has(c, "secret_scan") <=> e.enable_secrets
             /\ Has(c, "pii_scan") <=> e.enable_pii
             /\ Has(c, "tokenomics")
<1> DEFINE S == {"secret_scan", "pii_scan", "tokenomics"}
           c1 == IF e.enable_secrets THEN <<"secret_scan">> ELSE <<>>
           c2 == c1 \o (IF e.enable_pii THEN <<"pii_scan">> ELSE <<>>)
           c3 == c2 \o (IF TRUE THEN <<"tokenomics">> ELSE <<>>)
<1>1. e.enable_secrets \in BOOLEAN /\ e.enable_pii \in BOOLEAN
  BY DEF Settings
<1>2. ChainOf(e) = c3
  BY DEF ChainOf
<1>3. c1 \in Seq(S)
  <2>1. <<"secret_scan">> \in Seq(S) /\ <<>> \in Seq(S)
    OBVIOUS
  <2> QED
    BY <2>1
<1>4. \A x : Has(c1, x) <=> e.enable_secrets /\ x = "secret_scan"
  BY <1>1, NoSinks, Single
<1> HIDE DEF c1
<1>5. /\ c2 \in Seq(S)
      /\ \A x : Has(c2, x) <=> Has(c1, x) \/ (e.enable_pii /\ x = "pii_scan")
      /\ \A x, z : x # "pii_scan" /\ Before(c1, x, z) => Before(c2, x, z)
  <2>1. ~Has(c1, "pii_scan")
    BY <1>4
  <2>2. "pii_scan" \in S
    OBVIOUS
  <2> HIDE DEF S
  <2>3. PICK b \in BOOLEAN : b = e.enable_pii
    BY <1>1
  <2>4. c2 = c1 \o (IF b THEN <<"pii_scan">> ELSE <<>>)
    BY <2>3
  <2> HIDE DEF c2
  <2> QED
    BY <1>3, <1>4, <2>1, <2>2, <2>3, <2>4, Optional
<1> HIDE DEF c2
<1>6. ~Has(c2, "tokenomics")
  BY <1>4, <1>5
<1>7. /\ \A x : Has(c3, x) <=> Has(c2, x) \/ x = "tokenomics"
      /\ \A x, z : x # "tokenomics" /\ Before(c2, x, z) => Before(c3, x, z)
  <2>1. TRUE \in BOOLEAN /\ "tokenomics" \in S /\ ~Has(c2, "tokenomics")
    BY <1>6
  <2> HIDE DEF S
  <2>2. PICK b \in BOOLEAN : b = TRUE
    BY <2>1
  <2>3. c3 = c2 \o (IF b THEN <<"tokenomics">> ELSE <<>>)
    BY <2>2
  <2> HIDE DEF c3
  <2>4. c2 \in Seq(S) /\ "tokenomics" \in S
    BY <1>5, <2>1
  <2>5. /\ \A x : Has(c3, x) <=> Has(c2, x) \/ (b /\ x = "tokenomics")
        /\ \A x, z : x # "tokenomics" /\ Before(c2, x, z) => Before(c3, x, z)
    BY <2>3, <2>4, Optional
  <2> QED
    BY <2>2, <2>5
<1> HIDE DEF c3
<1>8. Before(c2, "secret_scan", "tokenomics") /\ Before(c2, "pii_scan", "tokenomics")
  BY <1>6, Absent
<1>9. Before(c2, "secret_scan", "pii_scan")
  <2>1. ~Has(c1, "pii_scan")
    BY <1>4
  <2>2. Before(c1, "secret_scan", "pii_scan")
    BY <2>1, Absent
  <2> QED
    BY <1>5, <2>2
<1> QED
  BY <1>1, <1>2, <1>4, <1>5, <1>7, <1>8, <1>9

(* The order and the members of a fan-out. *)
LEMMA FanOutFacts ==
  ASSUME NEW e \in Settings
  PROVE  LET s == SinksOf(e)
         IN  /\ s # <<>> /\ s[1] = "ring"
             /\ Has(s, "log") <=> e.log
             /\ Has(s, "jsonl") <=> Given(e.jsonl)
             /\ Has(s, "duckdb") <=> Given(e.duckdb)
<1> DEFINE S == {"ring", "log", "jsonl", "duckdb"}
           s0 == <<"ring">>
           s1 == s0 \o (IF e.log THEN <<"log">> ELSE <<>>)
           s2 == s1 \o (IF Given(e.jsonl) THEN <<"jsonl">> ELSE <<>>)
           s3 == s2 \o (IF Given(e.duckdb) THEN <<"duckdb">> ELSE <<>>)
<1>1. e.log \in BOOLEAN /\ Given(e.jsonl) \in BOOLEAN /\ Given(e.duckdb) \in BOOLEAN
  BY DEF Settings, Given
<1>2. SinksOf(e) = s3
  BY DEF SinksOf
<1>3. s0 \in Seq(S) /\ s0 # <<>> /\ s0[1] = "ring"
  BY Single
<1>4. \A x : Has(s0, x) <=> x = "ring"
  BY Single
<1> HIDE DEF s0
<1>5. /\ s1 \in Seq(S) /\ s1 # <<>> /\ s1[1] = "ring"
      /\ \A x : Has(s1, x) <=> Has(s0, x) \/ (e.log /\ x = "log")
  <2>1. "log" \in S /\ ~Has(s0, "log")
    BY <1>3, <1>4
  <2> HIDE DEF S
  <2>2. PICK b \in BOOLEAN : b = e.log
    BY <1>1
  <2>3. s1 = s0 \o (IF b THEN <<"log">> ELSE <<>>)
    BY <2>2
  <2> HIDE DEF s1
  <2> QED
    BY <1>3, <1>4, <2>1, <2>2, <2>3, Optional
<1> HIDE DEF s1
<1>6. ~Has(s1, "jsonl")
  BY <1>4, <1>5
<1>7. /\ s2 \in Seq(S) /\ s2 # <<>> /\ s2[1] = "ring"
      /\ \A x : Has(s2, x) <=> Has(s1, x) \/ (Given(e.jsonl) /\ x = "jsonl")
  <2>1. "jsonl" \in S /\ ~Has(s1, "jsonl")
    BY <1>5, <1>6
  <2> HIDE DEF S
  <2>2. PICK b \in BOOLEAN : b = Given(e.jsonl)
    BY <1>1
  <2>3. s2 = s1 \o (IF b THEN <<"jsonl">> ELSE <<>>)
    BY <2>2
  <2> HIDE DEF s2
  <2> QED
    BY <1>5, <1>6, <2>1, <2>2, <2>3, Optional
<1> HIDE DEF s2
<1>8. ~Has(s2, "duckdb")
  BY <1>4, <1>5, <1>7
<1>9. /\ s3 # <<>> /\ s3[1] = "ring"
      /\ \A x : Has(s3, x) <=> Has(s2, x) \/ (Given(e.duckdb) /\ x = "duckdb")
  <2>1. "duckdb" \in S /\ ~Has(s2, "duckdb")
    BY <1>7, <1>8
  <2> HIDE DEF S
  <2>2. PICK b \in BOOLEAN : b = Given(e.duckdb)
    BY <1>1
  <2>3. s3 = s2 \o (IF b THEN <<"duckdb">> ELSE <<>>)
    BY <2>2
  <2> HIDE DEF s3
  <2> QED
    BY <1>7, <1>8, <2>1, <2>2, <2>3, Optional
<1> HIDE DEF s3
<1> QED
  BY <1>2, <1>4, <1>5, <1>7, <1>9

-----------------------------------------------------------------------------
(* No guardrail that is switched on is missing from a process that serves.   *)
THEOREM EnabledAlwaysEnforced == Spec => []EnabledMeansEnforced
<1>1. StartInv => EnabledMeansEnforced
  <2> SUFFICES ASSUME StartInv, phase = "serving"
               PROVE  /\ Has(chain, "secret_scan") <=> env.enable_secrets
                      /\ Has(chain, "pii_scan") <=> env.enable_pii
                      /\ env.enable_pii => env.pii_policy \in {"block", "redact"}
                      /\ Has(chain, "tokenomics")
                      /\ Before(chain, "secret_scan", "pii_scan")
                      /\ Before(chain, "secret_scan", "tokenomics")
                      /\ Before(chain, "pii_scan", "tokenomics")
                      /\ env.audit =>
                            /\ Has(sinks, "jsonl") <=> env.jsonl \in {"usable", "unwritable"}
                            /\ Has(sinks, "duckdb") <=> env.duckdb = "usable"
                      /\ Has(sinks, "log") => level # "unset"
    BY DEF EnabledMeansEnforced
  <2>1. /\ env \in Settings /\ chain = ChainOf(env)
        /\ env.enable_pii => env.pii_policy \in {"block", "redact"}
        /\ level = IF env.log THEN env.level ELSE "unset"
        /\ IF env.audit THEN sinks = SinksOf(env) /\ ~SinkFails(env) ELSE sinks = <<>>
    BY DEF StartInv, Configured, Chained, Sunk
  <2>2. env.level # "unset"
    BY <2>1 DEF Settings
  <2>3. Has(sinks, "log") => env.log
    BY <2>1, FanOutFacts, NoSinks
  <2>4. Has(sinks, "log") => level # "unset"
    BY <2>1, <2>2, <2>3
  <2>5. ASSUME env.audit
        PROVE  /\ Has(sinks, "jsonl") <=> env.jsonl \in {"usable", "unwritable"}
               /\ Has(sinks, "duckdb") <=> env.duckdb = "usable"
    <3>1. /\ Has(sinks, "jsonl") <=> Given(env.jsonl)
          /\ Has(sinks, "duckdb") <=> Given(env.duckdb)
      BY <2>1, <2>5, FanOutFacts
    <3>2. ~SinkFails(env) /\ env.jsonl \in Paths /\ env.duckdb \in Paths
      BY <2>1, <2>5 DEF Settings
    <3> QED
      BY <3>1, <3>2 DEF SinkFails, Given, Paths
  <2> QED
    BY <2>1, <2>4, <2>5, ChainFacts
<1> QED
  BY <1>1, StartSafe, PTL

(* What /stats answers from is the first sink of the fan-out. *)
THEOREM StatsAlwaysReadTheLedger == Spec => []StatsReadTheLedger
<1>1. StartInv => StatsReadTheLedger
  <2> SUFFICES ASSUME StartInv, phase = "serving"
               PROVE  /\ "stats" \in routes => sinks # <<>> /\ sinks[1] = "ring"
                      /\ "dashboard" \in routes => "stats" \in routes
                      /\ "stats" \in routes <=> env.audit /\ env.enable_endpoint
    BY DEF StatsReadTheLedger
  <2>1. /\ env \in Settings /\ routes = RoutesOf(env, env.audit)
        /\ IF env.audit THEN sinks = SinksOf(env) /\ ~SinkFails(env) ELSE sinks = <<>>
    BY DEF StartInv, Configured, Chained, Sunk, Routed
  <2>2. /\ "dashboard" \in routes => "stats" \in routes
        /\ "stats" \in routes <=> env.audit /\ env.enable_endpoint
    BY <2>1 DEF RoutesOf
  <2>3. env.audit => sinks # <<>> /\ sinks[1] = "ring"
    BY <2>1, FanOutFacts
  <2> QED
    BY <2>2, <2>3
<1> QED
  BY <1>1, StartSafe, PTL
=============================================================================
