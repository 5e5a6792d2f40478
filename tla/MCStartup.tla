----------------------------- MODULE MCStartup ------------------------------
(* For TLC: every combination of switches, with good numbers, and every      *)
(* number at every place a value of its field may have, with everything on.  *)
EXTENDS Startup

Good == [f \in Fields |-> "inside"]
Switches ==
    [numbers: {Good},
     enable_secrets: BOOLEAN, enable_pii: BOOLEAN, pii_policy: {"block", "redact", "other"},
     audit: BOOLEAN, log: BOOLEAN, level: {"verbose", "quiet", "unknown"},
     jsonl: Paths, duckdb: Paths,
     enable_endpoint: BOOLEAN, enable_dashboard: BOOLEAN]

AllOn == [numbers |-> Good,
          enable_secrets |-> TRUE, enable_pii |-> TRUE, pii_policy |-> "redact",
          audit |-> TRUE, log |-> TRUE, level |-> "verbose",
          jsonl |-> "usable", duckdb |-> "usable",
          enable_endpoint |-> TRUE, enable_dashboard |-> TRUE]

MCEnvironments == Switches \cup {[AllOn EXCEPT !.numbers[f] = v] : f \in Fields, v \in Places}
=============================================================================
