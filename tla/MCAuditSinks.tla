---------------------------- MODULE MCAuditSinks ---------------------------
(* For TLC: a .cfg cannot hold a sequence, so the sinks are given here, in  *)
(* the order _build_audit_sink declares them.                               *)
EXTENDS AuditSinks, TLC

MCSinks == <<"ring", "log", "jsonl", "duckdb">>

Symmetry == Permutations(Tasks) \cup Permutations(Ids)
=============================================================================
