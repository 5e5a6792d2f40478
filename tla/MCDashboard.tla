---------------------------- MODULE MCDashboard ----------------------------
(* A ring of two records that three go through, and refreshes that ask for  *)
(* one row.  The records differ in everything a card counts.                *)
EXTENDS Dashboard

MCTraffic ==
    <<[verdict |-> "allowed",  by |-> "none", model |-> "a", cost |-> 2, findings |-> <<>>],
      [verdict |-> "rejected", by |-> "pii",  model |-> "b", cost |-> 0, findings |-> <<"pii", "pii">>],
      [verdict |-> "allowed",  by |-> "none", model |-> "b", cost |-> 1, findings |-> <<"pii">>]>>
============================================================================
