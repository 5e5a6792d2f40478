--------------------------- MODULE MCProxyHandler ---------------------------
(* For TLC: a .cfg cannot hold a sequence or a set of sets of strings.      *)
EXTENDS ProxyHandler, TLC

(* create_default_app with every scanner enabled. *)
MCChain == <<"secret_scan", "pii_scan", "tokenomics">>

(* One body for every way a request can go on or end; some combine two.     *)
MCBodies == {{}, {"secret", "long"}, {"pii", "split_pii"}, {"split_pii", "long"},
             {"pii", "unencodable"}, {"unscannable"}, {"unpriced"},
             {"unrecordable"}, {"secret", "unrecordable"}, {"unsendable"}, {"no_origin"}}

Symmetry == Permutations(Requests)
=============================================================================
