-------------------------- MODULE MCCircuitBreaker -------------------------
(* For TLC: the callers are model values and interchangeable. *)
EXTENDS CircuitBreaker, TLC

Symmetry == Permutations(Callers)
=============================================================================
