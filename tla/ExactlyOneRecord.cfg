\* Three requests, a pool of one connection, a breaker that opens on the second
\* failure for one tick.  No fairness, for the property is an invariant.
CONSTANTS
    Requests = {q1, q2, q3}
    Bodies <- MCBodies
    Chain <- MCChain
    PiiPolicy = "redact"
    Pool = 1
    Threshold = 2
    Reset = 1
SPECIFICATION Spec
SYMMETRY Symmetry
INVARIANT ExactlyOneRecord
