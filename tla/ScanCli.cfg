\* Invocations with one to three inputs; bounds of 3 tokens and of the price of
\* two and three tokens of the dearest model; 0 is a bound no policy accepts.
CONSTANTS
    AllowUnknown = TRUE
    NoLimit = NoLimit
    Malformed = Malformed
    None = None
    Inputs <- MCInputs
    MaxBatch = 3
    TokenBounds = {0, 3}
    CostBounds <- MCCostBounds
SPECIFICATION Spec
INVARIANTS
    ZeroMeansClean
    RejectedForCause
    NeverUnderpriced
    ReportAgrees
