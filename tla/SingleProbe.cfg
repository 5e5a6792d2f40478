\* Two callers meet a breaker whose cooldown has elapsed.
CONSTANTS
    Callers = {c1, c2, c3}
    Threshold = 2
    Reset = 2
    NoTime = NoTime
    MaxTime = 6
    MaxFailures = 5
SYMMETRY Symmetry
SPECIFICATION Spec
INVARIANT SingleProbe
