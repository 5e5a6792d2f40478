\* Three callers may hold answers back while the breaker trips; no bound on time.
CONSTANTS
    Callers = {c1, c2, c3}
    Threshold = 2
    Reset = 3
SPECIFICATION FairSpec
PROPERTIES
    AdmitsAgain
