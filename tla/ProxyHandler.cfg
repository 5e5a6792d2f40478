\* Two requests, a pool of one connection, a breaker that opens on the first
\* failure for two ticks; every scanner enabled, personal data redacted.
CONSTANTS
    Requests = {q1, q2}
    Bodies <- MCBodies
    Chain <- MCChain
    PiiPolicy = "redact"
    Pool = 1
    Threshold = 1
    Reset = 2
SPECIFICATION FairSpec
INVARIANTS
    UpstreamSeesScreened
    LedgerMatchesWire
    ConnectionsAccounted
PROPERTIES
    KeepsPromise
    EveryRequestAnswered
    ConnectionsReturn
