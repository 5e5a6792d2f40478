\* Three requests, all four sinks, a ring of two; every sink that can fail
\* does, and two of the requests can carry the same X-Request-Id.
CONSTANTS
    Tasks = {t1, t2, t3}
    Sinks <- MCSinks
    Capacity = 2
    Ids = {r1, r2}
    NoId = NoId
    Faulty = {"log", "jsonl", "duckdb"}
SPECIFICATION FairSpec
INVARIANTS
    OneStream
    Isolated
    RingIsRecent
PROPERTIES
    ObservesOneStream
    EveryRecordReturns
