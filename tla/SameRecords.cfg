\* No sink is faulty; two requests carry the same X-Request-Id.
CONSTANTS
    Tasks = {t1, t2, t3}
    Sinks <- MCSinks
    Capacity = 2
    Ids = {r1, r2}
    NoId = NoId
    Faulty = {}
SPECIFICATION Spec
SYMMETRY Symmetry
INVARIANT SameRecords
