\* Three requests with two scans each, two threads, two kills.
CONSTANTS
    Requests = {r1, r2, r3}
    Workers = 2
    Scans = 2
    MaxKills = 2
SPECIFICATION Spec
INVARIANTS
    AnsweredIsOnFile
    InArrivalOrder
    DamageIsBounded
PROPERTIES
    ScansSurviveAHungDisk
    EveryRequestEnds
