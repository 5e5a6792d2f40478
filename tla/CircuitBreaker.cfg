\* Three callers, a threshold of two failures, a cooldown of two ticks; six
\* ticks and five failures leave room for a trip, a late failure that restarts
\* the cooldown, a probe and its failure.
CONSTANTS
    Callers = {c1, c2, c3}
    Threshold = 2
    Reset = 2
    NoTime = NoTime
    MaxTime = 6
    MaxFailures = 5
SYMMETRY Symmetry
SPECIFICATION Spec
INVARIANTS
    FieldsAgree
PROPERTIES
    NoCallDuringCooldown
    RefusesOnlyInCooldown
    CooldownEndsByTimeOrSuccess
    ImplementsContract
