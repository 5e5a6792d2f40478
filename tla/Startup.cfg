\* Every combination of switches and every number in and out of its bounds.
CONSTANT Environments <- MCEnvironments
SPECIFICATION Spec
INVARIANTS
    EnabledMeansEnforced
    StatsReadTheLedger
