CONSTANTS
    Lists <- ShortLists
    Budget = 2
SPECIFICATION Spec
INVARIANTS
    TypeOK
    WithinBudget
    Partition
    Accounted
    FailuresLocal
