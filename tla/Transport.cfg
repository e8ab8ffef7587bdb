CONSTANTS
    Limit = 4
    StallAfter = 2
    Clock = 4
SPECIFICATION AnsweringSpec
INVARIANTS
    TypeOK
    LateBound
    Drained
    OrphanOnWrite
PROPERTIES
    KeepsPromise
    Returns
