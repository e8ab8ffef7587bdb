CONSTANTS
    Builds = {1, 2, 3}
    SizeOf <- SomeAlike
    Lengths = {1, 2}
SPECIFICATION Spec
INVARIANTS
    TypeOK
    DoneIsCurrent
