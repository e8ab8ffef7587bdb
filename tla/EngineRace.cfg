CONSTANTS
    s1 = s1
    s2 = s2
    s3 = s3
    la = la
    lb = lb
    None = None
    Streams = {s1, s2, s3}
    Lanes = {la, lb}
    LaneOf <- TwoAndOne
    NumBlocks = 1
    Size <- Two
    MaxHedges = 2
    MaxEmpty = 1
    MaxRuns = 1
    Speeds <- AllSlow
    Expect = FALSE
    DiskFull = FALSE
    Truncating = {la, lb}
    Failing = {la, lb}
    Hanging = {}
    Spoiling = {}
    Excess = 0
SYMMETRY Symmetric
SPECIFICATION Spec
INVARIANTS
    AttemptsExact
    IdleExact
    RaceOfTwo
