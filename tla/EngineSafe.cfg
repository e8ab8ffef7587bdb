CONSTANTS
    s1 = s1
    s2 = s2
    s3 = s3
    la = la
    lb = lb
    None = None
    Streams = {s1, s2}
    Lanes = {la, lb}
    LaneOf <- OneEach
    NumBlocks = 2
    Size <- TwoOne
    MaxHedges = 1
    MaxEmpty = 1
    MaxRuns = 2
    Speeds <- AllSlow
    Expect = FALSE
    DiskFull = TRUE
    Truncating = {la}
    Failing = {lb}
    Hanging = {}
    Spoiling = {lb}
    Excess = 1
SPECIFICATION Spec
INVARIANTS
    TypeOK
    DoneMeansLanded
    ResultWhole
    NotStranded
    FailureExplained
PROPERTIES
    DoneForGood
    KeepsPromise
