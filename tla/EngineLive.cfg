CONSTANTS
    s1 = s1
    s2 = s2
    s3 = s3
    la = la
    lb = lb
    None = None
    Streams = {s1, s2}
    Lanes = {la, lb}
    LaneOf <- OneEach
    NumBlocks = 2
    Size <- TwoOne
    MaxHedges = 1
    MaxEmpty = 1
    MaxRuns = 1
    Speeds <- SlowOrFast
    Expect = TRUE
    DiskFull = TRUE
    Truncating = {lb}
    Failing = {la, lb}
    Hanging = {lb}
    Spoiling = {}
    Excess = 0
SPECIFICATION FairSpec
PROPERTIES
    Returns
    NotHeldBack
