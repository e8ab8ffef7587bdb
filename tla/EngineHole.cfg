CONSTANTS
    s1 = s1
    s2 = s2
    s3 = s3
    la = la
    lb = lb
    None = None
    Streams = {s1, s2}
    Lanes = {la, lb}
    LaneOf <- OneEach
    NumBlocks = 1
    Size <- Two
    MaxHedges = 1
    MaxEmpty = 1
    MaxRuns = 1
    Speeds <- AllSlow
    Expect = FALSE
    DiskFull = FALSE
    Truncating = {la, lb}
    Failing = {}
    Hanging = {}
    Spoiling = {}
    Excess = 0
SPECIFICATION Spec
INVARIANT DoneIsLanded
