CONSTANTS
    Sizes <- SomeSizes
    Counts <- SomeCounts
    Forces <- SomeForces
    MinBlock = 2
    MaxBlock = 5
    Word = 80
    MaxUrls = 2
    Others <- OtherSizes
    Interfaces <- Names
    Routes <- SomeRoutes
    Loopback = "lo"
    Virtual <- Bridges
    Up <- AreUp
    Named <- SomeNamed
    MaxStreams = 2
    MaxTotal = 3
SPECIFICATION SetupSpec
INVARIANTS
    SetupTypeOK
    SourcesServe
    GoodMirrorUsed
    Balanced
    Contiguous
    Covered
    NoOverflow
