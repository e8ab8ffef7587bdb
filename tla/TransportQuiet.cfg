CONSTANTS
    Limit = 2
    StallAfter = 2
    Clock = 4
SPECIFICATION FairSpec
PROPERTY QuietIsDropped
