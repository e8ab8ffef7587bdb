SPECIFICATION Spec
CONSTANTS
    c1 = c1
    c2 = c2
    Callers <- TwoCallers
    Kinds <- KindsOfTwo
    NumParts = 2
    Cuts <- OneOrTwo
    NumChunks = 2
    Junk = {c1}
    Local = TRUE
    Token = FALSE
INVARIANTS TypeOK RecordHonest CleanAfterOk
PROPERTIES VerdictRight StartOverHeals
