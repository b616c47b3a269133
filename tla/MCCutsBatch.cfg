SPECIFICATION TableSpec
CONSTANTS
    c1 = c1
    c2 = c2
    plain = plain
    Std = "std"
    Rows = 3
    Requests <- MixedRequests
    Signature <- MixedSignature
    TWarm = 1
    MaxTokens = 3
    MaxStays = 2
CHECK_DEADLOCK FALSE
INVARIANTS
    MirrorsBatch
    SampledAsAsked
    RecordsAreComplete
