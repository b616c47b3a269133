SPECIFICATION FairSpec
CONSTANTS
    Engines = {e1, e2}
    Ranks = {0, 1}
    Ids = {i1, i2}
    LastStep = 2
    MaxLives = 2
CHECK_DEADLOCK FALSE
INVARIANTS
    SummariesAreExact
    FilesHaveOneLife
PROPERTY
    EveryRolloutRecorded
