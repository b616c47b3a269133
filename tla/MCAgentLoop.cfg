SPECIFICATION LoopFairSpec
CONSTANTS
    train = train
    override = override
    greedy = greedy
    Prompts <- MCPrompts
    Mode <- MCMode
    Asked <- MCAsked
    NStd = 1
    NCuts = 2
    Enabled = TRUE
    MaxFaults = 2
CHECK_DEADLOCK FALSE
INVARIANTS
    NothingWrittenAfterClear
    TakenGroupsAreWhole
PROPERTY
    EveryPromptEnds
