SPECIFICATION FairSpec
CONSTANTS
    Threads = {t1, t2}
    Workers = 1
    Answers = {"equal", "different", "raises", "slow", "kills"}
    MaxPools = 5
    MaxCalls = 2
    MaxDeaths = 1
CHECK_DEADLOCK FALSE
INVARIANTS
    PermitsConserved
    ReplacedOnceAndUnharmed
    NeverRefused
    ScoresAreEarned
PROPERTIES
    NeverQueues
    EveryCallReturns
    ReplacedPoolsDrain
