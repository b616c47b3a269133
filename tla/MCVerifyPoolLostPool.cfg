SPECIFICATION Spec
CONSTANTS
    Threads = {t1, t2}
    Workers = 2
    Answers = {"equal", "kills"}
    MaxPools = 5
    MaxCalls = 3
    MaxDeaths = 0
CHECK_DEADLOCK FALSE
INVARIANTS
    ZeroOnlyForAListedReason
