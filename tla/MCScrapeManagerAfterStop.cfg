\* Stop racing the reloader; a manager without news waits for ever.
CHECK_DEADLOCK FALSE
SPECIFICATION ManagerSpec
CONSTANTS
    p1 = p1
    p2 = p2
    t1 = t1
    c1 = c1
    c2 = c2
    j1 = j1
    NoConfig = NoConfig
    NoPool = NoPool
    NoTarget = NoTarget
    Pools <- MCPools
    Targets <- MCTargets
    Configs <- MCConfigs
    StartConfigs <- MCConfigs
    Kept <- MCKept
    Jobs <- MCJobs
    JobOf <- MCJobOf
    MaxLoops = 4
    MaxEvents = 2
INVARIANTS
    NothingScrapesAfterStop
