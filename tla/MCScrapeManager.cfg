\* Two events of the outside world, out of: a change of the target set, a configuration
\* reload that may remove or add the job, and Stop; with fairness.  A manager without
\* news waits for ever.
CHECK_DEADLOCK FALSE
SPECIFICATION FairManagerSpec
CONSTANTS
    p1 = p1
    p2 = p2
    t1 = t1
    c1 = c1
    c2 = c2
    j1 = j1
    NoConfig = NoConfig
    NoPool = NoPool
    NoTarget = NoTarget
    Pools <- MCPools
    Targets <- MCTargets
    Configs <- MCConfigs
    StartConfigs = {c1}
    Kept <- MCKept
    Jobs <- MCJobs
    JobOf <- MCJobOf
    MaxLoops = 5
    MaxEvents = 2
INVARIANTS
    ManagerTypeOK
    CallersNeverOverlap
    OneScrapePerJobTarget
    DeletedPoolIsDraining
    PoolsInUseAreAlive
PROPERTIES
    TargetSetsReachPools
    MtxScrapeIsReleased
