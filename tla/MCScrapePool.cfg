\* One target that may flap and be reloaded until four loops were created.
SPECIFICATION FairSpec
CONSTANTS
    p1 = p1
    t1 = t1
    c1 = c1
    c2 = c2
    NoConfig = NoConfig
    Pools <- MCPools
    Targets <- MCTargets
    Configs <- MCConfigs
    Kept <- MCKept
    MaxLoops = 4
INVARIANTS
    TypeOK
    TargetsAndLoopsInSync
    AtMostOneScrape
    NoLoopLeaked
    LoopOptionsAreCurrent
PROPERTIES
    StoppedLoopNeverRunsAgain
    CallsReturn
    HandsOverTargets
