CONSTANTS
    SiteA = SiteA
    SiteB = SiteB
    ShardCount = 1
    N = 2
    Sharded = TRUE
    MaxFaults = 1
    MaxSwitches = 2
SPECIFICATION Spec
INVARIANTS TypeOK OneServingSite ActiveDoneOwnsSets DoneScalesServices
PROPERTY ImplementsHandover
CHECK_DEADLOCK FALSE
