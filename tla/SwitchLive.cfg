CONSTANTS
    SiteA = SiteA
    SiteB = SiteB
    ShardCount = 1
    N = 1
    Sharded = TRUE
    MaxFaults = 1
    MaxSwitches = 1
SPECIFICATION FairSpec
PROPERTIES PlanEndsOrPolls LagPollEnds
CHECK_DEADLOCK FALSE
