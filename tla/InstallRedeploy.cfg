CONSTANTS
    SiteA = SiteA
    SiteB = SiteB
    Schemas <- MCSchemaDR
    ShardCount = 1
    Sharded = TRUE
    Keys <- MCKeys
    NoKey = NoKey
    MaxFaults = 0
    MaxChanges = 0
SPECIFICATION FairSpec
PROPERTY RedeployCompletes
CHECK_DEADLOCK FALSE
