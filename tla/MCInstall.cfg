CONSTANTS
    SiteA = SiteA
    SiteB = SiteB
    Schemas <- MCSchemas
    ShardCount = 2
    Sharded = TRUE
    Keys <- MCKeys
    NoKey = NoKey
    MaxFaults = 2
    MaxChanges = 1
SPECIFICATION FairSpec
INVARIANTS TypeOK KeysAgree DoneSharesKey DoneIsInitiated
PROPERTY CompletesInOrder
CHECK_DEADLOCK FALSE
