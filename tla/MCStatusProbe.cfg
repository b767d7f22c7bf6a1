CONSTANTS
    ShardCount = 2
    N = 2
    Sharded = TRUE
    ProbeModes <- MCProbeModes
    MaxChanges = 1
SPECIFICATION Spec
INVARIANTS TypeOK UpIsEarned HealthyIsUp
CHECK_DEADLOCK FALSE
