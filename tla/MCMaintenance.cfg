CONSTANTS
    r1 = r1
    r2 = r2
    Reqs <- MCReqs
    ShardCount = 2
    N = 2
    Sizes <- MCSizes
    MaxRuns = 2
    MaxFaults = 1
CONSTRAINT Bounded
SPECIFICATION Spec
INVARIANTS TypeOK DoneIsResized OkIsCompacted
PROPERTIES PrimaryResizedLast RequestEnds
CHECK_DEADLOCK FALSE
