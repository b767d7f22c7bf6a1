CONSTANTS
    r1 = r1
    r2 = r2
    d1 = d1
    Reqs <- MCReqs
    Dbs <- MCOneDb
    Admin = Admin
    Keys <- MCKeys
    Asked <- MCAll
    RoleCount = 2
    ShardCount = 2
    MaxServed = 3
    MaxFaults = 1
SYMMETRY MCSymmetry
CONSTRAINT Bounded
SPECIFICATION Spec
INVARIANTS TypeOK RoleHasHolder OkHasUser SoloOkIsReal
PROPERTIES DropIsAskedFor RedistributeKeepsKey
CHECK_DEADLOCK FALSE
