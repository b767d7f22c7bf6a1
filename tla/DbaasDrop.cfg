CONSTANTS
    r1 = r1
    r2 = r2
    d1 = d1
    Reqs <- MCSolo
    Dbs <- MCOneDb
    Admin = Admin
    Keys <- MCOneKey
    Asked <- MCAll
    RoleCount = 1
    ShardCount = 1
    MaxServed = 2
    MaxFaults = 1
SPECIFICATION Spec
INVARIANT DeletedIsDropped
CHECK_DEADLOCK FALSE
