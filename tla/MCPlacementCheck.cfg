CONSTANTS
    MaxSize = 7
    MaxShards = 5
    DR = FALSE
SPECIFICATION Spec
INVARIANTS TypeOK EveryMemberPlaced SidesAreEqual SidesAreEven
CHECK_DEADLOCK FALSE
