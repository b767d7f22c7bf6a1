CONSTANTS
    Deployments <- MCDeployments
    MaxFaults = 2
SPECIFICATION PatientSpec
INVARIANTS TypeOK OneConfigMemberAtATime DoneIsWhole
PROPERTY Completes
CHECK_DEADLOCK FALSE
