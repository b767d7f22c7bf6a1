CONSTANTS
    Deployments <- MCDeployments
    MaxChanges = 1
    MaxMain = 1
    MaxFaults = 2
SPECIFICATION FairSpec
INVARIANTS TypeOK DoneIsDeployed AdapterHasRole DoneHasUsers
PROPERTY ServicesComplete
CHECK_DEADLOCK FALSE
