CONSTANTS
    Deployments <- MCOneShard
    MaxFaults = 1
SPECIFICATION FairSpec
PROPERTY ScaledBack
CHECK_DEADLOCK FALSE
