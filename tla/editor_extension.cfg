SPECIFICATION FairSpec
CONSTANTS
    Children <- FourChildren
    MaxReloads = 1
CHECK_DEADLOCK FALSE
INVARIANTS
    RunningIsReachable
PROPERTIES
    HandleIsCleared
