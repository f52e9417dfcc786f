SPECIFICATION FairSpec
CONSTANTS
    MaxApplies = 2
    Settings <- MCSettings
CHECK_DEADLOCK FALSE
INVARIANTS
    TypeOK
    OkIsDeployed
    RunningLocks
    EndedStaysEnded
PROPERTIES
    ActiveEnds
