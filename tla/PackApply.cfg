SPECIFICATION FairSpec
CONSTANTS
    MaxPacks = 3
    Torn = Torn
    Absent = Absent
    Settings <- MCSettings
CHECK_DEADLOCK FALSE
INVARIANTS
    TypeOK
    OneTreeStarts
PROPERTIES
    RestoredRan
    WatchdogRestarts
