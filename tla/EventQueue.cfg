SPECIFICATION FairSpec
CONSTANTS
    MaxRows = 3
    BatchSize = 2
    Sessions = {s1, s2}
    LastId = 4
CHECK_DEADLOCK FALSE
INVARIANTS
    TypeOK
    NothingLost
    StoredInOrder
    Bounded
PROPERTIES
    LeavesForAReason
    Drains
