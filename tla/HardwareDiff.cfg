SPECIFICATION Spec
CONSTANTS
    Slots = {sA, sB}
    Modules = {mX, mY}
    Cards = {g1, g2}
    Disks = {d1, d2}
    Sessions = {t1, t2}
    MaxClock = 4
    MaxUpsets = 2
    Settings <- MCSettings
SYMMETRY Symmetry
CHECK_DEADLOCK FALSE
INVARIANTS
    TypeOK
    ReportsAreReal
    EventsExplainTables
