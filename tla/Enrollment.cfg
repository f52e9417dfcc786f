SPECIFICATION Spec
CONSTANTS
    h1 = h1
    h2 = h2
    Hosts = {h1, h2}
    SysUuid <- MCSysUuid
    MachUuid <- MCMachUuid
    Assets = {a1, a2}
    Rows = {r1, r2}
    Tokens = {t1, t2}
    Sessions = {s1, s2}
    MaxSecret = 3
    Settings <- MCSettings
SYMMETRY Symmetry
CHECK_DEADLOCK FALSE
INVARIANTS
    TypeOK
PROPERTIES
    OneUseToken
    RevokedStaysOut
