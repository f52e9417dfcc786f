SPECIFICATION Spec
CONSTANTS
    h1 = h1
    h2 = h2
    Hosts = {h1, h2}
    SysUuid <- MCSysUuid
    MachUuid <- MCMachUuid
    Assets = {a1, a2, a3}
    Rows = {r1, r2}
    Tokens = {t1}
    Sessions = {s1}
    MaxSecret = 4
    Settings <- MCMoves
SYMMETRY Symmetry
CHECK_DEADLOCK FALSE
INVARIANTS
    MatchIsUnique
