SPECIFICATION Spec
CONSTANTS
    Machines = {m1}
    Ids = {i1, i2, i3}
    AgentTxns = {t1, t2}
    Settings <- MCSettings
SYMMETRY Symmetry
INVARIANTS
    TypeOK
    OneOpenAlert
    NoRepeatedEvents
    FlagNeverHides
    OnlineClearsOffline
