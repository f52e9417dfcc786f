SPECIFICATION FairSpec
CONSTANTS
    Machines = {m1}
    Ids = {i1, i2, i3}
    AgentTxns = {t1}
    Settings <- MCSilence
PROPERTIES
    OfflineDetected
