SPECIFICATION FairSpec
CONSTANTS
    AgentTxns = {a1}
    AdminTxns = {d1}
    MaxChanges = 3
    MaxVersion = 3
    FirstPack = 2
INVARIANTS
    TypeOK
    NeverRedelivered
    OkAckTruthful
    DiskNotBehind
PROPERTIES
    NoDowngrade
    ImplementsUpdateCommand
    UpdateSettles
