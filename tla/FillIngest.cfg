SPECIFICATION FairSpec
CONSTANTS
    BackfillLimit = 2
    ListenerEnabled = TRUE
    MaxTxs = 3
    MaxSlot = 2
    MaxCrashes = 1
INVARIANTS
    TypeOK
    NothingLeftBehind
PROPERTIES
    CheckpointNeverRegresses
    FillsDelivered
