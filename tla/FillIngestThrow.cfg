SPECIFICATION Spec
CONSTANTS
    BackfillLimit = 2
    ListenerEnabled = TRUE
    MaxTxs = 2
    MaxSlot = 2
    MaxCrashes = 1
INVARIANTS
    ThrownFillStaysAhead
