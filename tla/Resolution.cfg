SPECIFICATION FairSpec
CONSTANTS
    Kinds = {"STANDARD", "FAST_MOVING"}
    Servers = {"admin"}
    MaxDisturbances = 2
INVARIANTS
    TypeOK
    ClaimableMatchesChain
    DatabaseNeverAheadOfChain
PROPERTIES
    SettlesOnChain
    MarketRowSettles
CHECK_DEADLOCK FALSE
