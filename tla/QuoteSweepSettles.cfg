SPECIFICATION FairSpec
CONSTANTS
    alice = alice
    bob = bob
    m1 = m1
    n1 = n1
    r1 = r1
    Users <- MCUsers
    Markets <- MCMarkets
    Nonces <- MCNonces
    RequestNonces <- MCRequestNonces
    InitialUsdc <- MCInitialUsdc
    InitialVault <- MCInitialVault
    Prices = {60}
    Sizes = {1}
    EndTimes = {3}
    U64_MAX = 1000000
    MaxFills = 2
    QuoteExpiry = 1
    ExpiryBuffer = 1
    BatchSize = 2
    MaxClockSkew = 1
    MaxSigned = 2
    LastSignTime = 1
    MaxTime = 4
PROPERTIES
    ClosedRowsSettle
CHECK_DEADLOCK FALSE
