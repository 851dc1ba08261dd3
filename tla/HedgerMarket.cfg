SPECIFICATION Spec
CONSTANTS
    buy2 = buy2
    sell1 = sell1
    m1 = m1
    Fills <- TwoFills
    Markets <- MCMarkets
    MarketOf <- MCMarketOf
    Side <- MCSide
    Size <- MCSize
    Price <- MCPrice
    ServerFills <- MCServerFills
    Improvement = 1
    WalkSteps = 1
    MaxAttempts = 2
    MaxForgotten = 1
    MaxStalled = 1
    Concurrency = 2
    MaxCrashes = 0
INVARIANTS
    ExposureSettles
CHECK_DEADLOCK FALSE
