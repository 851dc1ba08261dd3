SPECIFICATION Spec
CONSTANTS
    buy2 = buy2
    sell1 = sell1
    m1 = m1
    Fills <- OneFill
    Markets <- MCMarkets
    MarketOf <- MCMarketOf
    Side <- MCSide
    Size <- MCSize
    Price <- MCPrice
    ServerFills <- MCServerFills
    Improvement = 1
    WalkSteps = 1
    MaxAttempts = 2
    MaxForgotten = 0
    MaxStalled = 1
    Concurrency = 2
    MaxCrashes = 1
INVARIANTS
    NoDoubleExecution
CHECK_DEADLOCK FALSE
