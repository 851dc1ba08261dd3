SPECIFICATION FairSpec
CONSTANTS
    buy2 = buy2
    sell1 = sell1
    m1 = m1
    Fills <- OneFill
    Markets <- MCMarkets
    MarketOf <- MCMarketOf
    Side <- MCSide
    Size <- MCSize
    Price <- MCPrice
    ServerFills <- MCServerFills
    Improvement = 1
    WalkSteps = 2
    MaxAttempts = 2
    MaxForgotten = 1
    MaxStalled = 1
    Concurrency = 2
    MaxCrashes = 2
INVARIANTS
    TypeOK
    TradesAccounted
    CompletedIsTerminal
PROPERTIES
    OrdersOnlyWhileHedging
    TerminalIsFinal
    JobsFinish
CHECK_DEADLOCK FALSE
