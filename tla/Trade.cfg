SPECIFICATION Spec
CONSTANTS
    r1 = r1
    a1 = a1
    a2 = a2
    old = old
    Requests = {r1}
    Attempts = {a1, a2}
    RequestOf <- MCRequestOf
    Size <- MCSize
    Improvement = 1
    Stock <- MCStock
    MaxPerTick = 1
    MaxFaults = 1
INVARIANTS
    TypeOK
    SharesAccounted
    InventoryUsedOnce
    NoParallelAttempts
    RepliesTruthful
    RowsMatchChain
VIEW Books
SYMMETRY Interchangeable
CHECK_DEADLOCK FALSE
