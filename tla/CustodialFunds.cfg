SPECIFICATION Spec
CONSTANTS
    poll = poll
    now = now
    w1 = w1
    w2 = w2
    c1 = c1
    c2 = c2
    Checkers = {poll, now}
    Withdrawals = {w1, w2}
    Claims = {c1, c2}
    MaxShares = 2
    InitialUsdc = 1
    MinDeposit = 0
    Rate = 3
    Scale = 2
    MaxSol = 2
    MaxCalls = 2
    MaxFaults = 1
INVARIANTS
    TypeOK
    MintFollowsSweep
    AnswersTruthful
    ClaimRowMatchesPayout
    WalletNotBlocked
SYMMETRY Interchangeable
CHECK_DEADLOCK FALSE
