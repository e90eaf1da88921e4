SPECIFICATION FairSpec
CONSTANTS
    MaxFibers = 3
    Quantum = 1
    U64 = 3
    MaxGranted = 2
    Unlimited = Unlimited
    None = None
    Stale = Stale
    Budgets <- MCSmallBudgets
    Carves <- MCDryCarves
    Refuels <- MCSmallRefuels
    Programs <- MCStmts
PROPERTIES
    EveryEntryReturns
    QueuedGetsItsTurn
