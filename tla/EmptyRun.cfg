SPECIFICATION Spec
CONSTANTS
    MaxFibers = 2
    Quantum = 1
    U64 = 3
    MaxGranted = 2
    Unlimited = Unlimited
    None = None
    Stale = Stale
    Budgets <- MCSmallBudgets
    Carves <- MCSmallCarves
    Refuels <- MCSmallRefuels
    Programs <- MCSources
INVARIANT
    DeadFibersStayDead
