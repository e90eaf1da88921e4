SPECIFICATION Spec
CONSTANTS
    MaxFibers = 3
    Quantum = 2
    U64 = 4
    MaxGranted = 3
    Unlimited = Unlimited
    None = None
    Stale = Stale
    Budgets <- MCSmallBudgets
    Carves <- MCZeroCarves
    Refuels <- MCSmallRefuels
    Programs <- MCStmts
VIEW StepsOfBudgetedRuns
INVARIANTS
    TypeOK
    SchedInv
    Accounting
    WaitersWakeable
    OwnContinuation
    DoneLeavesOnlyCycles
    FuelConserved
    PauseTransparent
    WakesInsideEffect
PROPERTIES
    FuelIsolation
    JoinDelivers
    DeliveryHeld
    ImplementsPool
