SPECIFICATION Spec
CONSTANTS
    Get = Get
    Effects <- MCEffects
    ClauseSets <- MCClauseSets
    MaxKonts = 5
    MaxHeld = 1
INVARIANTS
    TypeOK
    NothingAheadIsSpent
    ContinuationInv
PROPERTIES
    ImplementsStack
CHECK_DEADLOCK FALSE
