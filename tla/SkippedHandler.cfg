SPECIFICATION Spec
CONSTANTS
    Get = Get
    Effects <- MCEffects
    ClauseSets <- MCClauseSets
    MaxKonts = 4
    MaxHeld = 1
PROPERTIES
    ResumePutsBackTheBlock
CHECK_DEADLOCK FALSE
