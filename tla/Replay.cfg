SPECIFICATION FairSpec
CONSTANTS
    U64 = 8
    Unlimited = Unlimited
    Calls <- MCCalls
    Answers = {a, b, deep}
    TooDeep = {deep}
    Nothing = Nothing
    Budget = 2
    Refuels <- MCRefuels
    FailedLeaves = {"nothing"}
    MaxRecords = 5
    MaxCrashes = 2
CHECK_DEADLOCK FALSE
INVARIANTS
    TypeOK
    ReplayInv
    LogExplainsRun
    RecoverySucceeds
PROPERTIES
    HistoryOnlyGrows
    RecoveryCarriesOn
    RecoveryEnds
