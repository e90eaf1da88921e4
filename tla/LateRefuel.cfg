SPECIFICATION Spec
CONSTANTS
    U64 = 8
    Unlimited = Unlimited
    Calls <- MCCalls
    Answers = {a, b}
    TooDeep = {}
    Nothing = Nothing
    Budget = 4
    Refuels <- MCRefuels
    FailedLeaves = {"nothing"}
    MaxRecords = 5
    MaxCrashes = 2
CHECK_DEADLOCK FALSE
INVARIANT
    NothingAfterDone
