SPECIFICATION Spec
CONSTANTS
    U64 = 8
    Unlimited = Unlimited
    Calls <- MCCalls
    Answers = {a, b}
    TooDeep = {}
    Nothing = Nothing
    Budget = 3
    Refuels <- MCRefuels
    FailedLeaves = {"nothing", "torn"}
    MaxRecords = 5
    MaxCrashes = 2
CHECK_DEADLOCK FALSE
INVARIANT
    LogNeverLags
