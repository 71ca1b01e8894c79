SPECIFICATION Spec
CONSTANTS
    MaxUint = 9
    Params = 2
    ReturnVar = 3
    ArrayVars = {6, 7}
    NumVars = 7
    Fuel = 8
    Sources <- MCSources
    Calls <- MCCalls
INVARIANTS
    SameOutcome
    DefsComplete
    UndefinedRefused
CHECK_DEADLOCK FALSE
