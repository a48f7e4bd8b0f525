SPECIFICATION Spec
CONSTANTS
    Calls <- MCCalls
    MaxResends = 1
    MaxForeign = 1
    MaxCalls = 2
INVARIANTS
    NothingTwice
    NoHarm
    UndoneIsGone
    PartIsTold
PROPERTIES
    KeepsPromise
    CallReturns
CHECK_DEADLOCK FALSE
