SPECIFICATION FairSpec
CONSTANTS
    Kinds = {"plan", "nso", "check", "ems", "backup", "deploy", "job", "trace",
             "reach", "perf", "sr", "gone", "route", "unroute"}
    Timeouts = {0, 3}
    Intervals = {1, 2}
    MaxFetch = 1
    MaxDelay = 3
    MaxNow = 9
    MaxOthers = 1
    MaxFaults = 1
INVARIANTS
    VerdictIsOwn
    NotStartedIsTrue
    ConvergenceSeen
    WithinBudget
PROPERTY
    WaitReturns
CHECK_DEADLOCK FALSE
