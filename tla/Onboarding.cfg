SPECIFICATION FairSpec
CONSTANTS
    first = first
    second = second
    Calls = {first, second}
    OldEntries = {"ssh"}
    MaxRetries = 1
    MaxPolls = 1
    MaxMoves = 1
    Moves = {"create", "update", "delete"}
    Faults = {"reject", "lost", "late", "read", "cancel"}
    MaxFaults = 2
INVARIANTS
    SuccessMeansGnmi
    AdminStateRestored
    OrderingRuleKept
PROPERTIES
    TransportsKept
    UpFollowsDown
CHECK_DEADLOCK FALSE
