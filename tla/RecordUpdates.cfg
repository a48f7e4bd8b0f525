SPECIFICATION Spec
CONSTANTS
    Kinds = {"policy", "retention", "profile", "device", "suppression"}
    Ids = {i1, i2}
    Fields = {"name", "text"}
    Metadata = {"text"}
    Values = {v1, v2}
    Calls = {c1}
    MaxRetries = 1
    MaxMoves = 1
    MaxFaults = 2
SYMMETRY Alike
INVARIANT
    FailsForACause
PROPERTIES
    UpdateKeepsTheRest
    UpdatedIsWritten
CHECK_DEADLOCK FALSE
