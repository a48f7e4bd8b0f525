SPECIFICATION Spec
CONSTANTS
    Devices = {pe1, pe2, pe3}
    Places = {lab, site}
    Unassigned = Unassigned
    Accesses = {team}
    Nowhere = Nowhere
    Tools = {"replace", "add", "remove", "move", "copy", "delete"}
    MaxRetries = 1
    MaxMoves = 1
    Faults = {"reject", "partial", "lost", "read", "cut"}
SYMMETRY Alike
INVARIANTS
    UnknownIsUnknown
    FailsForACause
PROPERTIES
    SuccessIsExact
    TouchesOnlyNamed
CHECK_DEADLOCK FALSE
