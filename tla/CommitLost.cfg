SPECIFICATION Spec
CONSTANTS
    Tools <- MCTools
    Writes <- MCWrites
    Previews <- MCPreviews
    Area <- MCArea
    Areas <- MCAreas
    Names <- MCNames
    Requires <- MCRequires
    Settings <- OpenSettings
INVARIANT
    FailedCommitDeploysNothing
CHECK_DEADLOCK FALSE
