SPECIFICATION Spec
CONSTANTS
    Tools <- MCTools
    Writes <- MCWrites
    Previews <- MCPreviews
    Area <- MCArea
    Areas <- MCAreas
    Names <- MCNames
    Requires <- MCRequires
    Settings <- MCSettings
INVARIANTS
    RegisteredAsConfigured
    DryRunCommitsNothing
    CommitPreviewed
    VerdictBacked
CHECK_DEADLOCK FALSE
