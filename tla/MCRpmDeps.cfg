SPECIFICATION Spec
CONSTANTS
    NULL = NULL
    Names <- MCNames
    Trimmed <- MCTrimmed
    Peeled <- MCPeeled
    Bare <- MCBare
    Generated = {"debuginfo()"}
    Ignored <- MCIgnored
    Libs = {"libl.so"}
    NotFollowed = {"libl.so", "libx"}
    Inputs <- MCInputs
INVARIANTS
    TypeOK
    PeersAreMutual
    UnchangedIsRetained
    NothingGainedAndLost
    LibraryRequirementsChecked
    VerdictMatchesFindings
