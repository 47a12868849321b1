SPECIFICATION Spec
CONSTANTS
    Procs <- MCProcs
    NoProc <- MCNoProc
    max_pids = 2
    max_len = 4
    BufSize = 2
    PipeCap = 2
    MaxWinch = 1
    NFiles = 3
    Builds <- MCBuilds
    MaxReports = 1
    MaxTries = 1
    Texts <- MCTexts
INVARIANTS
    AbortOnlyForCause
    VerdictOnlyOfCompleteScan
PROPERTIES
    KeepsPromise
    Ends
    ChildrenEnd
