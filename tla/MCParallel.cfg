SPECIFICATION Spec
CONSTANTS
    p1 = p1
    p2 = p2
    p3 = p3
    Procs <- MCProcs
    NoProc = NoProc
    max_pids = 2
    max_len = 1
    BufSize = 1
    PipeCap = 2
    MaxWrites = 2
    MaxWinch = 1
INVARIANTS
    TypeOK
    RunningCount
    ReadNeverBlocks
    OutputExact
    OneSlotPerChild
    ExitOnlyForCause
PROPERTY
    EveryChildReaped
