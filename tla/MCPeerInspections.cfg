CONSTANTS
    Items <- MCItems
    Settings <- MCSettings
SPECIFICATION MCSpec
PROPERTY
    FailureIsExplained
INVARIANTS
    OkIsEarned
    SkippedRulesAreSilent
    IgnoredFilesOnlySecurity
    PrivilegedModesReported
    RebaseIsLenient
