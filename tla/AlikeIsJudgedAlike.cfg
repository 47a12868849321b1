CONSTANTS
    Items <- ConfigItems
    Settings <- MCSettings
SPECIFICATION MCSpec
INVARIANT
    AlikeIsJudgedAlike
