SPECIFICATION Spec
CONSTANTS
    Codes = {0, 1, 2}
    EXIT_FAILURE = 1
    Given = Given
    Signaled = Signaled
    PipeCap = 1
    MaxLines = 3
    MaxWinch = 1
INVARIANTS
    ReportedAsItWas
    NoZombieLeft
    TruncationShows
PROPERTY
    BothEnd
