SPECIFICATION Spec
CONSTANTS
    EINTR = 4
    MaxTries = 3
    Lengths = {3, 4, 8}
    MaxCalls = 4
    MaxErrors = 2
INVARIANTS
    CountedBytesAreSent
    ResentIsBounded
