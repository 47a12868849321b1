SPECIFICATION Spec
CONSTANTS
    Missing = Missing
    Malformed = Malformed
    Inspections <- MCInspections
    Invocations <- MCInvocations
INVARIANTS
    ExitReflectsWorst
    FailureIsShown
    SecurityInspectionsRun
    PeersAreTheGatheredPackages
    ProductReleaseIsJustified
