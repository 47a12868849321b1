SPECIFICATION Spec
CONSTANTS
    Paths <- MCPaths
    NoFile = NoFile
    Packages <- MCPackages
    Substitutions <- MCSubstitutions
    Generics <- MCGenerics
INVARIANTS
    TypeOK
    BeforePointsBack
    TableIsCurrent
    NoPeerForAReason
PROPERTY
    PairsAreKept
