SPECIFICATION Spec
CONSTANTS
    Paths <- MCPaths
    NoFile = NoFile
    Packages <- MCPackages
    Substitutions <- MCSubstitutions
    Generics <- MCGenerics
INVARIANT
    PeersPointAtEachOther
