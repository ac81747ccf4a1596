CONSTANTS
    ModuleNames = {"m", "n"}
    Files <- MCFiles
    Dirs <- MCDirs
    Top = "/"
    ParentDir <- MCParentDir
    Declarations <- MCDeclarations
    References <- MCReferences
    Imports <- MCImports
    CNames = {"C.f"}
    NoName = "none"
    MaxRefs = 4
    MaxDeclared = 2
    MaxLogged = 2
    Limit = 3
    MaxInsts = 4
    Stride = 1024
    Objects <- MCObjects
SPECIFICATION HalfSpec
INVARIANTS SlotsPointHome StatedParentsAreReal NoDuplicates ContainersComplete WrittenChain NoDuplicateRefs NothingDropped Laminar EveryInstanceNumbered NumbersEncodeParents DerivedIsInnermost RefInInnermost
PROPERTY PublishIdempotent
