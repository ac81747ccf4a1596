CONSTANTS
    NoPath = NoPath
    Dirs <- MCDirs
    Files <- MCFiles
    Cwd <- MCCwd
    RepoRoot <- MCRepoRoot
    NameRest <- MCNameRest
    Arguments <- MCArguments
    MaxArguments = 3
    ModSets <- MCModSets
    Imported <- MCImported
    RootFlags <- MCRootFlags
SPECIFICATION FairSpec
INVARIANTS ResolvedExactly RootIsDeepest GroupedByModule OnlyWholeIndex
PROPERTY Terminates
