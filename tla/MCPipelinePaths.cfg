CONSTANTS
    NoPath = NoPath
    Dirs <- MCDirs
    Files <- MCFiles
    Cwd <- MCCwd
    RepoRoot <- MCRepoRoot
    NameRest <- MCNameRest
    Arguments <- MCArguments
    MaxArguments = 1
    ModSets <- MCModSets
    Imported <- MCImported
    RootFlags <- MCRootFlags
SPECIFICATION Spec
INVARIANT ModulePathsUnique
