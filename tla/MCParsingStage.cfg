CONSTANTS
    a = a
    b = b
    u = u
    fa = fa
    ga = ga
    ha = ha
    fb = fb
    fu = fu
    None = None
    Workers = {w1, w2}
    ChanCap = 1
    Packages <- MCPackages
    Files <- MCFiles
    FilesOf <- MCFilesOf
    ImportsOf <- MCImportsOf
    Roots <- MCRoots
    Manual = {b}
    Unparsable = {fb}
    MayFail = {u}
SPECIFICATION FairSpec
INVARIANTS TypeOK Accounting WaitSound NoSendOnClosed ParsedOnce AllReachableParsed
PROPERTIES ImplementsTraversal Terminates
CHECK_DEADLOCK FALSE
