CONSTANTS
    F = F
    G = G
    H = H
    out = out
    FG = FG
    GF = GF
    FO = FO
    GG = GG
    HF = HF
    HO = HO
    NoFile = NoFile
    Files <- MCFiles
    StageFiles = {F, G, H}
    Refs = {FG, GF, FO, GG, HF, HO}
    ReceiverRefs = {HF, HO}
    RefsOf <- MCRefsOf
    Target <- MCTarget
    Workers = {w1, w2}
    Shapes <- MCShapes
    PackageTypes = {T}
    Builtins = {int}
    OtherTypes = {P}
    MaxNames = 2
SPECIFICATION HalfSpec
INVARIANTS TargetsIndexed SameAsInOrder RecordedOnce FirstUseOfEach
