CONSTANTS
    Shapes <- MCShapes
    PackageTypes = {T}
    Builtins = {int}
    OtherTypes = {P}
    MaxNames = 2
SPECIFICATION WalkSpec
INVARIANT BuiltinsOfStructs
