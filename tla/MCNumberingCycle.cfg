CONSTANTS
    Limit = 3
    MaxInsts = 3
    Stride = 1024
    Objects <- MCObjects
SPECIFICATION NumberingSpec
INVARIANTS NeverFallsBack
