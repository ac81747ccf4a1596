CONSTANTS
    Shapes <- MCAssignShapes
    SpecNames <- MCSpecNames
    LocalVars = {}
    ForeignVars = {h}
    Lefts = {1, 2}
    Name = Name
    Blank = Blank
SPECIFICATION Spec
INVARIANT VariableTargetsDeclared
