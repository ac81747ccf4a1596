CONSTANTS
    Shapes <- MCShapes
    SpecNames <- MCSpecNames
    LocalVars = {x, y}
    ForeignVars = {}
    Lefts = {1, 2}
    Name = Name
    Blank = Blank
SPECIFICATION Spec
INVARIANTS LiteralsOnce NameAgreesWithPlace InterfacesReached UsesFollowSource
