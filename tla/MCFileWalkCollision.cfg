CONSTANTS
    Shapes <- MCCollisionShapes
    SpecNames <- MCSpecNames
    LocalVars = {}
    ForeignVars = {}
    Lefts = {1, 2}
    Name = Name
    Blank = Blank
SPECIFICATION Spec
INVARIANT EntriesNeverCollide
