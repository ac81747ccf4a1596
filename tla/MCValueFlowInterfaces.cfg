CONSTANTS
    Bases <- MCBases
    Placeless = {"error"}
    Plain = "plain"
    MaxSlots = 1
    MaxValues = 1
SPECIFICATION FlowSpec
INVARIANTS InterfacesConnected
