CONSTANTS
    Size = 5
    Slots = 2
    MaxFails = 2
    Bases <- MCBases
    Placeless = {"error"}
    Plain = "plain"
    MaxSlots = 2
    MaxValues = 3
SPECIFICATION HalfSpec
INVARIANTS ReturnsOfOwnFunction ConnectedOnce ReachedExactly ErrorsAreReported ConnectedAsOwed 
