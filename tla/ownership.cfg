SPECIFICATION Spec
CONSTANTS
    Apps = {a, b}
    None = None
    Tool = Tool
    Dropped = Dropped
    a = a
    b = b
    Slots = {0, 1}
    MaxPresses = 1
    MaxScenes = 3
    MaxInjects = 1
    MaxCaptures = 0
    MaxBacklog = 1
SYMMETRY Interchangeable
INVARIANTS
    SessionKnowsOwner
    PressesReachOneParty
CHECK_DEADLOCK FALSE
