SPECIFICATION FairSpec
CONSTANTS
    Apps = {a, b}
    None = None
    Tool = Tool
    Dropped = Dropped
    a = a
    b = b
    Slots = {0, 1}
    MaxPresses = 1
    MaxScenes = 1
    MaxInjects = 1
    MaxCaptures = 1
    MaxBacklog = 1
PROPERTIES
    OwnerIsGranted
    InjectionIsAnswered
CHECK_DEADLOCK FALSE
