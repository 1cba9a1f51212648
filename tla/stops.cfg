SPECIFICATION FairSpec
CONSTANTS
    Conns = {c1, c2}
    None = None
PROPERTIES
    StopEnds
CHECK_DEADLOCK FALSE
