SPECIFICATION Spec
CONSTANTS
    Commands = {c1, c2, c3}
INVARIANTS
    OneCommandAtATime
CHECK_DEADLOCK FALSE
