SPECIFICATION Spec
CONSTANTS
    Conns = {c1, c2}
    None = None
    Plan <- MCChained
    Asked = {"read", "mount", "unmount", "write"}
SYMMETRY ConnSymmetry
INVARIANTS
    CardHolds
PROPERTIES
    NoWriteAfterStop
