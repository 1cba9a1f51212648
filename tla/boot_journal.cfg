SPECIFICATION TxSpec
CONSTANTS
    NFiles = 2
    MaxFaults = 1
INVARIANTS
    JournalsClassify
