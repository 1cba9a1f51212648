SPECIFICATION FairSpec
CONSTANTS
    NOps = 1
    NChunks = 3
    ProgressChunks = 2
    Mode = "Quick"
    Interior = {}
    Disposable = {}
    Attested = {}
    Dirs = {d1}
    NoDir = NoDir
    MaxRuns = 2
    MaxFaults = 0
INVARIANTS
    JournaledProgress
PROPERTIES
    NoClobber
    InvocationEnds
