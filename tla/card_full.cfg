SPECIFICATION Spec
SYMMETRY DirSymmetry
CONSTANTS
    NOps = 2
    NChunks = 2
    ProgressChunks = 2
    Mode = "Full"
    Interior = {}
    Disposable = {2}
    Attested = {prefix, p3}
    Dirs = {d1, d2}
    NoDir = NoDir
    MaxRuns = 1
    MaxFaults = 1
INVARIANTS
    SafeEvidence
    EvidenceTells
    MediumReleased
PROPERTIES
    FirstWriteOnBaseline
