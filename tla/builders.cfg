SPECIFICATION Spec
CONSTANTS
    b1 = b1  b2 = b2  c1 = c1  c2 = c2
    Builders = {b1, b2}
    Revisions = {c1, c2}
    Nil = Nil
    Altered = Altered
    MaxGens = 2
    EntryNames = {"a", "b"}
    MaxMeddling = 2
    ToolVersions = {"v1", "v2"}
    Cards = {"c1", "c2"}
    Fitting = {"c1"}
    Disks = {"d1", "d2", "c1"}
    External = {"d1", "c1"}
    MaxAudits = 2
    MaxChanges = 1
    Heads = {"h1", "h2"}
    PackageVersions = {"v1", "v2", "v3"}
    CommitIn <- CommitsOfThree
    ReleaseIn <- ReleasesOfThree
    BaselineCommit = "h2"
    CurrentRelease = "current"
    FallbackRelease = "fallback"
    MaxBlocks = 6
    MaxHeaders = 4
    MaxMembers = 3
    TreeNames = {1, 2}
    MaxDepth = 3
    Releasers = {"builder"}
    MaxEdits = 2
    KernelBundles = {"k1", "k2"}
    MaxCardEdits = 1
    PayloadFiles = {"boot", "install"}
    MaxMoves = 1
    MaxBuildFaults = 1
    Drives = {"d1", "d2"}
    Ours = "d1"
    UsbGenerations = {"g1", "g2"}
    MaxSwaps = 2
    MaxFormats = 2
    MaxRuns = 3
    MaxInstallFaults = 2
    Payloads = {"p1", "p2"}
    MaxCommits = 2
    MaxRecoveryFaults = 2
SYMMETRY Interchangeable
INVARIANTS
    ToolchainHolds
    CacheTreeHolds
    HandoffIsTrue
    BundleHolds
    ReleaseIsPinned
    FallbackStays
    BuildsAreOfTheirCommit
    StagedIsWhole
PROPERTIES
    PassIsTrue
    NothingIsLost
CHECK_DEADLOCK FALSE
