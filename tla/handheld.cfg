SPECIFICATION Spec
CONSTANTS
    p1 = p1  p2 = p2
    Peers = {p1, p2}
    Slots = 2  Transfers = 1  MaxAttempts = 1  Window = 0
    Blocks = 1  ShareTime = 1  Signals = TRUE
    Pkgs = {"p", "q"}  Runtimes = {"r1", "r2"}  MaxOps = 3  LosesContent = FALSE
    Seconds = 1  SharedGrace = 1  OwnGrace = 2  MaxTime = 3  Crashes = 1
    Freqs = {1, 2, 3}  Governors = {"schedutil", "performance"}
    Caps = {1, 2}  CpuRequests = 2
    Binaries = {"b1", "b2"}  MaxRestarts = 1  MaxRequests = 3  MaxSamples = 2
    Contents = {"x", "y"}  Names = {"n1"}  Lengths = {3, 4}  FetchFaults = 1
    Units = {"u1", "u2"}  Checkpoints = 2  MaxEvents = 2
    Controls = {"l3", "r3", "select", "start", "x"}  ChordMs = 1  HoldMs = 2
    Agents = {"a1", "a2", "a3"}  Nobody = "none"  Asked = {"clone", "write"}
    MaxFaults = 2
SYMMETRY Interchangeable
INVARIANTS
    ShareHolds
    PortsHold
    SessionEndsTrue
    ClockAnswerIsTrue
    RequestActsOnce
    TransferIsWhole
    LeavesAsFound
    GesturesHold
    EndpointIsServed
    AnswerIsTrue
PROPERTIES
    NothingReplaced
CHECK_DEADLOCK FALSE
