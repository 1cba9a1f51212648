SPECIFICATION FairSpec
CONSTANTS
    NFiles = 2
    MaxFaults = 3
    MaxStops = 2
INVARIANTS
    Bootable
    OutcomeIsTrue
PROPERTIES
    StepsAreJournaled
    ImplementsSwitch
    RecoveryCompletes
CHECK_DEADLOCK FALSE
