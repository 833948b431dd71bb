SPECIFICATION FairSpec
CONSTANTS
    Attempts = 6
    Backoff = 1
    ClientTimeout = 2
    StartupTimeout = 6
CHECK_DEADLOCK FALSE
INVARIANTS
    TypeOK
    PatientStartup
PROPERTIES
    ProbingEnds
    FailureLeavesNoChrome
