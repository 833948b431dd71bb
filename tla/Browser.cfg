SPECIFICATION FairSpec
CONSTANTS
    attach = attach
    click = click
    Requests = {attach, click}
    None = None
    Runs <- SomeRuns
    Timeout <- Timeouts
CHECK_DEADLOCK FALSE
INVARIANTS
    TypeOK
    AppliedInProgramOrder
    ForeignOnlyLate
    SuccessLinesInOrder
    DrainsByLatestDeadline
PROPERTIES
    EveryCallAnswered
    QueueSpec
