SPECIFICATION FairSpec
CONSTANTS
    attach = attach
    click = click
    Callers = {attach, click}
    None = None
    Prompt = {attach}
    Patience <- Timeouts
    Runs <- Calls
    Streams = {stream}
    StreamLife = 3
    Limit = 5
    Grace = 1
    LastArrival = 1
CHECK_DEADLOCK FALSE
INVARIANTS
    TypeOK
    AnswersReachPromptClients
    ShutdownHeldByClients
    GracefulStop
PROPERTIES
    RunReturns
    TeardownSpec
