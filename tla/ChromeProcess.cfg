SPECIFICATION FairSpec
CONSTANTS
    stdout = stdout
    stderr = stderr
    Pipes = {stdout, stderr}
    Pieces <- Output
    TempProfile = TRUE
CHECK_DEADLOCK FALSE
INVARIANTS
    TypeOK
    ProfileOutlivesChrome
    OutputBeforeReport
PROPERTIES
    CrashReported
    CloseEnds
    TeardownSpec
