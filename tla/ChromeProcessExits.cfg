SPECIFICATION Spec
CONSTANTS
    stdout = stdout
    stderr = stderr
    Pipes = {stdout, stderr}
    Pieces <- Output
    TempProfile = TRUE
CHECK_DEADLOCK FALSE
INVARIANTS
    OnlyUnexpectedReported
