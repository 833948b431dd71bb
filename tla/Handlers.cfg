SPECIFICATION Spec
CONSTANTS
    Half = 2048
    Millisecond = 10
    DefaultActionTimeout = 60
    Settings <- SomeSettings
    Millis <- SomeMillis
CHECK_DEADLOCK FALSE
INVARIANTS
    TypeOK
    CallsBounded
    StatusTellsOutcome
    TimeoutHonoured
