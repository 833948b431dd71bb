SPECIFICATION FairSpec
CONSTANTS
    Navigations = 3
    Waits = 3
CHECK_DEADLOCK FALSE
INVARIANTS
    TypeOK
    EndedByOwnEvent
PROPERTIES
    EventsFlow
    WaitsReturn
