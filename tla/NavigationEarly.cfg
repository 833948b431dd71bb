SPECIFICATION Spec
CONSTANTS
    Navigations = 3
    Waits = 3
CHECK_DEADLOCK FALSE
INVARIANTS
    WaitEndsLoaded
