SPECIFICATION Spec
CONSTANTS
    MaxCrashes = 1
    MaxPresses = 3
    MaxRestarts = 2
    Window = 4
    FreezeChecks = 1
    Passes = 2
    Faults = {"query"}
CHECK_DEADLOCK FALSE
PROPERTIES
    StoppedStaysStopped
