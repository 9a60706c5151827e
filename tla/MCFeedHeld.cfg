SPECIFICATION Spec
CONSTANTS
    Modes = {"agent"}
    Addresses = {1}
    Pollers = {"overlay"}
    Stale = 3
    MaxFrame = 2
    MaxFaults = 1
PROPERTIES ScoreIsHeld
CHECK_DEADLOCK FALSE
