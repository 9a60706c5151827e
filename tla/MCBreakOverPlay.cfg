SPECIFICATION BreakSpec
CONSTANTS
    InningsBalls = 2
    DrinksAt = 1
    MaxBreakPresses = 1
    MaxBreakFaults = 1
    BreakFaults = {"reload"}
INVARIANTS EndsWithPlay
CHECK_DEADLOCK FALSE
