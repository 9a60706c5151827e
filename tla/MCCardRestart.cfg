SPECIFICATION Spec
CHECK_DEADLOCK FALSE
CONSTANTS
    Quota = 2
    AllOut = 2
    MaxScore = 3
    MaxFaults = 1
    MaxUploads = 1
INVARIANTS ReadAfterARestart
