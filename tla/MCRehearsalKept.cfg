SPECIFICATION RehearsalSpec
CONSTANTS
    Folders = {"here", "there"}
    MaxUpsets = 0
    MaxFails = 0
    MaxStarts = 2
PROPERTIES RealIsKept
CHECK_DEADLOCK FALSE
