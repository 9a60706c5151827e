SPECIFICATION PartsSpec
CONSTANTS
    MaxRestarts = 3
    HungAfter = 4
    MaxQuick = 4
    Presses = {"one", "two"}
    Jobs = {1, 2}
    MaxEnds = 2
    MaxPresses = 2
    MaxTroubles = 2
CHECK_DEADLOCK FALSE
INVARIANTS NoCutUnderAServer ACopyIsThere OncePerMatch
PROPERTIES
    OnlyALoopIsTold ServerIsReplaced ReplayIsLeft
    StreamComesBack LinkComesBack
