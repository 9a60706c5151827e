SPECIFICATION ClubSpec
CONSTANTS
    Asking = {"match day", "check"}
    Pages = {"window", "screen"}
    MaxQuestions = 3
    MaxCrashes = 1
    MaxPresses = 3
    Ladder <- Rungs
    Full = 1000
    Least = 500
    AutoDownshift = TRUE
    Enough = 2
    Cooldown = 1
    FailTicks = 2
    UpAfter = 1
    MaxWait = 2
    Steps = {"down", "restore"}
    Faults = {"query", "refuse", "lost", "hang", "crash", "server", "trigger"}
CHECK_DEADLOCK FALSE
INVARIANTS StepsEndWell RungIsKept AnswersAreKept
PROPERTIES ViewersGetItBack UpshiftIsEarned
