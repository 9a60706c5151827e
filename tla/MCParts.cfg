SPECIFICATION PartsSpec
CONSTANTS
    MaxCrashes = 2
    MaxPresses = 3
    MaxRestarts = 2
    Window = 4
    FreezeChecks = 1
    Passes = 2
    Faults = {"query", "launch", "slow", "refuse", "server", "job"}
    Phones = {"ann", "bob"}
    MaxWaiting = 1
    WaitGone = 0
    LostFor = 0
    ForgetFor = 0
    SaveEvery = 1
    SessionFor = 2
    Folders = {"here", "there"}
    MaxUpsets = 1
    MaxFails = 1
    MaxStarts = 2
    LoginMaxFailures = 1
    MaxEpochs = 4
    MaxFaults = 1
    Ways = {"folder", "agent", "bridge"}
    Pollers = {"score", "view"}
    MaxBalls = 2
    MaxMishaps = 1
    MaxOns = 1
    MaxDown = 1
    MaxLostSaves = 1
    InningsBalls = 2
    DrinksAt = 1
    MaxBreakPresses = 2
    MaxBreakFaults = 1
    BreakFaults = {"restart"}
    MaxReadyPresses = 3
    MaxReadyFaults = 2
CHECK_DEADLOCK FALSE
INVARIANTS
    ReopensAreCapped OneVoice HeardOnce SourceCanReturn
    ChaptersFit EndsWithPlay LayoutIsRight LoginsHold CaughtUp
PROPERTIES
    NothingUninvited OnlyACrashIsUndone ResumeIsExact ReadyInTheEnd
