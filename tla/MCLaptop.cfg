SPECIFICATION LaptopSpec
CHECK_DEADLOCK FALSE
CONSTANTS
    XI = 4
    AllOut = 2
    BallsPerOver = 1
    MaxOvers = 2
    SpellOvers = 4
    Attack <- OneBowler
    Extra = {"x1"}
    Balls <- MatchBalls
    Pickable = {4}
    Offered = {"x1"}
    MaxEvents = 4
    MaxLost = 1
    Writers = {"panel", "feed"}
    Readers = {"overlay"}
    PanelOnly = {"sponsor"}
    Mapped = {"max_overs"}
    Values = {"default", "edit"}
    MaxStamp = 4
    MaxFaults = 1
    Faults = {"write", "crash"}
    Clubs = {"a", "b"}
    MaxDay = 2
    MaxJobs = 2
    MaxEdits = 1
    MaxMishaps = 1
    Screens = {"pi"}
    MaxAsks = 6
    MaxRequests = 2
    MaxKeys = 1
    MaxFails = 2
    FailWindow = 1
    Lockout = 2
    MaxPackets = 1
    Pollers = {"overlay", "panel"}
    Matches = {"a", "b"}
    InWidget = {"a", "c"}
    Top = "c"
    Rest = 1
    MaxFetches = 2
    MaxPins = 2
INVARIANTS
    BookIsReplay FiguresAreHonest
    BooksBalance AskedIsPolled EditsAreKept
    NobodyWaitsInVain PinIsHeld ResultIsRight
    ReportsAreRight AirtimeIsHonest
