SPECIFICATION PartsSpec
CONSTANTS
    BPO = 2
    Overs = 2
    Kinds <- AllKinds
    MaxWkts = 1
    MaxInOver = 3
    Tickers = {"none", "stale", "full"}
    MatchIds = {a, b}
    a = a
    b = b
    MaxMissed = 1
    Troubles = {"id"}
    MaxTroubles = 1
    Replays = {"one", "two"}
    Reasons = {"Wicket"}
    D = 1
    Save = 1
    Slack = 2
    Attempts = 2
    HoldFor = 1
    Clip = 1
    Lead = 1
    Between = 1
    MaxFaults = 1
    Faults = {"lost", "refuse", "nosave", "restart", "off air"}
    StopButtons = {"one"}
    MaxDays = 1
    MaxSaves = 0
INVARIANT NotLoggedAgain
CHECK_DEADLOCK FALSE
SYMMETRY IdsAlike
