SPECIFICATION Spec
CONSTANTS
    Services = {a, mute}
    Mute = {mute}
    Honeypot = none
    Period <- MCPeriod
    Timeout = 1
    WatchInterval = 1
    Threshold = 3
    MaxAttempts = 2
    MaxRecoveries = 2
    Window = 2
    MaxTasks = 1
    OtherTasks = 0
    MaxCrashes = 2
    EventFloods = TRUE
    PromptThreads = FALSE
    MaxGap = 0
INVARIANTS
    TypeOK
    StatusTellsFailures
    DownStaysDown
    RestartsFollowFailures
PROPERTIES
    ThrottledOutageIsForGood
    MuteEndsUnhealthy
    DeadLoopReturns
