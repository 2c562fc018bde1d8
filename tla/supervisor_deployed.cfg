SPECIFICATION Spec
CONSTANTS
    Services = {honeypot, quick, mute}
    Mute = {mute}
    Honeypot = honeypot
    Period <- MCPeriod
    Timeout = 3
    WatchInterval = 1
    Threshold = 3
    MaxAttempts = 3
    MaxRecoveries = 5
    Window = 6
    MaxTasks = 3
    OtherTasks = 0
    MaxCrashes = 0
    EventFloods = FALSE
    PromptThreads = TRUE
    MaxGap = 19
INVARIANTS
    CheckGapBounded
    RestartsFitTheWindow
    LiveLoopsUndisturbed
