SPECIFICATION RuntimeSpec
CONSTANTS
    Critical = {shutdown}
    Ordinary = {start, other}
    NoEvent = none
    MaxSize = 1
    CancelStops = TRUE
    StartSteps = 3
    StopSteps = 2
    CriticalStarts = {2}
    CriticalStops = {1}
    TearsDown <- MCTearsDown
    StartedEvent = start
    ShutdownEvent = shutdown
    MaxStartups = 2
CHECK_DEADLOCK FALSE
INVARIANTS
    UpHasDispatcher
    RestsStopped
    ShutdownWasAnnounced
    StartBeforeShutdown
PROPERTIES
    ShutdownIsFinal
    CallsEnd
