SPECIFICATION Spec
CONSTANTS
    MaxLogs = 3
    HotMax = 2
    BatchSize = 1
    Threads = {t1, t2}
    MaxFailures = 1
    NoThread = none
INVARIANTS
    NoLogLost
    CountedOnce
PROPERTIES
    OldLogsArchived
    StopEndsWorkers
