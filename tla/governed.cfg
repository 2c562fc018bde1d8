SPECIFICATION GovernedSpec
CONSTANTS
    Critical = {c1}
    Ordinary = {o1, o2}
    NoEvent = none
    MaxSize = 1
    CancelStops = FALSE
    Tasks = {t1}
    MaxTasks = 1
    MaxEvents = 1
    MaxRecoveries = 1
INVARIANTS
    AdmittedFits
PROPERTIES
    ShutdownPassesThrottle
