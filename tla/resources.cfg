SPECIFICATION OfferingSpec
CONSTANTS
    Tasks = {t1, t2, t3}
    MaxTasks = 2
    MaxQueue = 2
    MaxEvents = 2
    MaxRecoveries = 2
INVARIANTS
    TypeOK
PROPERTIES
    ThrottlingIsForGood
    OnlyRatesThrottle
    ThrottlingEnds
