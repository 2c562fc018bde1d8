SPECIFICATION Spec
CONSTANTS
    Critical = {c1, c2}
    Ordinary = {o1, o2}
    NoEvent = none
    MaxSize = 2
    CancelStops = TRUE
INVARIANTS
    TypeOK
    HeldIsInFlight
    OverflowOnlyBehindFullQueue
    StoppedIsClean
    PublishedOnce
    DirectFifo
PROPERTIES
    StopCompletes
    HeldIsPublished
    ServiceSpec
