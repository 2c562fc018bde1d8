SPECIFICATION Spec
CONSTANTS
    Critical = {c1}
    Ordinary = {o1}
    NoEvent = none
    MaxSize = 1
    CancelStops = FALSE
INVARIANTS
    CriticalNeverDropped
