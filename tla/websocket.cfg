SPECIFICATION Spec
CONSTANTS
    client = client
    Clients = {client}
    Sockets = {s1, s2, s3}
    Owner <- MCOwner
    MaxReconnects = 2
    NoSocket = none
CHECK_DEADLOCK FALSE
INVARIANTS
    ServedIsRegistered
PROPERTIES
    DeadEntriesGo
