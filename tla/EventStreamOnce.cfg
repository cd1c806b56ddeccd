SPECIFICATION Spec
CONSTANTS
    MaxRows = 3
    Clients = {c1}
    Limit = 2
INVARIANTS
    PushedOnce
CHECK_DEADLOCK FALSE
