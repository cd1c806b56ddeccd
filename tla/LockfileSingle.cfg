\* Two commands are enough to hold the lock twice.
SPECIFICATION Spec
CONSTANTS
    Commands = {scan, extract}
    None = None
INVARIANTS
    SingleInstance
CHECK_DEADLOCK FALSE
