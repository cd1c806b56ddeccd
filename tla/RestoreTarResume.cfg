SPECIFICATION Spec
CONSTANTS
    NumFiles = 2
    Room = 4
    KeepTar = FALSE
    MaxFaults = 1
INVARIANT Resumable
CHECK_DEADLOCK FALSE
