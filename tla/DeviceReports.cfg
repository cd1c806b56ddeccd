\* The issues page shows what the doctor reported; it does not: every issue is "info".
SPECIFICATION Spec
CONSTANTS
    Commands = {"c"}
    Items = 2
    BatchSize = 2
    Severities = {"critical", "warning"}
    Counts = {0, 1}
    MaxRuns = 1
    MaxBeats = 1
    MaxChanges = 1
    MaxFaults = 1
INVARIANTS
    IssuesAsReported
CHECK_DEADLOCK FALSE
