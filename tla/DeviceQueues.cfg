SPECIFICATION FairSpec
CONSTANTS
    Paths = {p1}
    Commands = {run, menu}
    RunLoop = run
    Nobody = Nobody
    MaxRequests = 2
    MaxPuts = 1
    MaxLines = 1
    MaxMenuRuns = 1
    MaxFaults = 1
INVARIANTS TypeOK OkWasEarned
PROPERTIES AnswersStand EveryRequestSettles
CHECK_DEADLOCK FALSE
