SPECIFICATION FairSpec
CONSTANTS
    Managed = TRUE
    MaxRequests = 3
    MaxVersion = 3
    MaxMenuRuns = 1
    MaxFaults = 2
INVARIANTS TypeOK OkMeansUpToDate
PROPERTIES NoDowngrade EveryUpdateAnswered
CHECK_DEADLOCK FALSE
