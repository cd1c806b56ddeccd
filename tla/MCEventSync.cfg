SPECIFICATION FairSpec
CONSTANTS
    run = run
    cli = cli
    s1 = s1
    NumEvents = 3
    Syncers = {run, cli}
    RunLoop = run
    Conns = {c1, c2}
    Nobody = Nobody
    NoConn = NoConn
    BatchSize = 2
    Sessions = {s1}
    StartOf <- StartOfValue
    FinishOf <- FinishOfValue
    MaxFaults = 1
INVARIANTS TypeOK NothingLost AppliedOnce InOrder FinishedIsClosed
PROPERTIES NeverReopened Delivers EveryEventDelivered
CHECK_DEADLOCK FALSE
