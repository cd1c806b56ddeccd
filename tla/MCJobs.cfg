\* Restore, compression, downloads, services, launcher, database schema, sessions
\* and the lockfile, side by side.
SPECIFICATION FairSpec
CONSTANTS
    None = None
    Commands = {scan, extract, backup}
    NumFiles = 5
    Room = 10
    KeepTar = FALSE
    Sources = {"cue", "gdi", "iso"}
    Tracks = {"t1", "t2", "t3"}
    Targets = {"game", "other"}
    TracksOf <- SheetTracks
    TargetOf <- Images
    Refuses = TRUE
    MaxFaults = 3
    Fetchers = {"c1", "c2"}
    Inodes = {"i1", "i2", "i3", "i4", "i5", "i6"}
    Chunks = 2
    MaxBreaks = 2
    Jobs = {"j1", "j2"}
    MaxStrays = 2
    MaxEvents = 3
    Codes = {0, 1, 99}
    MaxLaunches = 3
    Processes = {"run", "cli", "old"}
    Known <- Binaries
    RunLoop = "run"
    Parts <- Statements
    InitialLogs <- OldLogs
    MaxCuts = 1
    Torn = Torn
INVARIANTS
    TypeOK
    ExclusiveUnlessRaced
    WholeInPlace
    ProcessesAgree
PROPERTIES
    NoRomLost
    EndsWell
CHECK_DEADLOCK FALSE
