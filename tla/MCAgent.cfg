\* Two games, two processes, three sessions, one fault of any kind; and whatever else the
\* agent keeps or reports, side by side.
SPECIFICATION AllSpec
CONSTANTS
    Roms = {snes, gba}
    MaxLaunches = 2
    MaxSessions = 3
    MaxSaves = 2
    MaxFaults = 1
    SyncInterval = 60
    CrashThreshold = 8
    None = None
    Torn = Torn
    Keys = {"quit", "volume"}
    Settings = {"quit"}
    Values = {"on", "off"}
    Want = "on"
    MaxStamp = 2
    Games = {"ra", "rb"}
    Titles = {"mario", "zelda"}
    TitleOf <- Title
    CoverRows <- Covers
    Batch = 1
    Sizes = {1, 2}
    MaxScans = 2
    MaxFetches = 1
    Files = {1, 2}
    MaxRefresh = 2
    MaxUploads = 2
    MaxCrashes = 1
    Features = {"catalog", "netplay"}
    DefaultOf <- Default
    Texts = {"enabled", "disabled", "Enabled"}
    MaxSets = 2
    MaxPulls = 3
    Addresses = {"a1", "a2"}
    Names = {"n"}
    MaxInits = 3
    MaxMoves = 1
    MaxEdits = 1
    Commands = {"c1", "c2"}
    Items = 2
    BatchSize = 2
    Severities = {"critical"}
    Counts = {1}
    MaxRuns = 2
    MaxBeats = 1
    MaxChanges = 1
    MaxMishaps = 1
INVARIANTS
    TypeOK
    ReportedOnce
    OpenIsTracked
    NoOverlap
    NewSessionNewProcess
    SaveReported
PROPERTIES
    SettingsStick
    ServerKnows
SYMMETRY Symmetric
CHECK_DEADLOCK FALSE
