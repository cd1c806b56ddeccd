\* Everything that is on the card or on a screen, side by side.
SPECIFICATION Spec
CONSTANTS
    Roms = {1, 2}
    Auditors = {"a", "b"}
    Contents = {1, 2}
    Size <- SizeOf
    Name <- NameOf
    Saves = {1, 2}
    Packers = {"a", "b"}
    MaxLength = 2
    MaxBody = 2
    MaxPacks = 2
    Installers = {"cli", "menu"}
    Entries = {1, 2}
    Releases = {1, 2}
    Inodes = {1, 2, 3}
    MaxInstalls = 3
    MaxTime = 2
    MaxWrites = 1
    Savestates = {"s1", "s2"}
    OwnFiles = {"db"}
    MaxVersion = 3
    MaxJobs = 3
    MaxFaults = 1
    JobOrder <- InOrder
    HourOf <- Hours
    HoursADay = 3
    MaxHours = 8
    MaxRestarts = 2
    MaxTotal = 6
    MaxHeight = 4
    Terms = {{0, 3}, {5}, {}}
    Wraps = {{}, {1, 4}, {1, 3, 4, 5}}
    Catalogs <- Fetchable
INVARIANTS
    CopiesAgree
PROPERTIES
    BackupsKeep
    ScreensAgree
CHECK_DEADLOCK FALSE
