\* Live stream, activity feed, file browser, cloud pairing, ROM lists and presence, side by side.
SPECIFICATION FairSpec
CONSTANTS
    MaxRows = 4
    Clients = {"c1", "c2"}
    Limit = 2
    Runs = {"r1", "r2"}
    Scripts = {"scan", "backup"}
    Window = 1
    MaxTime = 2
    MaxProgress = 1
    Inodes = {1, 2}
    MaxUploads = 2
    MaxSize = 3
    Word = 8
    MaxBreaks = 2
    MaxTokens = 3
    MaxSetups = 2
    MaxLosses = 2
    MaxRounds = 3
    Devices = {"d", "e"}
    Matching <- Alike
    Paths = {"sonic", "sonic2"}
    Sizes = {1}
    MaxChanges = 1
    MaxScans = 2
    MaxRequests = 1
    MaxFaults = 1
INVARIANTS
    ShownIsTrue
    HandedOverWhole
PROPERTIES
    ArrivesInTheEnd
CHECK_DEADLOCK FALSE
